------------------------------- MODULE MCOptions -------------------------------
(***************************************************************************)
(* Options with the login by WeChat, its switch, address and token, and the  *)
(* notice.  The trailing slash of the address is not sent.                   *)
(***************************************************************************)
EXTENDS Options, TLC

MCSwitch == {"WeChatAuthEnabled"}
MCSetting == {"WeChatServerAddress", "WeChatServerToken", "Notice"}
MCHidden == {"WeChatServerToken"}
MCOwn == {"Notice"}
MCNeeds == [s \in MCSwitch |-> "WeChatServerAddress"]
MCGroup == {"WeChatServerAddress", "WeChatServerToken"}
MCRank == [k \in MCSwitch \cup MCSetting |-> IF k = "WeChatServerToken" THEN 1 ELSE 0]
MCText == [s \in MCSetting |-> IF s = "WeChatServerAddress" THEN {"a", "a/"} ELSE {"x"}]
MCTrim ==
  [s \in MCSetting |-> [v \in MCText[s] \cup {""} |-> IF v = "a/" THEN "a" ELSE v]]
MCDefault ==
  [k \in MCSwitch \cup MCSetting |-> IF k \in MCSwitch THEN "false" ELSE ""]

\* Nothing but identity tells two pages apart.
Interchangeable == Permutations(Page)
===============================================================================
