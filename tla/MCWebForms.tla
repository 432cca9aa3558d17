------------------------------ MODULE MCWebForms ------------------------------
\* An instance of WebForms: any of the forms, two texts.
EXTENDS WebForms

CONSTANTS x, y

MCForm == AllForms
MCText == {x, y}
MCMaxClicks == [f \in AllForms |-> IF f \in {"reset", "confirm"} THEN 3 ELSE 2]
===============================================================================
