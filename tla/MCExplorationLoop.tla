------------------------- MODULE MCExplorationLoop -------------------------
(***************************************************************************)
(* ExplorationLoop for TLC: a home screen with a form whose button needs a *)
(* carrier and a supporting field, and a heading that says where one is; a *)
(* screen with a search that needs its field filled in and that opens a    *)
(* menu; an activity and a deep link lead to that screen.                  *)
(***************************************************************************)
EXTENDS ExplorationLoop

Plain(id) == [id |-> id, clickable |-> FALSE, long |-> FALSE, editable |-> FALSE, enabled |-> TRUE,
              visible |-> TRUE, filled |-> FALSE, safe |-> TRUE, semantic |-> FALSE, form |-> "no",
              input |-> "support", topic |-> FALSE, title |-> FALSE, menu |-> "none"]
Field(id, use) == [Plain(id) EXCEPT !.editable = TRUE, !.input = use]
Button(id) == [Plain(id) EXCEPT !.clickable = TRUE]

MCNodes == [s \in {"home", "other"} |->
  IF s = "home" THEN {Field("url", "carrier"), Field("user", "support"),
                      [Button("submit") EXCEPT !.semantic = TRUE, !.form = "button", !.long = TRUE],
                      [Button("heading") EXCEPT !.title = TRUE]}
  ELSE {[Field("query", "support") EXCEPT !.topic = TRUE],
        [Button("search") EXCEPT !.semantic = TRUE, !.long = TRUE, !.menu = "menu"]}]
MCActivity == [s \in {"home", "other"} |-> IF s = "home" THEN {} ELSE {"activity", "link"}]
=============================================================================
