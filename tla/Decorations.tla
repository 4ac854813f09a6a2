----------------------------- MODULE Decorations ----------------------------
(***************************************************************************)
(* Scintilla's DecorationList: for every indicator in use the values it    *)
(* has over the document.  An indicator that is 0 everywhere is deleted.   *)
(***************************************************************************)
EXTENDS RunStyles

Null == -1

NoDecorations ==
    [length |-> 0, list |-> [i \in {} |-> NewRunStyles], current |-> Null, indicator |-> 0]

IsEmptyDecoration(r) == Runs(r) = 1 /\ AllSameAs(r, 0)

\* Mutated Delete: `current' goes on pointing to what was deleted.
DeleteDangling(d, gone) == [d EXCEPT !.list = [i \in DOMAIN @ \ gone |-> @[i]]]

Delete(d, gone) ==
    [d EXCEPT !.list = [i \in DOMAIN @ \ gone |-> @[i]],
              !.current = IF gone \cap DOMAIN d.list # {} THEN Null ELSE @]

SetCurrentIndicator(d, indicator) ==
    [d EXCEPT !.indicator = indicator,
              !.current = IF indicator \in DOMAIN d.list THEN indicator ELSE Null]

\* What `current' points to, created when there is none.
WithCurrent(d) ==
    IF d.current # Null THEN d
    ELSE [SetCurrentIndicator(d, d.indicator) EXCEPT
             !.list = [i \in DOMAIN @ \cup {d.indicator} |->
                 IF i \in DOMAIN @ THEN @[i] ELSE InsertSpace(NewRunStyles, 0, d.length)],
             !.current = d.indicator]

DecorationFillRange(d, pos, value, len) ==
    LET filled == [WithCurrent(d) EXCEPT !.list[d.indicator] = FillRange(@, pos, value, len)]
    IN  IF IsEmptyDecoration(filled.list[d.indicator])
        THEN Delete(filled, {d.indicator}) ELSE filled

\* Text was inserted; what is appended to the document has no indicators.
DecorationsInsert(d, pos, len) ==
    [d EXCEPT !.length = @ + len,
              !.list = [i \in DOMAIN @ |->
                  IF pos = d.length THEN FillRange(InsertSpace(@[i], pos, len), pos, 0, len)
                  ELSE InsertSpace(@[i], pos, len)]]

DecorationsDelete(d, pos, len) ==
    LET cut == [d EXCEPT !.length = @ - len,
                         !.list = [i \in DOMAIN @ |-> DeleteRange(@[i], pos, len)]]
    IN  Delete(cut, {i \in DOMAIN cut.list : cut.length = 0 \/ IsEmptyDecoration(cut.list[i])})

IndicatorAt(d, i, pos) == IF i \in DOMAIN d.list THEN ValueAt(d.list[i], pos) ELSE 0

=============================================================================
