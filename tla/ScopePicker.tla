------------------------------ MODULE ScopePicker ------------------------------
(* The dialog in which an operator chooses the OU or domain of a change     *)
(* (gpo-scope-picker.js), and the handlers in workspace.js that open it,    *)
(* search, open a branch and choose. A distinguished name is a sequence of  *)
(* one-letter tokens, as splitDn reads it: "," separates, "\" escapes. The   *)
(* tree has a container that is no target between two of its levels.        *)
EXTENDS ListPager, FiniteSets
LOCAL INSTANCE SequencesExt

VARIABLES directory,    \* the scopes of the inventory: names, OUs and the domain
          picker,       \* the dialog: open, query, expanded, page, untouched
          scopeDn       \* the scope of the selection, <<>> when none is
pickerVars == <<directory, picker, scopeDn>>

PickerSize == 2         \* rows of a page: 240 in the code
\* The directory, name by name up to the domain. x is the container.
Tree == { <<<<"d">>>>, <<<<"a">>, <<"d">>>>, <<<<"b">>, <<"x">>, <<"d">>>>,
          <<<<"a">>, <<"b">>, <<"x">>, <<"d">>>>,
          <<<<"c", "\\", ",", "a">>, <<"b">>, <<"x">>, <<"d">>>> }      \* an OU named "c,a"
joinDn(parts) ==
    FoldLeft(LAMBDA dn, part : IF dn = <<>> THEN part ELSE dn \o <<",">> \o part, <<>>, parts)
Known == {joinDn(parts) : parts \in Tree}
Root == <<"d">>
Queries == {"", "a", "b", "c", "z"}

-----------------------------------------------------------------------------
\* Variant: every comma separates.
splitEverywhere(dn) ==
    LET Read(r, ch) == IF ch = "," THEN [r EXCEPT !.out = Append(@, r.part), !.part = <<>>]
                       ELSE [r EXCEPT !.part = Append(@, ch)]
        read == FoldLeft(Read, [out |-> <<>>, part |-> <<>>], dn)
    IN IF read.part = <<>> THEN read.out ELSE Append(read.out, read.part)
splitDn(dn) ==
    LET Read(r, ch) ==
            CASE r.escaped -> [r EXCEPT !.part = Append(@, ch), !.escaped = FALSE]
              [] ~r.escaped /\ ch = "\\" -> [r EXCEPT !.part = Append(@, ch), !.escaped = TRUE]
              [] ~r.escaped /\ ch = "," ->
                   [r EXCEPT !.out = IF r.part = <<>> THEN @ ELSE Append(@, r.part), !.part = <<>>]
              [] OTHER -> [r EXCEPT !.part = Append(@, ch)]
        read == FoldLeft(Read, [out |-> <<>>, part |-> <<>>, escaped |-> FALSE], dn)
    IN IF read.part = <<>> THEN read.out ELSE Append(read.out, read.part)
parentDn(dn) == IF splitDn(dn) = <<>> THEN <<>> ELSE joinDn(Tail(splitDn(dn)))
RECURSIVE Ascend(_)
Ascend(dn) == IF dn = <<>> THEN <<>> ELSE <<dn>> \o Ascend(parentDn(dn))
Ascents == [dn \in Known |-> Ascend(dn)]
Upwards(dn) == IF dn = <<>> THEN {} ELSE ToSet(Ascents[dn])
\* The nearest listed name above another, <<>> for a root.
parent(dn) ==
    LET listed == SelectSeq(Tail(Ascents[dn]), LAMBDA above : above \in directory)
    IN IF listed = <<>> THEN <<>> ELSE Head(listed)
byName(names) ==
    SetToSortSeq(names, LAMBDA a, b : Len(a) < Len(b))
kids(dn) == byName({child \in directory : parent(child) = dn})
Found(dn, query) == \E i \in DOMAIN dn : dn[i] = query
matches(query) ==
    UNION {{above \in directory : above \in Upwards(dn)} :
           dn \in {hit \in directory : Found(hit, query)}}
RECURSIVE visit(_, _, _)
visit(dn, query, expanded) ==
    IF query # "" /\ dn \notin matches(query) THEN <<>>
    ELSE <<dn>> \o IF query # "" \/ dn \in expanded
                   THEN FlattenSeq([i \in DOMAIN kids(dn) |-> visit(kids(dn)[i], query, expanded)])
                   ELSE <<>>
rows(query, expanded) ==
    LET roots == byName({dn \in directory : parent(dn) = <<>>}) IN
    FlattenSeq([i \in DOMAIN roots |-> visit(roots[i], query, expanded)])
modal == page(rows(picker.query, picker.expanded), picker.page, PickerSize)
field == scopeDn \in directory

-----------------------------------------------------------------------------
Closed == [open |-> FALSE, query |-> "", expanded |-> {}, page |-> 0, untouched |-> FALSE]
PickerInit ==
    directory = Known /\ picker = Closed /\ scopeDn = <<>>
OpenPicker ==
    /\ picker' = [open |-> TRUE, query |-> "", page |-> 0, untouched |-> TRUE,
                  expanded |-> ({Root} \cap directory) \cup Upwards(scopeDn)]
    /\ UNCHANGED <<directory, scopeDn>>
ClosePicker ==
    /\ picker.open /\ picker' = [picker EXCEPT !.open = FALSE, !.query = "", !.untouched = FALSE]
    /\ UNCHANGED <<directory, scopeDn>>
SearchScopes(query) ==
    /\ picker.open
    /\ picker' = [picker EXCEPT !.query = query, !.page = 0, !.untouched = FALSE]
    /\ UNCHANGED <<directory, scopeDn>>
ToggleBranch(dn) ==
    /\ picker.open /\ dn \in ToSet(modal.items) /\ kids(dn) # <<>>
    /\ picker' = [picker EXCEPT !.page = 0, !.untouched = FALSE,
                     !.expanded = IF dn \in @ THEN @ \ {dn} ELSE @ \cup {dn}]
    /\ UNCHANGED <<directory, scopeDn>>
TurnPage ==
    /\ picker.open
    /\ \E n \in buttons(modal, rows(picker.query, picker.expanded), PickerSize) :
          picker' = [picker EXCEPT !.page = n]
    /\ UNCHANGED <<directory, scopeDn>>
\* A name that has left the inventory is refused.
ChooseRow(dn) ==
    /\ picker.open /\ dn \in ToSet(modal.items)
    /\ scopeDn' = IF dn \in directory THEN dn ELSE scopeDn
    /\ picker' = [picker EXCEPT !.open = FALSE, !.query = "", !.untouched = FALSE]
    /\ UNCHANGED directory
\* A refresh of the inventory; ensureSelection drops a scope that is gone.
InventoryRead(found) ==
    /\ directory' = found
    /\ scopeDn' = IF scopeDn \in found THEN scopeDn ELSE <<>>
    /\ picker' = [picker EXCEPT !.untouched = @ /\ scopeDn \in found /\ directory \subseteq found]
PickerNext ==
    \/ OpenPicker \/ ClosePicker \/ TurnPage
    \/ \E query \in Queries : SearchScopes(query)
    \/ \E dn \in Known : ToggleBranch(dn) \/ ChooseRow(dn)
    \/ \E found \in SUBSET Known : Root \in found /\ InventoryRead(found)
PickerSpec == PickerInit /\ [][PickerNext]_pickerVars

-----------------------------------------------------------------------------
(* Every scope can be reached and none is shown twice. Searching shows each *)
(* match with everything above it that is listed, however many containers   *)
(* lie between; without a search a scope is shown when all listed names     *)
(* above it are open. The pages show those rows, each once, no page is empty*)
(* while there are rows even after the inventory shrank, and the dialog     *)
(* opens on the branch of the scope that is selected.                       *)
Above == [dn \in Known |->
    {joinDn(above) : above \in {a \in Tree : \E parts \in Tree : joinDn(parts) = dn /\ IsSuffix(a, parts)}}]
Listed(dn) ==
    IF picker.query # ""
    THEN \E hit \in directory : Found(hit, picker.query) /\ dn \in Above[hit]
    ELSE (Above[dn] \ {dn}) \cap directory \subseteq picker.expanded
EveryScopeReachable ==
    LET shown == rows(picker.query, picker.expanded) IN
    picker.open =>
      /\ ToSet(shown) = {dn \in directory : Listed(dn)}
      /\ Cardinality(ToSet(shown)) = Len(shown)
      /\ AllPages(shown, PickerSize) = shown
      /\ shown # <<>> => modal.items # <<>>
      /\ picker.untouched /\ scopeDn # <<>> => scopeDn \in ToSet(shown)
      /\ scopeDn # <<>> => field
=============================================================================
