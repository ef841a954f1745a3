------------------------------ MODULE CustomSelect ------------------------------
(***************************************************************************)
(* The drop-down list of the application (CustomSelect, in                 *)
(* components/ThemeSwitcher.tsx): opened by click or key, a highlight      *)
(* moved by mouse, arrows and typing ahead, committed by Enter or click.   *)
(***************************************************************************)
EXTENDS Integers, Sequences

CONSTANTS
  OptionLists   \* lists of [label : a sequence of letters, disabled : BOOLEAN]

VARIABLE select
vars == <<select>>

Options == select.options
Count == Len(select.options)

\* JavaScript numbers the options from 0; -1 is none.
Option(i) == Options[i + 1]
Enabled(i) == i \in 0..Count - 1 /\ ~Option(i).disabled

TypeOK ==
  /\ select.options \in OptionLists
  /\ select.value \in 0..Count - 1 /\ select.highlight \in -1..Count - 1
  /\ select.open \in BOOLEAN /\ select.from \in {"value", "mouse", "keys"} /\ select.query \in Seq(STRING)

Init ==
  \E options \in OptionLists :
    \E value \in 0..Len(options) - 1 :
      select = [ options |-> options, value |-> value, open |-> FALSE,
                 highlight |-> -1, from |-> "value",    \* what put the highlight there
                 query |-> <<>>, by |-> "none" ]        \* what changed the value last

\* setIsOpen; the layout effect of an opened list highlights the value.
Shown(s, open) ==
  IF open /\ ~s.open THEN [s EXCEPT !.open = TRUE, !.highlight = s.value, !.from = "value"]
  ELSE [s EXCEPT !.open = open]

\* findEnabledOption: the first enabled option of "matches" from "from" on,
\* around the end.
FindEnabled(from, step, matches) ==
  LET at(offset) == (from + step * offset) % Count
      found == {offset \in 0..Count - 1 : Enabled(at(offset)) /\ at(offset) \in matches}
  IN  IF found = {} THEN -1 ELSE at(CHOOSE o \in found : \A p \in found : o <= p)

All == 0..Count - 1

MovedTo(s, i) == IF i = -1 THEN s ELSE [s EXCEPT !.highlight = i, !.from = "keys"]

\* The click on the trigger, a click outside, Escape, Tab.
Toggle == select' = Shown(select, ~select.open)
Close == select.open /\ select' = Shown(select, FALSE)

\* Any of ArrowDown, ArrowUp, Enter and the space bar on a closed list.
OpenByKey == ~select.open /\ select' = Shown(select, TRUE)

Arrow ==
  /\ select.open
  /\ \/ select' = MovedTo(select, FindEnabled(select.highlight + 1, 1, All))    \* ArrowDown
     \/ select' = MovedTo(select, FindEnabled(select.highlight - 1, -1, All))   \* ArrowUp
     \/ select' = MovedTo(select, FindEnabled(0, 1, All))                       \* Home
     \/ select' = MovedTo(select, FindEnabled(Count - 1, -1, All))              \* End

\* The mouse highlights whatever it enters.
MouseEnters ==
  \E i \in All : select.open /\ select' = [select EXCEPT !.highlight = i, !.from = "mouse"]

\* Mutant: a disabled option is taken.
Committed_Unchecked(s) == Shown([s EXCEPT !.value = IF s.highlight = -1 THEN @ ELSE s.highlight, !.by = "enter"], FALSE)

\* commitHighlighted
Committed(s) ==
  IF Enabled(s.highlight) THEN Shown([s EXCEPT !.value = s.highlight, !.by = "enter"], FALSE)
  ELSE Shown(s, FALSE)

Commit == select.open /\ select' = Committed(select)

\* A click on an option: a disabled one does nothing.
Click ==
  \E i \in All :
    /\ select.open /\ Enabled(i)
    /\ select' = Shown([select EXCEPT !.value = i, !.by = "click"], FALSE)

Matching(query) ==
  {i \in All : Len(query) <= Len(Option(i).label) /\ SubSeq(Option(i).label, 1, Len(query)) = query}

\* handleTypeahead: the letters typed within a moment are a prefix to find
\* after the current option, and, from the second letter on, anywhere.
Found(s, query) ==
  LET next == FindEnabled((IF s.open THEN s.highlight ELSE s.value) + 1, 1, Matching(query))
  IN  IF next = -1 /\ Len(query) > 1 THEN FindEnabled(0, 1, Matching(query)) ELSE next

TypesAhead ==
  \E c \in UNION {{Options[i].label[j] : j \in 1..Len(Options[i].label)} : i \in 1..Count} :
    LET query == Append(select.query, c)
        typed == [select EXCEPT !.query = query]
        match == Found(select, query)
    IN  /\ Len(select.query) < 2
        /\ select' = IF match = -1 THEN typed
                     ELSE IF select.open THEN MovedTo(typed, match)
                     ELSE [typed EXCEPT !.value = match, !.by = "typing"]

\* 700 ms without a letter.
QueryExpires == select.query # <<>> /\ select' = [select EXCEPT !.query = <<>>]

Next ==
  \/ Toggle \/ Close \/ OpenByKey \/ Arrow \/ MouseEnters \/ Commit \/ Click
  \/ TypesAhead \/ QueryExpires

Spec == Init /\ [][Next]_vars

-----------------------------------------------------------------------------
\* A disabled option is never chosen, by whatever sequence of mouse, arrows
\* and letters: the value is an enabled option from the first change on; and
\* the highlight that the keyboard moves rests on enabled options only (the
\* value's own and the mouse's may be disabled ones).
OnlyEnabledChosen ==
  /\ select.by # "none" => Enabled(select.value)
  /\ select.from = "keys" => Enabled(select.highlight)
================================================================================
