------------------------------- MODULE Inspect -------------------------------
(***************************************************************************)
(* What a client of the debug adapter is handed out while its program is   *)
(* stopped: numbers for stack frames (debug_child_process::frames_ and     *)
(* frame_ids_) and for groups of variables (variable_reference_table). The *)
(* same frame gets the same number, in whatever page of a stack it comes   *)
(* and though LLDB makes its frames anew; all numbers end when the program *)
(* is resumed, and begin at one again.                                     *)
(*                                                                         *)
(* A formatted value is known by its address, which the allocator gives    *)
(* away again once nobody holds the value.                                 *)
(***************************************************************************)
EXTENDS Naturals, Sequences, SequencesExt

CONSTANTS
  MaxPage,    \* bound: frames asked for at once; more than a stack has are all
  MaxValues   \* bound: values with a reference

VARIABLES
  stacks,     \* the frames LLDB has, by thread; none while the program runs
  epoch,      \* tells the frames of a stop from those of the one before it
  frames,     \* the frames with a number, which is their position
  varRefs,    \* the references: frame, path from its scope, address of a value
  shown,      \* numbers of frames the client has, by thread
  whole,      \* threads whose stacks the client takes to end there
  held        \* references the client has, with what it takes them for

inspectVars == <<stacks, epoch, frames, varRefs, shown, whole, held>>

Threads == {1, 2}
NoStacks == [t \in Threads |-> <<>>]

\* Calls that LLDB tells apart by one of position, frame address and scope only:
\* an inlined call, and the same function in two threads.
Call(pc, cfa, scope) == [pc |-> pc, cfa |-> cfa, scope |-> scope]
Stacks ==
  LET main == Call(1, 1, "main")
      inlined == Call(1, 1, "inlined")
      other == Call(1, 2, "main")
  IN  {[t \in Threads |-> IF t = 1 THEN <<inlined, main>> ELSE <<>>],
       [t \in Threads |-> IF t = 1 THEN <<other>> ELSE <<main>>]}

InspectInit ==
  /\ stacks = NoStacks /\ epoch = FALSE /\ frames = <<>> /\ varRefs = <<>>
  /\ shown = NoStacks /\ whole = {} /\ held = {}

\* LLDB's frame objects live from one stop to the next.
FrameAt(t, i) == [call |-> stacks[t][i], epoch |-> epoch]

-----------------------------------------------------------------------------
(* Frames                                                                  *)

SameFrame_NoScope(f, g) == f.call.pc = g.call.pc /\ f.call.cfa = g.call.cfa

\* stack_frame_compare
SameFrame(f, g) ==
  f.call.pc = g.call.pc /\ f.call.cfa = g.call.cfa /\ f.call.scope = g.call.scope

NumberOf(table, f) == SelectInSeq(table, LAMBDA g : SameFrame(f, g))
WithFrame(table, f) == IF NumberOf(table, f) = 0 THEN Append(table, f) ELSE table

\* stackTrace: the page that begins at first; a page that is not full is the
\* last, and otherwise the client is told there are very many frames. A thread
\* that is not there is refused.
StackTrace(t, first, count) ==
  LET last == IF first + count > Len(stacks[t]) THEN Len(stacks[t]) ELSE first + count
      page == [i \in 1..(last - first) |-> FrameAt(t, first + i)]
      table == FoldLeft(WithFrame, frames, page)
  IN  /\ stacks[t] # <<>> /\ first <= Len(shown[t])
      /\ frames' = table
      /\ shown' = [shown EXCEPT ![t] =
                     SubSeq(@, 1, first) \o [i \in DOMAIN page |-> NumberOf(table, page[i])]]
      /\ whole' = IF Len(page) < count THEN whole \cup {t} ELSE whole \ {t}
      /\ UNCHANGED <<stacks, epoch, varRefs, held>>

-----------------------------------------------------------------------------
(* Variables                                                               *)

\* The parts of a value that have parts of their own
Parts(path) ==
  CASE path = <<"locals">> -> <<"record">>
    [] path = <<"registers">> -> <<"group">>
    [] Last(path) = "group" -> <<"vector">>
    [] Last(path) \in {"record", "expression"} -> <<"member">>
    [] OTHER -> <<>>

NoAddress == 0
InUse(table, a) == \E i \in DOMAIN table : table[i].address = a
Fresh(table) == CHOOSE a \in 1..MaxValues : ~InUse(table, a) /\ \A b \in 1..(a - 1) : InUse(table, b)

\* The values of a scope and of a group of registers are formatted each time they
\* are asked for; any other value has a place of its own in the one it is part of.
Anew(r) == r.address = NoAddress \/ Last(r.path) = "group"

\* locals_ref and registers_ref go by the frame, fmt_result_ref by the address.
Matches(r, s) ==
  IF s.address = NoAddress
  THEN r.address = NoAddress /\ r.path = s.path /\ SameFrame(r.frame, s.frame)
  ELSE r.address = s.address
RefOf(table, r) == SelectInSeq(table, LAMBDA s : Matches(s, r))
WithRef(table, r) == IF RefOf(table, r) = 0 THEN Append(table, r) ELSE table

\* A place is left for a value of its own.
Room == \E a \in 1..MaxValues : ~InUse(varRefs, a)

Held(id, f, path) == [id |-> id, frame |-> f, path |-> path]

\* scopes: of the frame with the client's number
Scopes(t, i) ==
  LET f == frames[shown[t][i]]
      scopes == [s \in {"locals", "registers"} |-> [frame |-> f, path |-> <<s>>, address |-> NoAddress]]
      table == WithRef(WithRef(varRefs, scopes["locals"]), scopes["registers"])
  IN  /\ varRefs' = table
      /\ held' = held \cup {Held(RefOf(table, scopes[s]), FrameAt(t, i), <<s>>) :
                              s \in {"locals", "registers"}}
      /\ UNCHANGED <<stacks, epoch, frames, shown, whole>>

\* variables: all of them, whichever the client asks for
Variables(h) ==
  LET r == varRefs[h.id]
      part == [frame |-> r.frame, path |-> r.path \o Parts(r.path),
               address |-> IF Anew(r) THEN Fresh(varRefs) ELSE r.address + MaxValues]
      table == WithRef(varRefs, part)
  IN  /\ h.id \in DOMAIN varRefs /\ Parts(r.path) # <<>> /\ Room
      /\ varRefs' = table
      /\ held' = held \cup {Held(RefOf(table, part), h.frame, h.path \o Parts(h.path))}
      /\ UNCHANGED <<stacks, epoch, frames, shown, whole>>

\* evaluate: in the frame with the client's number
Evaluate(t, i) ==
  LET value == [frame |-> frames[shown[t][i]], path |-> <<"expression">>, address |-> Fresh(varRefs)]
      table == WithRef(varRefs, value)
  IN  /\ Room
      /\ varRefs' = table
      /\ held' = held \cup {Held(RefOf(table, value), FrameAt(t, i), <<"expression">>)}
      /\ UNCHANGED <<stacks, epoch, frames, shown, whole>>

\* A client uses the numbers it was given.
Ask ==
  \/ \E t \in Threads : \E first \in 0..Len(shown[t]), count \in {1, MaxPage} :
       StackTrace(t, first, count)
  \/ \E t \in Threads : \E i \in DOMAIN shown[t] :
       shown[t][i] \in DOMAIN frames /\ (Scopes(t, i) \/ Evaluate(t, i))
  \/ \E h \in held : Variables(h)

-----------------------------------------------------------------------------
(* The program runs                                                        *)

\* prepare_to_run; the client drops what it was given, too.
PrepareToRun ==
  /\ stacks # NoStacks /\ frames' = <<>> /\ varRefs' = <<>>
  /\ stacks' = NoStacks
  /\ shown' = NoStacks /\ whole' = {} /\ held' = {} /\ UNCHANGED epoch

NewStop ==
  /\ stacks = NoStacks /\ stacks' \in Stacks /\ epoch' = ~epoch
  /\ UNCHANGED <<frames, varRefs, shown, whole, held>>

InspectNext == Ask \/ PrepareToRun \/ NewStop

-----------------------------------------------------------------------------
\* The client's numbers stand for the frames of this stop, one for each and in
\* their order, however its pages overlap, and what it takes for the end of a
\* stack is its end; each reference it has leads to the frame and the value it
\* was handed out for, though frames are told apart by three of their features,
\* and values by addresses that are used again.
RefsSound ==
  /\ \A t \in Threads :
       /\ \A i \in DOMAIN shown[t] :
            shown[t][i] \in DOMAIN frames /\ frames[shown[t][i]] = FrameAt(t, i)
       /\ t \in whole => Len(shown[t]) = Len(stacks[t])
  /\ \A h \in held :
       h.id \in DOMAIN varRefs /\ varRefs[h.id].frame = h.frame /\ varRefs[h.id].path = h.path
=============================================================================
