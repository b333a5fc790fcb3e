---------------------------- MODULE Breakpoints ----------------------------
(***************************************************************************)
(* The breakpoints of dbg::breakpoint_list, the rows of the breakpoints    *)
(* view over them, and the LLDB breakpoints core::target_base keeps for    *)
(* the target that is loaded.                                              *)
(*                                                                         *)
(* The list lives in the main thread and outlives its targets. Every edit  *)
(* changes the list and the view at once and is sent to the core thread    *)
(* as a command; installs, watchpoints and stops come back as answers. The *)
(* list asks the core for a breakpoint by its own number, the core looks   *)
(* the number up among LLDB's.                                             *)
(*                                                                         *)
(* A breakpoint is at a line of one source file, or at a function (line 0, *)
(* which stands for addresses and exceptions as well). Where LLDB really   *)
(* puts it is a set of lines. Dereferencing a pointer that is null or      *)
(* dangling is recorded in fault and ends it; so does the assertion of     *)
(* check_initial_bp_props in a build that keeps its assertions.            *)
(***************************************************************************)
EXTENDS Naturals, Sequences, FiniteSets, Functions

CONSTANTS
  MaxNum,      \* bound: breakpoints of a type ever added to the list
  MaxEdits,    \* bound: edits of the list the user makes
  MaxRuns,     \* bound: times the program is run or continued
  MaxTargets,  \* bound: targets loaded, one after another
  Scenarios    \* the sets of mishaps a behaviour may have

MishapKinds == {"renumber",     \* a second target is loaded, or a breakpoint is
                                \* removed while there is none
                "editClosing",  \* the list is edited while the target is closing
                "staleHits",    \* a hit count is changed while the program runs, or the
                                \* count shown is reset
                "cancelWait",   \* the dialog that adds a watchpoint is cancelled before
                                \* the answer
                "removeWatch",  \* a watchpoint is removed while the program runs
                "attachFirst",  \* a process is attached to with no target loaded
                "checked"}      \* the assertions are compiled in

ASSUME BoundsAssumption == {MaxNum, MaxEdits, MaxRuns, MaxTargets} \subseteq Nat
ASSUME ScenariosAssumption == Scenarios \subseteq SUBSET MishapKinds

VARIABLES
  list,      \* breakpoint_list::breakpoints_, breakpoint_id -> breakpoint
  dialog,    \* AddWatchpointDialog: modal, closed once the watchpoint is set
  rows,      \* breakpoints_view_model::root_nodes_: the locations a row has
  nextNum,   \* breakpoint_list::next_bp_num_
  target,    \* the debugger's state, as far as the list is concerned
  core,      \* target_base::breakpoints_, by LLDB's ids
  coreUp,    \* core_target_impl::targ_ is not null
  coreNext,  \* the next id LLDB gives, for code and for watch
  moving,    \* the process runs
  commands,  \* the core thread's queue
  answers,   \* the main thread's queue
  fault,     \* the invalid pointer that was used
  edits, runs, targets,  \* what the bounds count
  mishaps    \* what may go wrong in this behaviour; never changes

listVars == <<list, rows, nextNum>>
coreVars == <<core, coreUp, coreNext, moving>>
counts == <<edits, runs, targets>>
vars == <<listVars, dialog, target, coreVars, commands, answers, fault, counts, mishaps>>

Lines == {1, 2}
Ids == {"code", "watch"} \X (1..MaxNum)
Codes(S) == {i \in S : i[1] = "code"}

\* dbg::breakpoint and code_breakpoint; hits 0 is "break always"; impl 0 is
\* invalid_num.
Breakpoint == [line : {0} \cup Lines, on : BOOLEAN, cond : BOOLEAN, hits : {0, 2},
               curr : 0..2, impl : 0..MaxNum, locs : SUBSET Lines]

\* breakpoint_base_impl over an LLDB breakpoint or watchpoint.
CoreBreakpoint == [line : {0} \cup Lines, on : BOOLEAN, cond : BOOLEAN, ignore : 0..1,
                   hits : 0..2, locs : SUBSET Lines]

\* breakpoint::ignore_count.
IgnoreCount(bp) == IF bp.curr >= bp.hits THEN 0 ELSE bp.hits - bp.curr - 1

TypeOK ==
  /\ DOMAIN list \subseteq Ids /\ \A i \in DOMAIN list : list[i] \in Breakpoint
  /\ dialog \in {"closed", "open", "waiting"}
  /\ rows \in [DOMAIN rows -> SUBSET Lines]
  /\ nextNum \in 1..(MaxNum + 1)
  /\ target \in {"none", "loading", "loaded", "running", "stopped", "unloading"}
  /\ DOMAIN core \subseteq Ids /\ \A i \in DOMAIN core : core[i] \in CoreBreakpoint
  /\ coreUp \in BOOLEAN /\ moving \in BOOLEAN
  /\ coreNext \in [{"code", "watch"} -> 1..(MaxNum + 1)]
  /\ fault \in {"none", "noImpl", "noTarget", "noBreakpoint", "noWatchpoint", "noDialog", "unlisted",
                "initialProps"}
  /\ mishaps \subseteq MishapKinds

Init ==
  /\ list = <<>> /\ rows = <<>> /\ nextNum = 1 /\ dialog = "closed" /\ target = "none"
  /\ core = <<>> /\ coreUp = FALSE /\ coreNext = [t \in {"code", "watch"} |-> 1]
  /\ moving = FALSE /\ commands = <<>> /\ answers = <<>> /\ fault = "none"
  /\ edits = 0 /\ runs = 0 /\ targets = 0
  /\ mishaps \in Scenarios

-----------------------------------------------------------------------------
(* Commands for the core thread                                            *)

\* The map f after f[i] = x.
With(f, i, x) == [j \in DOMAIN f \cup {i} |-> IF j = i THEN x ELSE f[j]]

Command(op, i, bp) ==
  [op |-> op, id |-> i, line |-> bp.line, on |-> bp.on, cond |-> bp.cond, ignore |-> IgnoreCount(bp)]
Plain(op) == [op |-> op]

\* breakpoint_list::impl_ is set from connect_impl to disconnect_impl.
HasImpl == target \in {"loaded", "running", "stopped", "unloading"}

\* The order of the map: code breakpoints first, by number.
Before(i, j) == IF i[1] = j[1] THEN i[2] < j[2] ELSE i[1] = "code"
InOrder(S) ==
  CHOOSE f \in [1..Cardinality(S) -> S] : \A j, k \in DOMAIN f : j < k => Before(f[j], f[k])

\* A command for each breakpoint of S, in the order of the map.
ForEach(op, S, to) ==
  LET order == InOrder(S)
  IN  [k \in DOMAIN order |-> Command(op, order[k], to[order[k]])]

Send(cmds) == commands' = IF HasImpl THEN commands \o cmds ELSE commands

-----------------------------------------------------------------------------
(* Edits of the list                                                       *)

\* The rows after changed() was emitted for S: on_breakpoint_updated builds
\* the children of the row anew.
Updated(S, to) == [i \in DOMAIN rows |-> IF i \in S THEN to[i].locs ELSE rows[i]]

\* The menus, the toolbar and the views offer every edit in every state of
\* the target, and a modal dialog blocks them.
MayEdit ==
  /\ fault = "none" /\ edits < MaxEdits /\ dialog = "closed"
  /\ target = "unloading" => "editClosing" \in mishaps
  /\ edits' = edits + 1
  /\ UNCHANGED <<dialog, target, coreVars, answers, fault, runs, targets, mishaps>>

\* add_code_breakpoint: the list, the view, and an install if a target is
\* connected.
AddAt(line) ==
  LET i == <<"code", nextNum>>
      bp == [line |-> line, on |-> TRUE, cond |-> FALSE, hits |-> 0, curr |-> 0, impl |-> 0, locs |-> {}]
  IN  /\ nextNum <= MaxNum /\ nextNum' = nextNum + 1
      /\ list' = With(list, i, bp)
      /\ rows' = With(rows, i, {})
      /\ Send(<<Command("install", i, bp)>>)

\* remove_breakpoint for each breakpoint of S: the object leaves the list
\* and the view, then the core is told.
RemoveAll(S) ==
  /\ HasImpl \/ "renumber" \in mishaps
  /\ list' = Restrict(list, DOMAIN list \ S)
  /\ rows' = Restrict(rows, DOMAIN rows \ S)
  /\ Send(ForEach("remove", S, list))
  /\ UNCHANGED nextNum

Change(op, S, to) ==
  /\ list' = to /\ rows' = Updated(S, to)
  /\ Send(ForEach(op, S, to))
  /\ UNCHANGED nextNum

\* breakpoints_at_line: by location, or by the requested line while the
\* breakpoint has none.
AtLine(l) == {i \in Codes(DOMAIN list) :
                IF list[i].locs # {} THEN l \in list[i].locs ELSE list[i].line = l}

Add(line) == MayEdit /\ AddAt(line)

RemoveBreakpoints(S) ==
  /\ MayEdit /\ S # {}
  /\ (target = "running" /\ S # Codes(S)) => "removeWatch" \in mishaps
  /\ RemoveAll(S)

\* toggle_breakpoint, from a click on the line in the margin.
Toggle(l) ==
  /\ MayEdit
  /\ IF AtLine(l) # {} THEN RemoveAll(AtLine(l)) ELSE AddAt(l)

\* The actions for a selection are offered when they change one of it.
SomeNot(S, on) == \E i \in S : list[i].on # on

\* enable_breakpoint, disable_breakpoint for a selection or all. Edits that
\* change nothing are left out, here and below.
SetEnabled(S, on) ==
  /\ MayEdit /\ SomeNot(S, on)
  /\ Change("enable", S, [i \in DOMAIN list |-> IF i \in S THEN [list[i] EXCEPT !.on = on] ELSE list[i]])

SetCondition(i, cond) ==
  /\ MayEdit /\ i \in DOMAIN list /\ list[i].cond # cond
  /\ Change("condition", {i}, [list EXCEPT ![i].cond = cond])

\* set_breakpoint_hit_count; reset clears the count shown, not LLDB's.
SetHitCount(i, hits, reset) ==
  /\ MayEdit /\ i \in DOMAIN list /\ (list[i].hits # hits \/ (reset /\ list[i].curr # 0))
  /\ (reset \/ target = "running") => "staleHits" \in mishaps
  /\ Change("ignore", {i}, [list EXCEPT ![i].hits = hits, ![i].curr = IF reset THEN 0 ELSE @])

\* add_var_watchpoint, add_expr_watchpoint, from the dialog: the list is
\* changed by the answer.
AddWatchpoint ==
  /\ fault = "none" /\ edits < MaxEdits /\ target = "stopped"
  /\ dialog # "waiting" /\ dialog' = "waiting" /\ edits' = edits + 1
  /\ commands' = Append(commands, Plain("watch"))
  /\ UNCHANGED <<listVars, target, coreVars, answers, fault, runs, targets, mishaps>>

CancelDialog ==
  /\ fault = "none" /\ dialog # "closed" /\ dialog' = "closed"
  /\ dialog = "waiting" => "cancelWait" \in mishaps
  /\ UNCHANGED <<listVars, target, coreVars, commands, answers, fault, counts, mishaps>>

-----------------------------------------------------------------------------
(* The target, in the main thread                                          *)

Load ==
  /\ fault = "none" /\ dialog = "closed" /\ target = "none" /\ targets < MaxTargets
  /\ targets > 0 => "renumber" \in mishaps
  /\ target' = "loading" /\ targets' = targets + 1
  /\ UNCHANGED <<listVars, dialog, coreVars, commands, answers, fault, edits, runs, mishaps>>

\* The new target is there, what was queued for the core thread before it was
\* asked for is done: connect_impl installs the code breakpoints.
Loaded_NoInstall ==
  /\ fault = "none" /\ target = "loading" /\ target' = "loaded" /\ commands = <<>>
  /\ core' = <<>> /\ coreUp' = TRUE /\ coreNext' = [t \in {"code", "watch"} |-> 1]
  /\ UNCHANGED <<listVars, dialog, moving, commands, answers, fault, counts, mishaps>>

Loaded ==
  /\ fault = "none" /\ target = "loading" /\ target' = "loaded" /\ commands = <<>>
  /\ core' = <<>> /\ coreUp' = TRUE /\ coreNext' = [t \in {"code", "watch"} |-> 1]
  /\ commands' = ForEach("install", Codes(DOMAIN list), list)
  /\ UNCHANGED <<listVars, dialog, moving, answers, fault, counts, mishaps>>

\* reset_breakpoints; the ignore count is the one of a count of zero.
Started == [i \in DOMAIN list |-> [list[i] EXCEPT !.curr = 0]]

\* debugger::launch, attach: the breakpoints are reset before the process runs.
Launch_NoReset ==
  /\ fault = "none" /\ dialog = "closed" /\ target = "loaded" /\ runs < MaxRuns
  /\ target' = "running" /\ runs' = runs + 1
  /\ list' = Started /\ rows' = Updated(DOMAIN list, Started)
  /\ commands' = Append(commands, Plain("run"))
  /\ UNCHANGED <<nextNum, dialog, coreVars, answers, fault, edits, targets, mishaps>>

Launch ==
  /\ fault = "none" /\ dialog = "closed" /\ target = "loaded" /\ runs < MaxRuns
  /\ target' = "running" /\ runs' = runs + 1
  /\ list' = Started /\ rows' = Updated(DOMAIN list, Started)
  /\ commands' = commands \o ForEach("ignore", DOMAIN list, Started) \o <<Plain("run")>>
  /\ UNCHANGED <<nextNum, dialog, coreVars, answers, fault, edits, targets, mishaps>>

\* debugger::attach without a target: reset_breakpoints uses impl_ for the
\* first breakpoint of the list.
AttachFirst ==
  /\ fault = "none" /\ dialog = "closed" /\ target = "none" /\ "attachFirst" \in mishaps
  /\ DOMAIN list # {} /\ fault' = "noImpl"
  /\ UNCHANGED <<listVars, dialog, target, coreVars, commands, answers, counts, mishaps>>

Continue ==
  /\ fault = "none" /\ dialog = "closed" /\ target = "stopped" /\ runs < MaxRuns
  /\ target' = "running" /\ runs' = runs + 1
  /\ commands' = Append(commands, Plain("resume"))
  /\ UNCHANGED <<listVars, dialog, coreVars, answers, fault, edits, targets, mishaps>>

Close ==
  /\ fault = "none" /\ dialog = "closed" /\ target = "loaded" /\ target' = "unloading"
  /\ commands' = Append(commands, Plain("close"))
  /\ UNCHANGED <<listVars, dialog, coreVars, answers, fault, counts, mishaps>>

-----------------------------------------------------------------------------
(* The core thread                                                         *)

\* Where LLDB puts a breakpoint: nowhere yet, at the line, or at the next
\* line that has code.
Resolutions(line) ==
  IF line = 0 THEN {{1}} ELSE {{}, {line}} \cup {{l} : l \in {line + 1} \cap Lines}

Reply(a) == answers' = Append(answers, a)

\* target_base::add_breakpoint, then the state and the condition of the list.
Install(cmd) ==
  /\ coreNext["code"] <= MaxNum
  /\ coreNext' = [coreNext EXCEPT !["code"] = @ + 1]
  /\ \E locs \in Resolutions(cmd.line) :
       /\ core' = With(core, <<"code", coreNext["code"]>>,
            [line |-> cmd.line, on |-> cmd.on, cond |-> cmd.cond, ignore |-> 0, hits |-> 0, locs |-> locs])
       /\ Reply([op |-> "installed", id |-> cmd.id, num |-> coreNext["code"], locs |-> locs])
  /\ UNCHANGED <<coreUp, moving, fault>>

\* check_initial_bp_props, after both are set: it asserts that the breakpoint is
\* on and has no condition, as if it were new to the list.
Unexpected(cmd) == "checked" \in mishaps /\ (~cmd.on \/ cmd.cond)
CheckFails == fault' = "initialProps" /\ UNCHANGED <<coreVars, answers>>

\* target_base::add_var_watchpoint, add_expr_watchpoint; LLDB may refuse.
Watch ==
  \/ /\ coreNext["watch"] <= MaxNum
     /\ coreNext' = [coreNext EXCEPT !["watch"] = @ + 1]
     /\ core' = With(core, <<"watch", coreNext["watch"]>>,
          [line |-> 0, on |-> TRUE, cond |-> FALSE, ignore |-> 0, hits |-> 0, locs |-> {}])
     /\ Reply([op |-> "watched", id |-> <<"watch", coreNext["watch"]>>])
     /\ UNCHANGED <<coreUp, moving, fault>>
  \/ Reply([op |-> "refused"]) /\ UNCHANGED <<coreVars, fault>>

\* remove_breakpoint, enable_breakpoint, set_breakpoint_condition,
\* set_breakpoint_ignore_count: what get_breakpoint_by_id returns is used
\* unchecked.
EditCore(cmd) ==
  /\ IF cmd.id \notin DOMAIN core
     THEN fault' = "noBreakpoint" /\ UNCHANGED core
     ELSE /\ UNCHANGED fault
          /\ core' = CASE cmd.op = "remove" -> Restrict(core, DOMAIN core \ {cmd.id})
                       [] cmd.op = "enable" -> [core EXCEPT ![cmd.id].on = cmd.on]
                       [] cmd.op = "condition" -> [core EXCEPT ![cmd.id].cond = cmd.cond]
                       [] cmd.op = "ignore" -> [core EXCEPT ![cmd.id].ignore = cmd.ignore]
  /\ UNCHANGED <<coreUp, coreNext, moving, answers>>

\* The process starts with its hit counts at zero; loading its libraries may
\* resolve what had no location.
Run ==
  /\ \E loads \in BOOLEAN :
       core' = [i \in DOMAIN core |->
                  [core[i] EXCEPT !.hits = 0,
                                  !.locs = IF loads /\ @ = {} THEN {core[i].line} \cap Lines ELSE @]]
  /\ moving' = TRUE
  /\ UNCHANGED <<coreUp, coreNext, answers, fault>>

Execute(cmd) ==
  IF ~coreUp THEN fault' = "noTarget" /\ UNCHANGED <<coreVars, answers>>
  ELSE CASE cmd.op = "install" -> IF Unexpected(cmd) THEN CheckFails ELSE Install(cmd)
         [] cmd.op = "watch" -> Watch
         [] cmd.op = "run" -> Run
         [] cmd.op = "resume" -> /\ moving' = TRUE
                                 /\ UNCHANGED <<core, coreUp, coreNext, answers, fault>>
         [] cmd.op = "close" -> /\ core' = <<>> /\ coreUp' = FALSE
                                /\ Reply([op |-> "closed"])
                                /\ UNCHANGED <<coreNext, moving, fault>>
         [] OTHER -> EditCore(cmd)

CoreStep ==
  /\ fault = "none" /\ commands # <<>> /\ commands' = Tail(commands)
  /\ Execute(Head(commands))
  /\ UNCHANGED <<listVars, dialog, target, counts, mishaps>>

\* The stop's context carries every breakpoint's hit count and locations.
Stop(why, now) ==
  /\ moving' = FALSE /\ core' = now
  /\ Reply([op |-> "stopped", why |-> why, bps |-> now])

\* The program reaches a breakpoint that is on; LLDB counts the hit and stops
\* unless hits are still to be ignored. The count is capped: it is compared
\* with two at most.
Hit(i) ==
  LET now == [core EXCEPT ![i].hits = IF @ < 2 THEN @ + 1 ELSE @,
                          ![i].ignore = IF @ > 0 THEN @ - 1 ELSE 0]
  IN  /\ fault = "none" /\ moving
      /\ i \in DOMAIN core /\ core[i].on /\ (i[1] = "code" => core[i].locs # {})
      /\ IF core[i].ignore > 0 THEN core' = now /\ UNCHANGED <<moving, answers>> ELSE Stop(i, now)
      /\ UNCHANGED <<listVars, dialog, target, coreUp, coreNext, commands, fault, counts, mishaps>>

\* A stop for another reason.
Interrupt ==
  /\ fault = "none" /\ moving /\ Stop(<<>>, core)
  /\ UNCHANGED <<listVars, dialog, target, coreUp, coreNext, commands, fault, counts, mishaps>>

Exit ==
  /\ fault = "none" /\ moving /\ moving' = FALSE /\ Reply([op |-> "exited"])
  /\ UNCHANGED <<listVars, dialog, target, core, coreUp, coreNext, commands, fault, counts, mishaps>>

-----------------------------------------------------------------------------
(* Answers, in the main thread                                             *)

\* The callback of install_code_breakpoint_into_impl: nothing if the
\* breakpoint was removed meanwhile.
OnInstalled(a) ==
  /\ IF a.id \notin DOMAIN list THEN UNCHANGED <<list, rows>>
     ELSE LET to == [list EXCEPT ![a.id].impl = a.num, ![a.id].locs = @ \cup a.locs]
          IN  list' = to /\ rows' = Updated({a.id}, to)
  /\ UNCHANGED <<nextNum, dialog, target, fault>>

\* The answer to add_var_watchpoint: with a number the list has already, the
\* view gets a row for an object that no list keeps. It closes the dialog,
\* which its handler refers to.
OnWatched(a) ==
  /\ list' = With(list, a.id, [line |-> 0, on |-> TRUE, cond |-> FALSE, hits |-> 0,
                               curr |-> 0, impl |-> 0, locs |-> {}])
  /\ rows' = With(rows, a.id, {})
  /\ fault' = IF a.id \in DOMAIN list THEN "unlisted"
              ELSE IF dialog = "closed" THEN "noDialog" ELSE fault
  /\ dialog' = "closed" /\ UNCHANGED <<nextNum, target>>

OnRefused ==
  /\ IF dialog = "closed" THEN fault' = "noDialog" /\ UNCHANGED dialog
     ELSE dialog' = "open" /\ UNCHANGED fault
  /\ UNCHANGED <<listVars, target>>

\* update_breakpoints, then debugger::on_target_state_changed, which looks
\* the watchpoint up that stopped the program.
OnStopped(a) ==
  LET to == [i \in DOMAIN list |->
               IF i \notin DOMAIN a.bps THEN list[i]
               ELSE [list[i] EXCEPT !.curr = a.bps[i].hits, !.locs = a.bps[i].locs]]
  IN  /\ list' = to /\ rows' = Updated(DOMAIN list, to)
      /\ target' = "stopped"
      /\ fault' = IF a.why # <<>> /\ a.why[1] = "watch" /\ a.why \notin DOMAIN list
                  THEN "noWatchpoint" ELSE fault
      /\ UNCHANGED <<nextNum, dialog>>

\* disconnect_impl: what LLDB said of the breakpoints goes with the target.
OnClosed ==
  LET to == [i \in DOMAIN list |-> [list[i] EXCEPT !.impl = 0, !.locs = {}]]
  IN  /\ list' = to /\ rows' = Updated(Codes(DOMAIN list), to)
      /\ target' = "none" /\ UNCHANGED <<nextNum, dialog, fault>>

MainStep ==
  /\ fault = "none" /\ answers # <<>> /\ answers' = Tail(answers)
  /\ LET a == Head(answers)
     IN  CASE a.op = "installed" -> OnInstalled(a)
           [] a.op = "watched" -> OnWatched(a)
           [] a.op = "refused" -> OnRefused
           [] a.op = "stopped" -> OnStopped(a)
           [] a.op = "exited" -> target' = "loaded" /\ UNCHANGED <<listVars, dialog, fault>>
           [] a.op = "closed" -> OnClosed
  /\ UNCHANGED <<coreVars, commands, counts, mishaps>>

\* A breakpoint, or all of them.
Selections == {{i} : i \in DOMAIN list} \cup {DOMAIN list}

Next ==
  \/ Add(0)
  \/ \E l \in Lines : Toggle(l)
  \/ \E S \in Selections :
       \/ RemoveBreakpoints(S)
       \/ \E on \in BOOLEAN : SetEnabled(S, on)
  \/ \E i \in DOMAIN list : \/ \E cond \in BOOLEAN : SetCondition(i, cond)
                            \/ \E hits \in {0, 2}, reset \in BOOLEAN : SetHitCount(i, hits, reset)
  \/ AddWatchpoint \/ CancelDialog
  \/ Load \/ Loaded \/ Launch \/ AttachFirst \/ Continue \/ Close
  \/ CoreStep
  \/ \E i \in DOMAIN core : Hit(i)
  \/ Interrupt \/ Exit
  \/ MainStep

Spec == Init /\ [][Next]_vars

\* The core thread and the main thread keep taking events from their queues.
FairSpec == Spec /\ WF_vars(CoreStep) /\ WF_vars(MainStep)

-----------------------------------------------------------------------------
(* Properties                                                              *)

\* The pointers the code leaves unchecked are good unless the one thing
\* happens that breaks each of them: a number LLDB does not have is looked
\* up only when the list's numbers and LLDB's have come apart, the target is
\* used after its end only when the list is edited while it closes, and so on.
OnlyKnownFaults ==
  /\ fault \in {"noBreakpoint", "unlisted"} => "renumber" \in mishaps
  /\ fault = "noTarget" => "editClosing" \in mishaps
  /\ fault = "noWatchpoint" => "removeWatch" \in mishaps \/ "renumber" \in mishaps
  /\ fault = "noDialog" => "cancelWait" \in mishaps
  /\ fault = "noImpl" => "attachFirst" \in mishaps
  /\ fault = "initialProps" => "checked" \in mishaps

\* The answer to an install finds the breakpoint without a number of the
\* implementation, as install_code_breakpoint_into_impl asserts: nothing is
\* installed twice, and no answer of a closed target reaches the next one.
InstalledOnce ==
  LET queue == commands \o answers
      pending == {k \in DOMAIN queue : queue[k].op \in {"install", "installed"}}
  IN  /\ \A k \in pending : queue[k].id \in DOMAIN list => list[queue[k].id].impl = 0
      /\ \A j, k \in pending : queue[j].id = queue[k].id => j = k

\* The view has the rows of the list, with the children a breakpoint's
\* locations give it: a row never points to a location that is gone.
RowsMatchList == rows = [i \in DOMAIN list |-> list[i].locs]

\* When nothing is on its way, LLDB has the breakpoints the list has, on or
\* off, conditional and ignoring as the list says, and where the list says:
\* what the user sees is what will stop the program. It takes the numbers of
\* the list and LLDB's to be the same (not so with "renumber"), and the ignore
\* counts to be set while stopped (not so with "staleHits").
CoreFollowsList ==
  (/\ fault = "none" /\ target \in {"loaded", "stopped"} /\ commands = <<>> /\ answers = <<>>
   /\ "renumber" \notin mishaps) =>
    /\ DOMAIN core = DOMAIN list
    /\ \A i \in DOMAIN list : core[i].on = list[i].on /\ core[i].cond = list[i].cond
    /\ target = "stopped" => \A i \in DOMAIN list :
         /\ core[i].locs = list[i].locs
         /\ "staleHits" \notin mishaps => core[i].ignore = IgnoreCount(list[i])

\* What the list holds, what the view shows and what is on its way to or from
\* LLDB are about the same breakpoints, and come to agree.
ListSound == TypeOK /\ InstalledOnce /\ RowsMatchList /\ OnlyKnownFaults /\ CoreFollowsList

\* A breakpoint added while a target is there, or before, gets its LLDB
\* breakpoint, or is removed, or the target ends.
GetsInstalled ==
  \A n \in 1..MaxNum :
    [](<<"code", n>> \in DOMAIN list /\ target \in {"loaded", "running", "stopped"} =>
       <>(\/ <<"code", n>> \notin DOMAIN list \/ list[<<"code", n>>].impl # 0
          \/ target = "none" \/ fault # "none"))
=============================================================================
