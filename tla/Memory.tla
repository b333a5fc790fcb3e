-------------------------------- MODULE Memory --------------------------------
(***************************************************************************)
(* The program's memory as the debugger shows it: async_data_fetcher with  *)
(* the hexadecimal text over it (a window that grows at both ends and is   *)
(* read through the core's queue), the adapter's answer to a readMemory    *)
(* request, and memory_disassembler over lldb_disassembler.                *)
(*                                                                         *)
(* A byte stands for the address it was read at, so that a list of bytes   *)
(* tells which memory it shows. The address space is 0 .. Top, where Top   *)
(* takes the place of UINT64_MAX; memory is readable by pages.             *)
(***************************************************************************)
EXTENDS Integers, Sequences, SequencesExt, FiniteSets, FiniteSetsExt

CONSTANTS
  Top, PageSize,  \* the address space and the pages of it
  Row,            \* bytes in a row of the hexadecimal text (16)
  Step,           \* bytes the adapter reads at a time (64)
  MaxInst, Chunk, \* the longest instruction; the bytes shown where none is (4)
  Limit,          \* def_symbol_lookup_limit (4096)
  MaxOps,         \* how many reads of the window a behaviour starts
  Scenarios       \* the sets of mishaps a behaviour may have

\* What a caller may do, or the memory be, that the code is not prepared for.
MishapKinds == {"unreadable", \* the window is moved over memory that cannot be read
                "ahead",      \* it is extended at its end while that is being extended
                "again",      \* it is moved a second time, under its text
                "lowEnd",     \* it lies at the beginning of the address space
                "offset",     \* a client asks for memory at an offset
                "nullPage",   \* ... within a step of address zero
                "far"}        \* ... for instructions beyond the lookup limit

ASSUME BoundsAssumption ==
  /\ {Top, PageSize, Row, Step, MaxInst, Chunk, Limit, MaxOps} \subseteq Nat \ {0}
  /\ Limit < Top
ASSUME ScenariosAssumption == Scenarios \subseteq SUBSET MishapKinds

VARIABLES
  start, data, text,    \* of the window: its first address, its bytes, its rows
  reads,                \* the reads that are not answered, in their order
  counts, sizes,        \* the fetcher's numbers of operations, and bytes under way
  ops,                  \* the reads started so far, and whether the window was moved
  broken,               \* the assertion that failed, if one did
  answer,               \* the last answer given to a client
  readable, objects, lengths,   \* pages, symbols and the instruction at each address
  mishaps               \* those of this behaviour; never changes

window == <<start, data, text, reads, counts, sizes, ops>>
memory == <<readable, objects, lengths, mishaps>>
vars == <<window, broken, answer, memory>>

Addresses == 0 .. Top - 1
Bytes(a, n) == [i \in 1 .. n |-> a + i - 1]
Lesser(a, b) == IF a < b THEN a ELSE b

\* target_base::read_memory: as many of the bytes as can be read.
CanRead(a) == a < Top /\ a \div PageSize \in readable
Read(a, n) ==
  Bytes(a, IF \A i \in 0 .. n - 1 : CanRead(a + i) THEN n
           ELSE Min({i \in 0 .. n - 1 : ~CanRead(a + i)}))

NoAnswer == [kind |-> "none"]
Pages == 0 .. Top \div PageSize

\* A mapped program has symbols here and there and instructions of several sizes.
Layouts == {{}, {[from |-> 3, to |-> 5]}, {[from |-> 2, to |-> 4], [from |-> 9, to |-> 12]}}
Codes == {[a \in Addresses |-> 1], [a \in Addresses |-> IF a % 3 = 0 THEN MaxInst ELSE 1]}

Init ==
  /\ start = Top /\ data = <<>> /\ text = <<>> /\ reads = <<>>
  /\ counts = [reset |-> 0, begin |-> 0, end |-> 0, skipBegin |-> 0, skipEnd |-> 0]
  /\ sizes = [begin |-> 0, end |-> 0]
  /\ ops = 0 /\ broken = "none" /\ answer = NoAnswer
  /\ mishaps \in Scenarios
  /\ readable \in SUBSET Pages /\ objects \in Layouts /\ lengths \in Codes

-----------------------------------------------------------------------------
(* The window                                                              *)
Rows(bytes) ==
  [i \in 1 .. (Len(bytes) + Row - 1) \div Row |->
     SubSeq(bytes, (i - 1) * Row + 1, Lesser(i * Row, Len(bytes)))]

Ask(kind, a, n) ==
  /\ reads' = Append(reads, [kind |-> kind, from |-> a, size |-> n])
  /\ ops' = ops + 1

Unchanging == UNCHANGED <<start, data, text, broken, answer, memory>>

\* What is being fetched is skipped when it comes; a reset of no size ends there.
Reset_KeepsFetches(a, lines) ==
  /\ counts' = [counts EXCEPT !.reset = @ + 1]
  /\ UNCHANGED sizes /\ Ask("reset", a, Lesser(lines * Row, Top - a)) /\ Unchanging

Reset(a, lines) ==
  LET size == Lesser(lines * Row, Top - a) IN
  /\ counts' = [reset |-> counts.reset + (IF size = 0 THEN 0 ELSE 1), begin |-> 0, end |-> 0,
                skipBegin |-> counts.skipBegin + counts.begin,
                skipEnd |-> counts.skipEnd + counts.end]
  /\ sizes' = [begin |-> 0, end |-> 0]
  /\ IF size = 0 THEN UNCHANGED reads /\ ops' = ops + 1 ELSE Ask("reset", a, size)
  /\ Unchanging

\* The bytes before the window that are not being fetched already.
FetchBegin(lines) ==
  LET wanted == Lesser(lines * Row, start) IN
  /\ counts.reset = 0 /\ wanted > sizes.begin
  /\ counts' = [counts EXCEPT !.begin = @ + 1]
  /\ sizes' = [sizes EXCEPT !.begin = wanted]
  /\ Ask("begin", start - wanted, wanted - sizes.begin) /\ Unchanging

\* The bytes after it, from its end on, whatever is being fetched already.
FetchEnd(lines) ==
  LET end == start + Len(data)
      wanted == Lesser(lines * Row, Top - end) IN
  /\ counts.reset = 0 /\ wanted > sizes.end
  /\ counts' = [counts EXCEPT !.end = @ + 1]
  /\ sizes' = [sizes EXCEPT !.end = wanted]
  /\ Ask("end", end, wanted - sizes.end) /\ Unchanging

\* The text follows the data as rows are added; nothing is taken from it.
AddBefore(bytes) ==
  IF text # <<>> /\ Len(bytes) % Row # 0
  THEN broken' = "partialRow" /\ UNCHANGED text
  ELSE text' = Rows(bytes) \o text /\ UNCHANGED broken

AddAfter(bytes) ==
  /\ text' = IF Len(data) % Row = 0 THEN text \o Rows(bytes)
             ELSE Front(text) \o Rows(Last(text) \o bytes)
  /\ UNCHANGED broken

Break(what) == broken' = what /\ UNCHANGED <<start, data, text, counts, sizes>>

\* The last of several resets replaces the data.
AnswerReset(bytes, r) ==
  /\ counts' = [counts EXCEPT !.reset = @ - 1] /\ UNCHANGED sizes
  /\ IF counts.reset > 1 THEN UNCHANGED <<start, data, text, broken>>
     ELSE IF Len(bytes) # r.size
     THEN broken' = "short" /\ UNCHANGED <<start, data, text>>
     ELSE start' = r.from /\ data' = bytes /\ AddBefore(bytes)

Skip(kind) ==
  counts' = [counts EXCEPT ![kind] = @ - 1] /\ UNCHANGED <<start, data, text, sizes, broken>>

AnswerBegin(bytes, r) ==
  IF Len(bytes) # r.size THEN Break("short")
  ELSE IF counts.skipBegin # 0 THEN Skip("skipBegin")
  ELSE /\ counts' = [counts EXCEPT !.begin = @ - 1]
       /\ sizes' = [sizes EXCEPT !.begin = @ - r.size]
       /\ start' = start - r.size /\ data' = bytes \o data
       /\ AddBefore(bytes)

\* An assertion taken from AnswerBegin wants the bytes to fit before the window.
AnswerEnd(bytes, r) ==
  IF Len(bytes) # r.size THEN Break("short")
  ELSE IF counts.skipEnd # 0 THEN Skip("skipEnd")
  ELSE IF start < r.size THEN Break("lowEnd")
  ELSE /\ counts' = [counts EXCEPT !.end = @ - 1]
       /\ sizes' = [sizes EXCEPT !.end = @ - r.size]
       /\ data' = data \o bytes /\ UNCHANGED start
       /\ IF data = <<>> THEN AddBefore(bytes) ELSE AddAfter(bytes)

Deliver ==
  /\ broken = "none" /\ reads # <<>> /\ reads' = Tail(reads)
  /\ LET r == Head(reads)
         bytes == Read(r.from, r.size) IN
     CASE r.kind = "reset" -> AnswerReset(bytes, r)
       [] r.kind = "begin" -> AnswerBegin(bytes, r)
       [] OTHER -> AnswerEnd(bytes, r)
  /\ UNCHANGED <<ops, answer, memory>>

\* Neither symbols nor instructions matter to the window. Without the mishaps
\* it is moved once, in readable memory, away from address zero, and extended
\* at its end by what has been answered only.
Window ==
  /\ broken = "none" /\ ops < MaxOps /\ answer = NoAnswer
  /\ objects = {} /\ \A a \in Addresses : lengths[a] = 1
  /\ "unreadable" \in mishaps \/ readable = Pages

High(a) == "lowEnd" \in mishaps \/ a >= 2 * Row
Lines == 0 .. 2
Moves == Addresses \cap {0, 3, 8, Top - 2}     \* on and off the bounds of rows and of memory

MoveWindow ==
  /\ Window /\ ("again" \in mishaps \/ text = <<>>)
  /\ \E a \in Moves, lines \in Lines : High(a) /\ Reset(a, lines)

ExtendBefore ==
  Window /\ \E lines \in Lines : High(start - lines * Row) /\ FetchBegin(lines)
ExtendAfter ==
  Window /\ ("ahead" \in mishaps \/ sizes.end = 0) /\ \E lines \in Lines : FetchEnd(lines)

-----------------------------------------------------------------------------
(* A client's readMemory                                                   *)
Remainder(a, b) == (a - b) % (Top + 1)      \* unsigned

\* Step by step until a block comes back short, or the end is reached.
Blocks(a, end) ==
  LET From[curr \in 0 .. Top] ==
        LET block == Read(curr, Lesser(Step, Remainder(end, curr))) IN
        IF Len(block) < Lesser(Step, Remainder(end, curr)) \/ curr + Len(block) = end
        THEN block ELSE block \o From[curr + Len(block)]
  IN From[a]

\* Step by step behind what was read until a block can be read again.
Unreadable_OneStep(a, end, got) == Lesser(Step, end - a - got)
Unreadable(a, end, got) ==
  LET Past[curr \in 0 .. 2 * Top] ==
        IF curr > Remainder(end, Step) \/ curr >= Top THEN end - a - got
        ELSE IF Len(Read(curr + Step, Step)) = Step THEN curr + Step - a - got
        ELSE Past[curr + Step]
  IN IF got = end - a THEN 0 ELSE Past[a + got]

\* The offset of the request goes no further than read_memory's parameters.
ReadMemory ==
  /\ ops = 0 /\ answer = NoAnswer /\ objects = {}
  /\ \E a \in Addresses, offset \in {0, 2}, size \in 0 .. 2 * Step + 1 :
       /\ a + offset + size < Top
       /\ "offset" \in mishaps \/ offset = 0
       /\ "nullPage" \in mishaps \/ a + size >= Step
       /\ LET got == Blocks(a, a + size) IN
          answer' = [kind |-> "read", from |-> a + offset, size |-> size, data |-> got,
                     unreadable |-> Unreadable(a, a + size, Len(got))]
  /\ UNCHANGED <<window, broken, memory>>

-----------------------------------------------------------------------------
(* A client's disassemble                                                  *)
ObjectAt(a) == {o \in objects : o.from <= a /\ a < o.to}

\* lldb_disassembler: what LLDB decodes, cut at the end, the rest in chunks.
Instructions(first, end) ==
  LET Raw[a \in 0 .. Top] ==
        IF a = end THEN <<>>
        ELSE LET n == Lesser(Chunk, end - a) IN <<[at |-> a, size |-> n]>> \o Raw[a + n]
      Decoded[a \in 0 .. Top] ==
        IF a = end THEN <<>>
        ELSE IF Len(Read(a, lengths[a])) < lengths[a] THEN Raw[a]
        ELSE LET n == Lesser(lengths[a], end - a) IN <<[at |-> a, size |-> n]>> \o Decoded[a + n]
  IN Decoded[first]

\* find_mem_region: the object at an address, or what lies between the objects
\* nearest to it on both sides, if they are not beyond the limit.
Region_LimitAfter(a, limit) ==
  LET after == {o.from : o \in {p \in objects : p.from > a}}
      before == {o.to : o \in {p \in objects : p.to <= a}} IN
  IF ObjectAt(a) # {} THEN CHOOSE o \in ObjectAt(a) : TRUE
  ELSE [from |-> IF before = {} THEN 0 ELSE Max(before),
        to |-> IF after = {} THEN Lesser(Top, a + limit) ELSE Min(after) - 1]
Region(a, limit) ==
  LET before == {o.to : o \in {p \in objects : p.to <= a /\ a - p.to <= limit}}
      after == {o.from : o \in {p \in objects : p.from > a /\ p.from - a <= limit + 1}} IN
  IF ObjectAt(a) # {} THEN CHOOSE o \in ObjectAt(a) : TRUE
  ELSE [from |-> IF before # {} THEN Max(before)
                 ELSE IF a > limit THEN a - limit - 1 ELSE 0,
        to |-> IF after # {} THEN Min(after) ELSE Lesser(Top, a + limit + 1)]

\* memory_disassembler::disassemble: regions from the lowest address that may
\* be needed on, until there are enough instructions around the one at a.
Around(a, offset, count) ==
  LET limit == IF Limit < count * MaxInst * 2 THEN count * MaxInst * 2 ELSE Limit
      first == IF offset >= 0 THEN a ELSE IF -offset * MaxInst <= a THEN a + offset * MaxInst ELSE 0
      At(list) == {i \in DOMAIN list : list[i].at <= a /\ a < list[i].at + list[i].size}
      Enough(list, back) == At(list) # {} /\ Min(At(list)) - 1 + back + count <= Len(list)
      Back(list) == IF At(list) # {} /\ -offset > Min(At(list)) - 1
                    THEN 1 - Min(At(list)) ELSE offset
      Listed[curr \in 0 .. Top, list \in Seq([at : Nat, size : Nat])] ==
        LET r == Region(curr, limit)
            more == list \o Instructions(r.from, r.to) IN
        IF Enough(more, Back(more)) \/ r.to = Top THEN more ELSE Listed[r.to, more]
      all == Listed[first, <<>>]
      from == Min(At(all)) + Back(all) IN
  [first |-> from, list |-> SubSeq(all, from, Lesser(from + count - 1, Len(all))),
   before |-> SubSeq(all, 1, from - 1)]

\* An offset beyond the end of the address space is not asked for.
Disassemble ==
  /\ ops = 0 /\ answer = NoAnswer
  /\ \E a \in Addresses, offset \in -5 .. 5, count \in 1 .. 2 :
       /\ a + offset * MaxInst < Top
       /\ "far" \in mishaps \/ (-offset * MaxInst <= Limit /\ (offset + count) * MaxInst <= Limit)
       /\ answer' = [kind |-> "disassemble", at |-> a, offset |-> offset, count |-> count,
                     is |-> Around(a, offset, count)]
  /\ UNCHANGED <<window, broken, memory>>

Next == MoveWindow \/ ExtendBefore \/ ExtendAfter \/ Deliver \/ ReadMemory \/ Disassemble

Spec == Init /\ [][Next]_vars

-----------------------------------------------------------------------------
(* Properties                                                              *)

\* The window shows the memory at its address, but for one extended ahead of an
\* answer, and the text its bytes row by row, but for a second move, whatever is
\* fetched or skipped meanwhile; the numbers of operations are those of the
\* reads under way, so that each answer is taken for what it is, and assertions
\* fail in the named circumstances only.
Under(kind) == Cardinality({i \in DOMAIN reads : reads[i].kind = kind})
Counted ==
  /\ counts.reset = Under("reset")
  /\ counts.begin + counts.skipBegin = Under("begin")
  /\ counts.end + counts.skipEnd = Under("end")
WindowSound ==
  /\ "ahead" \notin mishaps => data = Bytes(start, Len(data))
  /\ "again" \notin mishaps /\ broken # "partialRow" => text = Rows(data)
  /\ broken = "none" => Counted
  /\ broken \in {"none"} \cup UNION {
       CASE m = "unreadable" -> {"short"} [] m = "lowEnd" -> {"lowEnd", "partialRow"}
         [] m = "again" -> {"partialRow"} [] OTHER -> {} : m \in mishaps}

\* The bytes passed over behind an address: whole steps of it, to the first
\* block that can be read in full, or else the rest of the request. Bytes that
\* can be read are among them where a page begins within a step.
PassedOver(bytes, from, rest) ==
  LET Whole(n) == Len(Read(from + n * Step, Step)) = Step IN
  /\ bytes \in 1 .. rest
  /\ bytes = rest \/ \E n \in 1 .. rest : bytes = n * Step /\ Whole(n)
  /\ \A n \in 1 .. rest : n * Step < bytes => ~Whole(n)

\* The answer to readMemory is the beginning of the memory asked for, up to
\* where it cannot be read, for a request without an offset. Nothing is called
\* unreadable if all was read; else what is passed over, if the request does not
\* end within a step of address zero either (debug_child_process::read_memory).
ReadSound ==
  answer.kind = "read" =>
    LET got == Len(answer.data) IN
    /\ "offset" \notin mishaps => answer.data = Read(answer.from, answer.size)
    /\ mishaps \cap {"offset", "nullPage"} = {} =>
         IF got = answer.size THEN answer.unreadable = 0
         ELSE PassedOver(answer.unreadable, answer.from + got, answer.size - got)

\* The instructions listed follow each other without gap or overlap, as many
\* as wanted, counted from the one at the address asked for, unless memory
\* begins or ends before (memory_disassembler::disassemble).
DisassemblySound ==
  answer.kind = "disassemble" /\ "far" \notin mishaps =>
    LET all == answer.is.before \o answer.is.list
        wanted == answer.is.first - answer.offset IN
    /\ \A i \in 1 .. Len(all) - 1 : all[i + 1].at = all[i].at + all[i].size
    /\ Len(answer.is.list) = answer.count \/ Last(all).at + Last(all).size = Top
    /\ wanted \in DOMAIN all /\ (answer.is.first > 1 \/ all[1].at > 0) =>
         answer.at \in all[wanted].at .. all[wanted].at + all[wanted].size - 1
=============================================================================
