---------------------------- MODULE SharedMemory ----------------------------
(***************************************************************************)
(* The shared memory channel on Linux, ipc_channels.cpp:41-122, as main()  *)
(* uses it: a send is init_shared_memory and write_shared_memory, a        *)
(* receive is read_shared_memory and close_shared_memory.  Nothing locks   *)
(* the segment: a step is one system call or a part of a copy.             *)
(*                                                                         *)
(* A segment is two cells; 0 is a cell of '\0' bytes.  A short message and *)
(* its '\0' fit into the first cell, a long one ends in the second.  A     *)
(* segment lives on without its name where it is open or mapped.           *)
(***************************************************************************)
EXTENDS Naturals, FiniteSets

CONSTANTS
    Procs,
    Oversized,     \* whether payloads of SHM_SIZE bytes and more are typed
    Kills,         \* whether processes are killed or exit
    MaxSegments,   \* bound on the segments created
    MaxMessages    \* bound on the messages written

ASSUME SegmentAssumption ==
    /\ Oversized \in BOOLEAN /\ Kills \in BOOLEAN
    /\ MaxSegments \in Nat /\ MaxMessages \in Nat

Segments == 1 .. MaxSegments
Cells    == {1, 2}
Blank    == [c \in Cells |-> 0]

VARIABLES
    name,      \* the segment SHM_PATH names, 0 if there is none
    sized,     \* the segments that ftruncate has given their size
    cell,      \* the contents of each segment
    shm_fd,    \* the segment each process keeps open, 0 for -1
    map,       \* the segment each process has mapped, 0 for none
    pc,        \* what each process does next
    buf,       \* the message it writes, or what it has read, cell by cell
    todo,      \* the cells it has yet to copy
    \* history, for the properties only:
    made,      \* the number of segments created
    begun,     \* the number of messages begun to be written
    long,      \* those among them that need both cells
    done,      \* those written to the end
    received,  \* those received whole by some process
    last,      \* the message last written to a segment, if nobody else wrote
               \* to it meanwhile, and 0 otherwise
    alone,     \* the processes whose copy has met no write of another
    settled,   \* what was done when each process began to receive
    removed,   \* settled of the process that took away the segment's name
    had        \* the segments each process has received from

hist == <<made, begun, long, done, received, last, alone, settled, removed, had>>
vars == <<name, sized, cell, shm_fd, map, pc, buf, todo, hist>>

Init ==
    /\ name = 0 /\ made = 0 /\ begun = 0
    /\ sized = {} /\ long = {} /\ done = {} /\ received = {} /\ alone = {}
    /\ cell = [s \in Segments |-> Blank]
    /\ last = [s \in Segments |-> 0]
    /\ removed = [s \in Segments |-> {}]
    /\ shm_fd = [p \in Procs |-> 0]
    /\ map = [p \in Procs |-> 0]
    /\ pc = [p \in Procs |-> "idle"]
    /\ buf = [p \in Procs |-> Blank]
    /\ todo = [p \in Procs |-> {}]
    /\ settled = [p \in Procs |-> {}]
    /\ had = [p \in Procs |-> {}]

Goto(p, next) == pc' = [pc EXCEPT ![p] = next]

Whole(m, isLong) == [c \in Cells |-> IF c = 1 \/ isLong THEN m ELSE 0]

\* Mutants, here and below: what the definition that follows must not be.
\* The kept descriptor is preferred.
Opened_KeptFirst(p) == IF shm_fd[p] # 0 THEN shm_fd[p] ELSE name

\* shm_open by name, or else the descriptor the process has kept.
Opened(p) == IF name # 0 THEN name ELSE shm_fd[p]

\* The mapping stays.
Unmapped_Not(p) ==
    /\ buf' = [buf EXCEPT ![p] = Blank]
    /\ todo' = [todo EXCEPT ![p] = {}]
    /\ alone' = alone \ {p}
    /\ settled' = [settled EXCEPT ![p] = {}]
    /\ Goto(p, "idle")
    /\ UNCHANGED map

\* p has returned from its call; what it had in hand is of no use any more.
Unmapped(p) ==
    /\ map' = [map EXCEPT ![p] = 0]
    /\ buf' = [buf EXCEPT ![p] = Blank]
    /\ todo' = [todo EXCEPT ![p] = {}]
    /\ alone' = alone \ {p}
    /\ settled' = [settled EXCEPT ![p] = {}]
    /\ Goto(p, "idle")

Writers(s) == {p \in Procs : map[p] = s /\ pc[p] = "copy_in"}

-----------------------------------------------------------------------------
\* Sending.

\* shm_open with O_CREAT.  What shm_fd referred to before is not closed, but
\* nothing uses it again.
InitOpen(p) ==
    /\ pc[p] = "idle"
    /\ IF name # 0 THEN UNCHANGED <<name, made>>
                   ELSE name' = made + 1 /\ made' = made + 1
    /\ shm_fd' = [shm_fd EXCEPT ![p] = name']
    /\ Goto(p, "truncate")
    /\ UNCHANGED <<sized, cell, map, buf, todo,
                   begun, long, done, received, last, alone, settled, removed, had>>

\* ftruncate to SHM_SIZE, which changes nothing the second time.
Truncate(p) ==
    /\ pc[p] = "truncate"
    /\ sized' = sized \union {shm_fd[p]}
    /\ Goto(p, "write")
    /\ UNCHANGED <<name, cell, shm_fd, map, buf, todo, hist>>

\* Only now is the size of the payload looked at.
Refuse(p) ==
    /\ pc[p] = "write"
    /\ Oversized
    /\ Goto(p, "idle")
    /\ UNCHANGED <<name, sized, cell, shm_fd, map, buf, todo, hist>>

\* shm_open and mmap; by now the name may mean another segment.
OpenWrite(p) ==
    LET s == Opened(p)
        m == begun + 1
    IN  /\ pc[p] = "write"
        /\ map' = [map EXCEPT ![p] = s]
        /\ begun' = m
        /\ \E isLong \in BOOLEAN :
              /\ long' = IF isLong THEN long \union {m} ELSE long
              /\ buf' = [buf EXCEPT ![p] = Whole(m, isLong)]
              /\ todo' = [todo EXCEPT ![p] = IF isLong THEN Cells ELSE {1}]
        /\ last' = [last EXCEPT ![s] = 0]
        /\ alone' = {q \in alone : map[q] # s}
                    \union {q \in {p} : Writers(s) = {}}
        /\ Goto(p, "copy_in")
        /\ UNCHANGED <<name, sized, cell, shm_fd,
                       made, done, received, settled, removed, had>>

\* A part of memcpy; the parts come in any order.
CopyIn(p) ==
    /\ pc[p] = "copy_in"
    /\ map[p] \in sized
    /\ \E c \in todo[p] :
          /\ cell' = [cell EXCEPT ![map[p]][c] = buf[p][c]]
          /\ todo' = [todo EXCEPT ![p] = @ \ {c}]
    /\ UNCHANGED <<name, sized, shm_fd, map, pc, buf, hist>>

\* munmap; write_shared_memory returns true.
Unmap(p) ==
    /\ pc[p] = "copy_in"
    /\ todo[p] = {}
    /\ done' = done \union {buf[p][1]}
    /\ last' = [last EXCEPT ![map[p]] = IF p \in alone THEN buf[p][1] ELSE 0]
    /\ Unmapped(p)
    /\ UNCHANGED <<name, sized, cell, shm_fd,
                   made, begun, long, received, removed, had>>

-----------------------------------------------------------------------------
\* Receiving.

\* read_shared_memory returns "" if there is nothing to open.
OpenRead(p) ==
    LET s == Opened(p) IN
    /\ pc[p] = "idle"
    /\ map' = [map EXCEPT ![p] = s]
    /\ alone' = alone \union {q \in {p} : Writers(s) = {}}
    /\ settled' = [settled EXCEPT ![p] = done]
    /\ Goto(p, IF s = 0 THEN "copy_out" ELSE "strlen")
    /\ UNCHANGED <<name, sized, cell, shm_fd, buf, todo,
                   made, begun, long, done, received, last, removed, had>>

\* The '\0' is not copied with a message, which runs on into what follows it.
Ends_Unterminated(m) == m = 0

Ends(m) == m \notin long

\* std::string((char*)pBuf) looks for the '\0' ...
Strlen(p) ==
    /\ pc[p] = "strlen"
    /\ map[p] \in sized
    /\ LET first == cell[map[p]][1] IN
       todo' = [todo EXCEPT ![p] = CASE first = 0  -> {}
                                     [] first # 0 /\ Ends(first) -> {1}
                                     [] OTHER -> Cells]
    /\ Goto(p, "copy_out")
    /\ UNCHANGED <<name, sized, cell, shm_fd, map, buf, hist>>

\* ... and then copies what is before it, in any order.
CopyOut(p) ==
    /\ pc[p] = "copy_out"
    /\ \E c \in todo[p] :
          /\ buf' = [buf EXCEPT ![p][c] = cell[map[p]][c]]
          /\ todo' = [todo EXCEPT ![p] = @ \ {c}]
    /\ UNCHANGED <<name, sized, cell, shm_fd, map, pc, hist>>

\* The descriptor is closed but the name stays.
NameAfterClose_Same == name

NameAfterClose == 0

\* munmap, the string is returned, and close_shared_memory: whatever the name
\* means by now, it goes.
Close(p) ==
    /\ pc[p] = "copy_out"
    /\ todo[p] = {}
    /\ name' = NameAfterClose
    /\ shm_fd' = [shm_fd EXCEPT ![p] = 0]
    /\ Unmapped(p)
    /\ received' = received \union {m \in done : buf[p] = Whole(m, m \in long)}
    /\ removed' = [s \in Segments |-> IF s = name THEN settled[p] ELSE removed[s]]
    /\ had' = [had EXCEPT ![p] = @ \union {map[p]}]
    /\ UNCHANGED <<sized, cell, made, begun, long, done, last>>

-----------------------------------------------------------------------------
\* The process ends, and another one is started in its place.
Dies(p) ==
    /\ shm_fd' = [shm_fd EXCEPT ![p] = 0]
    /\ Unmapped(p)
    /\ had' = [had EXCEPT ![p] = {}]
    /\ UNCHANGED <<name, sized, cell, made, begun, long, done, received, last, removed>>

\* SIGBUS: the segment has no size yet, its creator is before the ftruncate.
Sigbus(p) ==
    /\ pc[p] \in {"copy_in", "strlen"}
    /\ map[p] \notin sized
    /\ Dies(p)

Kill(p) == Kills /\ Dies(p)

\* The bounds keep users from starting a send, never the system from ending it.
Pending == Cardinality({p \in Procs : pc[p] \in {"truncate", "write"}})

Next == \E p \in Procs :
    \/ made < MaxSegments /\ begun + Pending < MaxMessages /\ InitOpen(p)
    \/ Truncate(p)
    \/ Refuse(p)
    \/ OpenWrite(p)
    \/ CopyIn(p)
    \/ Unmap(p)
    \/ OpenRead(p)
    \/ Strlen(p)
    \/ CopyOut(p)
    \/ Close(p)
    \/ Sigbus(p)
    \/ Kill(p)

Spec == Init /\ [][Next]_vars

-----------------------------------------------------------------------------
Reading == {"strlen", "copy_out"}

\* The variables have the shapes their declarations give, and nothing stays
\* mapped between two calls.
TypeOK ==
    /\ name \in 0 .. made /\ made \in 0 .. MaxSegments
    /\ sized \subseteq 1 .. made
    /\ cell \in [Segments -> [Cells -> 0 .. begun]]
    /\ shm_fd \in [Procs -> 0 .. made] /\ map \in [Procs -> 0 .. made]
    /\ \A p \in Procs : map[p] # 0 => pc[p] \in {"copy_in"} \union Reading
    /\ pc \in [Procs -> {"idle", "truncate", "write", "copy_in"} \union Reading]
    /\ buf \in [Procs -> [Cells -> 0 .. begun]]
    /\ todo \in [Procs -> SUBSET Cells]
    /\ begun \in 0 .. MaxMessages
    /\ long \subseteq 1 .. begun
    /\ done \subseteq 1 .. begun /\ received \subseteq done
    /\ last \in [Segments -> {0} \union done]
    /\ alone \subseteq {p \in Procs : pc[p] \in {"copy_in"} \union Reading}
    /\ settled \in [Procs -> SUBSET done] /\ removed \in [Segments -> SUBSET done]
    /\ had \in [Procs -> SUBSET (0 .. made)]

\* A receive that meets no write returns the last message as it was written,
\* unless its write met another one (ipc_channels.cpp:74, :102): no message is
\* mixed with an older one that is longer, and none comes back cut.
UndisturbedReadIsWhole ==
    \A p \in alone :
        (pc[p] = "copy_out" /\ todo[p] = {} /\ map[p] # 0 /\ last[map[p]] # 0) =>
            buf[p] = Whole(last[map[p]], last[map[p]] \in long)

\* A message that was there, undisturbed, when the process that removed its
\* segment began to receive has been received: the unlink at the end of a
\* receive only takes away messages written since (ipc_channels.cpp:120).
OnlyLateMessagesRemoved ==
    \A s \in Segments : last[s] \in removed[s] => last[s] \in received

\* A process receives from a segment at most once, though others may receive
\* the same message from descriptors they have kept (ipc_channels.cpp:96).
ReadsOnce == \A p \in Procs : pc[p] \in Reading /\ map[p] # 0 => map[p] \notin had[p]
=============================================================================
