---------------------------- MODULE ClusterProofs ---------------------------
(***************************************************************************)
(* Proofs about Cluster, for every plan and every size of its queues and   *)
(* crossings.                                                              *)
(***************************************************************************)
EXTENDS Cluster, FiniteSetTheorems, SequenceTheorems, TLAPS

(* A stage of PacketDMA changes no more than the given registers. *)
Keeps(d, e, registers) ==
  /\ DOMAIN e = DOMAIN d
  /\ \A r \in DOMAIN d \ registers : e[r] = d[r]

Registers == DOMAIN DMAInit

(* The registers of PacketDMA by name. *)
LEMMA RegisterNames ==
  Registers =
    {"commands", "issued", "completed", "stage", "armed", "lock", "state", "active",
     "moved", "beat", "prefetch", "backing", "backing_state", "l2_commits",
     "backing_commits", "cache_completed", "post_clear", "clear_address",
     "clear_armed", "clear_completed", "protocol_error"}
BY DEF Registers, DMAInit

(* Two stages one after the other change no more than each of them. *)
LEMMA KeepsTwice ==
  ASSUME NEW d, NEW e, NEW f, NEW R, NEW T, Keeps(d, e, R), Keeps(e, f, T)
  PROVE  Keeps(d, f, R \cup T)
BY DEF Keeps

(* What the stages change, in the order of the edge.                       *)
LEMMA BackingPushKeeps ==
  ASSUME NEW d, NEW in, DOMAIN d = Registers
  PROVE  Keeps(d, BackingPush(d, d, in), {"backing", "post_clear"})
BY RegisterNames DEF BackingPush, Keeps

(* then the writer of DDR, *)
LEMMA BackingWriteKeeps ==
  ASSUME NEW d, NEW e, NEW in, DOMAIN e = Registers
  PROVE  Keeps(e, BackingWrite(d, e, in),
               {"backing_state", "backing", "clear_completed", "backing_commits"})
BY RegisterNames DEF BackingWrite, Keeps

(* the loading engine, *)
LEMMA PrefetchKeeps ==
  ASSUME NEW d, NEW e, NEW in, DOMAIN e = Registers
  PROVE  Keeps(e, Prefetch(d, e, in), {"prefetch", "protocol_error"})
BY RegisterNames DEF Prefetch, Noted, Keeps

(* a store of the CPU, *)
LEMMA DMAStoreKeeps ==
  ASSUME NEW d, NEW e, NEW in, DOMAIN e = Registers
  PROVE  Keeps(e, DMAStore(d, e, in),
               {"stage", "armed", "lock", "clear_address", "clear_armed", "backing",
                "protocol_error"})
BY RegisterNames DEF DMAStore, Noted, Keeps

(* a command that enters the queue, *)
LEMMA PushKeeps ==
  ASSUME NEW d, NEW e, NEW in, DOMAIN e = Registers
  PROVE  Keeps(e, Push(d, e, in), {"commands", "armed", "issued"})
BY RegisterNames DEF Push, Keeps

(* and, after the engine, the pairing of the commits of L2 and DDR. *)
LEMMA PairCommitsKeeps ==
  ASSUME NEW e, NEW commit, DOMAIN e = Registers
  PROVE  Keeps(e, PairCommits(e, commit),
               {"l2_commits", "backing_commits", "cache_completed"})
BY RegisterNames DEF PairCommits, Keeps

EngineRegisters ==
  {"state", "active", "moved", "beat", "commands", "completed", "protocol_error", "post_clear"}

(* The engine's own steps: a beat moved, or the command done, *)
LEMMA MovedKeeps ==
  ASSUME NEW d, NEW e, NEW beat, NEW state, DOMAIN e = Registers
  PROVE  Keeps(e, Moved(d, e, beat, state), {"moved", "state", "commands", "completed"})
BY RegisterNames DEF Moved, Complete, Keeps

(* an error noted, *)
LEMMA NotedKeeps ==
  ASSUME NEW e, NEW error, DOMAIN e = Registers
  PROVE  Keeps(e, Noted(e, error), {"protocol_error"})
BY RegisterNames DEF Noted, Keeps

(* (what changes no more than few registers changes no more than many,) *)
LEMMA KeepsMore ==
  ASSUME NEW d, NEW e, NEW R, NEW T, Keeps(d, e, R), R \subseteq T
  PROVE  Keeps(d, e, T)
BY DEF Keeps

(* a beat of the input taken, *)
LEMMA WaitInputKeeps ==
  ASSUME NEW d, NEW e, NEW in, DOMAIN e = Registers
  PROVE  Keeps(e, WaitInput(d, e, in), EngineRegisters)
<1> DEFINE input == IF Is(d, "NETWORK_CPU") THEN in.rx ELSE in.system_rx
           whole == Noted(e, BeatError(d.moved, d.active.LENGTH, input))
           moved == Moved(d, whole, input, "WAIT_INPUT")
           error == Noted(e, input.sop # (d.moved = 0))
           taken == [error EXCEPT !.beat = input, !.state = "WRITE_ADDRESS"]
<1>1. WaitInput(d, e, in) \in {e, moved, taken}
  BY DEF WaitInput
<1>2. Keeps(e, e, EngineRegisters)
  BY DEF Keeps
<1>3. Keeps(e, moved, EngineRegisters)
  <2>1. Keeps(e, whole, {"protocol_error"}) /\ DOMAIN whole = Registers
    BY NotedKeeps DEF Keeps
  <2>2. Keeps(whole, moved, {"moved", "state", "commands", "completed"})
    BY <2>1, MovedKeeps
  <2> HIDE DEF whole, moved
  <2>3. QED
    BY <2>1, <2>2, KeepsTwice, KeepsMore DEF EngineRegisters
<1>4. Keeps(e, taken, EngineRegisters)
  <2>1. Keeps(e, error, {"protocol_error"}) /\ DOMAIN error = Registers
    BY NotedKeeps DEF Keeps
  <2> HIDE DEF error
  <2>2. QED
    BY <2>1, RegisterNames DEF Keeps, EngineRegisters
<1>5. QED
  BY <1>1, <1>2, <1>3, <1>4

(* a beat of the output given, *)
LEMMA SendOutputKeeps ==
  ASSUME NEW d, NEW e, NEW ready, DOMAIN e = Registers
  PROVE  Keeps(e, SendOutput(d, e, ready), EngineRegisters)
<1>1. Keeps(e, Moved(d, e, d.beat, "READ_ADDRESS"), EngineRegisters)
  BY MovedKeeps, KeepsMore DEF EngineRegisters
<1>2. Keeps(e, e, EngineRegisters) /\ Keeps(e, [e EXCEPT !.state = "POST_TX_CLEAR"], EngineRegisters)
  BY RegisterNames DEF Keeps, EngineRegisters
<1>3. QED
  BY <1>1, <1>2 DEF SendOutput

(* and the engine as a whole. *)
LEMMA EngineKeeps ==
  ASSUME NEW d, NEW e, NEW in, DOMAIN e = Registers
  PROVE  Keeps(e, Engine(d, e, in), EngineRegisters)
<1> DEFINE whole == Noted(e, BeatError(d.moved, d.active.LENGTH, d.beat))
           moved == Moved(d, whole, d.beat, "WAIT_INPUT")
           ready == IF Is(d, "CPU_SYSTEM") THEN in.system_tx_ready ELSE in.network_tx_ready
           memory == IF ReadsRing(d) THEN in.backing ELSE in.l2
           read == [e EXCEPT !.state = "SEND_OUTPUT",
                             !.beat = [data |-> memory.rdata, sop |-> d.moved = 0,
                                       eop |-> remaining(d) <= 1]]
           cleared == [Complete(e) EXCEPT !.post_clear = Append(@, d.active.SOURCE)]
<1>1. \/ Engine(d, e, in) \in {e, Start(d, e), WaitInput(d, e, in), moved, read,
                               SendOutput(d, e, ready), cleared}
      \/ \E state : Engine(d, e, in) = [e EXCEPT !.state = state]
  BY DEF Engine
<1>2. Keeps(e, e, EngineRegisters) /\ Keeps(e, Start(d, e), EngineRegisters)
  BY RegisterNames DEF Keeps, EngineRegisters, Start
<1>3. Keeps(e, moved, EngineRegisters)
  <2>1. Keeps(e, whole, {"protocol_error"}) /\ DOMAIN whole = Registers
    BY NotedKeeps DEF Keeps
  <2>2. Keeps(whole, moved, {"moved", "state", "commands", "completed"})
    BY <2>1, MovedKeeps
  <2> HIDE DEF whole, moved
  <2>3. QED
    BY <2>1, <2>2, KeepsTwice, KeepsMore DEF EngineRegisters
<1>4. Keeps(e, read, EngineRegisters) /\ Keeps(e, cleared, EngineRegisters)
  BY RegisterNames DEF Keeps, EngineRegisters, Complete
<1>5. \A state : Keeps(e, [e EXCEPT !.state = state], EngineRegisters)
  BY RegisterNames DEF Keeps, EngineRegisters
<1> HIDE DEF moved, read, cleared
<1>6. QED
  BY <1>1, <1>2, <1>3, <1>4, <1>5, WaitInputKeeps, SendOutputKeeps

(* The lock after an edge: only a store to it changes it. *)
LockAfter(d, in) ==
  IF in.store.register = "COMMAND_LOCK" /\ MayLock(d, in.store.value)
  THEN in.store.value ELSE d.lock

(* The registers stay the registers, and the lock changes with a store to *)
(* it, and only if it is free for the one who stores.                      *)
LEMMA LockEdge ==
  ASSUME NEW d, NEW in, DOMAIN d = Registers
  PROVE  DOMAIN DMAEdge(d, in) = Registers /\ DMAEdge(d, in).lock = LockAfter(d, in)
<1> DEFINE a == BackingPush(d, d, in)
           b == BackingWrite(d, a, in)
           c == Prefetch(d, b, in)
           s == DMAStore(d, c, in)
           p == Push(d, s, in)
           e == Engine(d, p, in)
           f == PairCommits(e, in.commit)
<1>1. DOMAIN a = Registers /\ a.lock = d.lock
  BY BackingPushKeeps, RegisterNames DEF Keeps
<1>2. DOMAIN b = Registers /\ b.lock = d.lock
  <2> HIDE DEF a
  <2>1. QED
    BY <1>1, BackingWriteKeeps, RegisterNames DEF Keeps
<1>3. DOMAIN c = Registers /\ c.lock = d.lock
  <2> HIDE DEF b
  <2>1. QED
    BY <1>2, PrefetchKeeps, RegisterNames DEF Keeps
<1>4. DOMAIN s = Registers /\ s.lock = LockAfter(d, in)
  <2> HIDE DEF c
  <2>1. DOMAIN s = Registers
    BY <1>3, DMAStoreKeeps DEF Keeps
  <2>2. "COMMAND_LOCK" \notin StageRegisters
    BY DEF StageRegisters, NoCommand
  <2>3. QED
    BY <1>3, <2>1, <2>2, RegisterNames DEF DMAStore, LockAfter, Noted
<1>5. DOMAIN p = Registers /\ p.lock = LockAfter(d, in)
  <2> HIDE DEF s
  <2>1. QED
    BY <1>4, PushKeeps, RegisterNames DEF Keeps
<1>6. DOMAIN e = Registers /\ e.lock = LockAfter(d, in)
  <2> HIDE DEF p
  <2>1. QED
    BY <1>5, EngineKeeps, RegisterNames DEF Keeps, EngineRegisters
<1>7. DOMAIN f = Registers /\ f.lock = LockAfter(d, in)
  <2> HIDE DEF e
  <2>1. QED
    BY <1>6, PairCommitsKeeps, RegisterNames DEF Keeps
<1>8. f = DMAEdge(d, in)
  BY DEF DMAEdge
<1> HIDE DEF f
<1>9. QED
  BY <1>7, <1>8

-----------------------------------------------------------------------------
(* The firmware's critical sections.                                       *)

(* A hart whose next instruction is the pc-th of a program has taken the   *)
(* lock and not given it back.                                             *)
Owning(program, pc) ==
  \E i \in 1 .. pc - 1 : /\ program[i] = "check"
                         /\ \A j \in i .. pc - 1 : program[j] # "unlock"

(* A hart owns the registers after an instruction when the instruction     *)
(* was the check of the lock, or it owned them and did not give them       *)
(* back.                                                                   *)
LEMMA OwningNext ==
  ASSUME NEW p, NEW pc \in Nat \ {0}
  PROVE  Owning(p, pc + 1) <=> p[pc] = "check" \/ (Owning(p, pc) /\ p[pc] # "unlock")
<1>1. ASSUME Owning(p, pc + 1), p[pc] # "check"
      PROVE  Owning(p, pc) /\ p[pc] # "unlock"
  <2>1. PICK i \in 1 .. pc : p[i] = "check" /\ \A j \in i .. pc : p[j] # "unlock"
    BY <1>1 DEF Owning
  <2>2. i \in 1 .. pc - 1
    BY <1>1, <2>1
  <2>3. QED
    BY <2>1, <2>2 DEF Owning
<1>2. ASSUME p[pc] = "check" PROVE Owning(p, pc + 1)
  <2>1. pc \in 1 .. pc + 1 - 1 /\ \A j \in pc .. pc + 1 - 1 : j = pc
    OBVIOUS
  <2>2. QED
    BY <1>2, <2>1 DEF Owning
<1>3. ASSUME Owning(p, pc), p[pc] # "unlock" PROVE Owning(p, pc + 1)
  <2>1. PICK i \in 1 .. pc - 1 : p[i] = "check" /\ \A j \in i .. pc - 1 : p[j] # "unlock"
    BY <1>3 DEF Owning
  <2>2. i \in 1 .. pc /\ \A j \in i .. pc : p[j] # "unlock"
    BY <1>3, <2>1
  <2>3. QED
    BY <2>1, <2>2 DEF Owning
<1>4. QED
  BY <1>1, <1>2, <1>3

(* It owns nothing when no check followed the last time the lock was       *)
(* given back.                                                             *)
LEMMA NotOwning ==
  ASSUME NEW p, NEW a \in Nat, NEW u \in 0 .. a - 1, u = 0 \/ p[u] = "unlock",
         \A i \in u + 1 .. a - 1 : p[i] # "check"
  PROVE  ~Owning(p, a)
BY DEF Owning

(* What the proof needs of a program: a failed check is taken again from   *)
(* before it, a lock is only given back by its owner, and the program goes *)
(* on or starts again, always with the lock given back.                    *)
Sound(f, p) ==
  /\ Len(p) \in Nat /\ Len(p) >= 2
  /\ ~Owning(p, 1) /\ ~Owning(p, 2)
  /\ \A pc \in 1 .. Len(p) :
       /\ p[pc] = "check" => pc > 1 /\ ~Owning(p, pc - 1)
       /\ p[pc] = "unlock" => Owning(p, pc)
       /\ p[pc] \notin {"next", "next_dma", "repeat"} => pc < Len(p)
       /\ p[pc] = "await_ticket" /\ f = "forward" => pc + 3 <= Len(p) /\ ~Owning(p, pc + 3)
  /\ f = "ring" => ~Owning(p, Len(p))

(* Each of the four programs is sound: the one of the ring, *)
LEMMA RingSound == Sound("ring", Program["ring"]["hart1"])
<1> DEFINE p == Program["ring"]["hart1"]
<1>1. p = << "enable_auto", "await_loaded", "await_ready", "lock", "check", "LENGTH", "SOURCE",
         "FLAGS_TO_SYSTEM", "COMMAND", "unlock", "next" >>
  BY DEF Program
<1> HIDE DEF p
<1>2. Owning(p, 10)
  <2>1. \A j \in 5 .. 9 : p[j] # "unlock"
    BY <1>1
  <2>2. 5 \in 1 .. 10 - 1 /\ p[5] = "check"
    BY <1>1
  <2>3. QED
    BY <2>1, <2>2 DEF Owning
<1>3. ~Owning(p, 1) /\ ~Owning(p, 2) /\ ~Owning(p, 4)
  BY <1>1 DEF Owning
<1>4. ~Owning(p, 11)
  BY <1>1, NotOwning, p[10] = "unlock"
<1>5. Len(p) = 11
  BY <1>1
<1>6. \A pc \in 1 .. Len(p) :
        /\ p[pc] = "check" => pc = 5
        /\ p[pc] = "unlock" => pc = 10
        /\ p[pc] \notin {"next", "next_dma", "repeat"} => pc < Len(p)
  BY <1>1, <1>5
<1>7. Sound("ring", p)
  BY <1>2, <1>3, <1>4, <1>5, <1>6 DEF Sound
<1>8. QED
  BY <1>7 DEF p

(* the one that takes no lock, *)
LEMMA FastSound == Sound("fast", Program["fast"]["hart1"])
<1> DEFINE p == Program["fast"]["hart1"]
<1>1. p = << "enable", "await_dma_ready", "next_dma" >>
  BY DEF Program
<1> HIDE DEF p
<1>2. ~Owning(p, 1) /\ ~Owning(p, 2)
  BY <1>1 DEF Owning
<1>3. Len(p) = 3
  BY <1>1
<1>4. \A pc \in 1 .. Len(p) :
        /\ p[pc] # "check" /\ p[pc] # "unlock" /\ p[pc] # "await_ticket"
        /\ p[pc] \notin {"next", "next_dma", "repeat"} => pc < Len(p)
  BY <1>1, <1>3
<1>5. Sound("fast", p)
  BY <1>2, <1>3, <1>4 DEF Sound
<1>6. QED
  BY <1>5 DEF p

(* the one that returns packets from the ring, *)
LEMMA ForwardSound == Sound("forward", Program["forward"]["hart1"])
<1> DEFINE p == Program["forward"]["hart1"]
<1>1. p = << "enable_auto", "await_loaded", "lock", "check", "LENGTH", "SOURCE", "FLAGS_TO_NETWORK",
         "COMMAND", "ticket", "unlock", "await_ticket", "CLEAR_ADDRESS", "CLEAR_NOTIFY",
         "await_cleared", "next" >>
  BY DEF Program
<1> HIDE DEF p
<1>2. Owning(p, 10)
  <2>1. \A j \in 4 .. 9 : p[j] # "unlock"
    BY <1>1
  <2>2. 4 \in 1 .. 10 - 1 /\ p[4] = "check"
    BY <1>1
  <2>3. QED
    BY <2>1, <2>2 DEF Owning
<1>3. ~Owning(p, 1) /\ ~Owning(p, 2) /\ ~Owning(p, 3)
  BY <1>1 DEF Owning
<1>4. ~Owning(p, 14)
  <2>1. \A i \in 10 + 1 .. 14 - 1 : p[i] # "check"
    BY <1>1
  <2>2. QED
    BY <1>1, <2>1, NotOwning, p[10] = "unlock"
<1>5. Len(p) = 15
  BY <1>1
<1>6. \A pc \in 1 .. Len(p) :
        /\ p[pc] = "check" => pc = 4
        /\ p[pc] = "unlock" => pc = 10
        /\ p[pc] = "await_ticket" => pc = 11
        /\ p[pc] \notin {"next", "next_dma", "repeat"} => pc < Len(p)
  BY <1>1, <1>5
<1>7. Sound("forward", p)
  BY <1>2, <1>3, <1>4, <1>5, <1>6 DEF Sound
<1>8. QED
  BY <1>7 DEF p

(* and the two that share the registers. *)
LEMMA BridgeSound ==
  ASSUME NEW h \in {"hart1", "hart2"}
  PROVE  Sound("bridge", Program["bridge"][h])
<1> DEFINE p == Program["bridge"][h]
           load == IF h = "hart1" THEN "FLAGS_FROM_NETWORK" ELSE "FLAGS_FROM_SYSTEM"
           send == IF h = "hart1" THEN "FLAGS_TO_NETWORK" ELSE "FLAGS_TO_SYSTEM"
<1>1. p = << "lock", "check", "RX_HANDLE", "LENGTH", "DESTINATION", load, "COMMAND",
                "ticket", "unlock", "await_ticket",
                "lock", "check", "LENGTH", "SOURCE", send, "COMMAND",
                "ticket", "unlock", "await_ticket", "repeat" >>
  BY DEF Program
<1>2. load \in {"FLAGS_FROM_NETWORK", "FLAGS_FROM_SYSTEM"}
      /\ send \in {"FLAGS_TO_NETWORK", "FLAGS_TO_SYSTEM"}
  OBVIOUS
<1> HIDE DEF p, load, send
<1>3. Len(p) = 20
  BY <1>1, <1>2
<1>4. \A pc \in 1 .. 20 :
        /\ p[pc] = "check" => pc \in {2, 12}
        /\ p[pc] = "unlock" => pc \in {9, 18}
        /\ p[pc] \notin {"next", "next_dma", "repeat"} => pc < 20
  BY <1>1, <1>2
<1>5. p[2] = "check" /\ p[12] = "check" /\ p[9] = "unlock"
  BY <1>1
<1>6. ~Owning(p, 1) /\ ~Owning(p, 2)
  BY <1>4 DEF Owning
<1>7. ~Owning(p, 11)
  BY <1>4, <1>5, NotOwning
<1>8. Owning(p, 9)
  <2>1. 2 \in 1 .. 9 - 1 /\ \A j \in 2 .. 9 - 1 : p[j] # "unlock"
    BY <1>4
  <2>2. QED
    BY <1>5, <2>1 DEF Owning
<1>9. Owning(p, 18)
  <2>1. 12 \in 1 .. 18 - 1 /\ \A j \in 12 .. 18 - 1 : p[j] # "unlock"
    BY <1>4
  <2>2. QED
    BY <1>5, <2>1 DEF Owning
<1>10. Sound("bridge", p)
  BY <1>3, <1>4, <1>6, <1>7, <1>8, <1>9 DEF Sound
<1>11. QED
  BY <1>10 DEF p

-----------------------------------------------------------------------------
(* The lock of the staged registers.                                       *)

HartsHold ==
  /\ firmware \in DOMAIN Plans
  /\ DOMAIN dma = Registers
  /\ DOMAIN harts = Harts
  /\ \A h \in Harts : harts[h].pc \in 1 .. Len(Program[firmware][h])
  /\ StagingExclusive

(* So every hart of every firmware runs a sound program. *)
LEMMA ProgramSound ==
  ASSUME ClusterAssumption, firmware \in DOMAIN Plans
  PROVE  /\ Harts \subseteq {"hart1", "hart2"}
         /\ \A h \in Harts : Sound(firmware, Program[firmware][h])
<1>1. firmware \in {"ring", "fast", "forward", "bridge"}
  BY DEF ClusterAssumption
<1>2. CASE firmware \in {"ring", "fast", "forward"}
  <2>1. Harts = {"hart1"}
    <3>1. DOMAIN Program["ring"] = {"hart1"}
      BY DEF Program
    <3>2. DOMAIN Program["fast"] = {"hart1"}
      BY DEF Program
    <3>3. DOMAIN Program["forward"] = {"hart1"}
      BY DEF Program
    <3>4. QED
      BY <1>2, <3>1, <3>2, <3>3 DEF Harts
  <2>2. Sound(firmware, Program[firmware]["hart1"])
    <3>1. CASE firmware = "ring"
      BY <3>1, RingSound
    <3>2. CASE firmware = "fast"
      BY <3>2, FastSound
    <3>3. CASE firmware = "forward"
      BY <3>3, ForwardSound
    <3>4. QED
      BY <1>2, <3>1, <3>2, <3>3
  <2>3. QED
    BY <2>1, <2>2
<1>3. CASE firmware = "bridge"
  <2>1. DOMAIN Program[firmware] = {"hart1", "hart2"}
    BY <1>3 DEF Program
  <2>2. QED
    BY <1>3, <2>1, BridgeSound DEF Harts
<1>4. QED
  BY <1>1, <1>2, <1>3

(* The ownership of the invariant is that of the programs, before *)
LEMMA OwnsIsOwning ==
  ASSUME NEW h
  PROVE  Owns(h) <=> Owning(Program[firmware][h], harts[h].pc)
BY DEF Owns, Owning

(* and after an edge. *)
LEMMA OwnsIsOwningNext ==
  ASSUME NEW h
  PROVE  Owns(h)' <=> Owning(Program[firmware'][h], harts'[h].pc)
BY DEF Owns, Owning, Program

(* An edge carries the access of at most one hart.                         *)
LEMMA OneHart ==
  ASSUME NEW ev, Harts \subseteq {"hart1", "hart2"}, Cardinality(HartEvent(ev)) <= 1
  PROVE  \A g, h \in HartEvent(ev) : g = h
<1>1. SUFFICES ASSUME NEW g \in HartEvent(ev), NEW h \in HartEvent(ev), g # h PROVE FALSE
  OBVIOUS
<1>2. HartEvent(ev) = {g} \cup {h}
  BY <1>1 DEF HartEvent
<1>3. IsFiniteSet({g}) /\ Cardinality({g}) = 1
  BY FS_Singleton
<1>4. Cardinality({g} \cup {h}) = 2
  BY <1>1, <1>3, FS_AddElement
<1>5. QED
  BY <1>2, <1>4

(* The lock after an edge by what the hart of the edge does. *)
LockBy(h) ==
  CASE Instruction(h) = "lock" /\ MayLock(dma, Token(h)) -> Token(h)
    [] Instruction(h) = "unlock" -> 0
    [] OTHER -> dma.lock

(* The store of an edge moves the lock as the hart's instruction says,     *)
(* and without a hart there is none.                                       *)
LEMMA LockStore ==
  ASSUME NEW ev, NEW in, DOMAIN dma = Registers, in.store = StoreAt(ev),
         \A g, h \in HartEvent(ev) : g = h
  PROVE  /\ HartEvent(ev) = {} => LockAfter(dma, in) = dma.lock
         /\ \A h \in HartEvent(ev) : LockAfter(dma, in) = LockBy(h)
<1>1. CASE HartEvent(ev) = {}
  BY <1>1 DEF StoreAt, LockAfter, NoStore
<1>2. ASSUME NEW h \in HartEvent(ev)
      PROVE  LockAfter(dma, in) = LockBy(h)
  <2>1. StoreAt(ev) = StoreOf(h, Instruction(h))
    BY <1>2 DEF StoreAt
  <2>2. CASE Instruction(h) \in {"lock", "unlock"}
    BY <2>1, <2>2 DEF StoreOf, LockAfter, LockBy, MayLock
  <2>3. CASE Instruction(h) \notin {"lock", "unlock"}
    <3>1. StoreOf(h, Instruction(h)).register # "COMMAND_LOCK"
      BY <2>3 DEF StoreOf, NoStore
    <3>2. QED
      BY <2>1, <2>3, <3>1 DEF LockAfter, LockBy
  <2>4. QED
    BY <2>2, <2>3
<1>3. QED
  BY <1>1, <1>2

(* Where a hart goes: to the next instruction, or where it owns nothing.   *)
LEMMA HartGoes ==
  ASSUME ClusterAssumption, HartsHold, NEW h \in Harts
  PROVE  /\ NextPc(h) \in 1 .. Len(Program[firmware][h])
         /\ \/ ~Owning(Program[firmware][h], NextPc(h))
            \/ /\ NextPc(h) = harts[h].pc + 1
               /\ Instruction(h) = "check" => Proceeds(h, "check")
<1> DEFINE p == Program[firmware][h]
           pc == harts[h].pc
<1>1. Sound(firmware, p) /\ pc \in 1 .. Len(p) /\ Instruction(h) = p[pc]
  BY ProgramSound DEF HartsHold, Instruction
<1>9. /\ pc \in 1 .. Len(p) /\ Len(p) \in Nat /\ Len(p) >= 2
      /\ ~Owning(p, 1) /\ ~Owning(p, 2)
      /\ p[pc] = "check" => pc > 1 /\ ~Owning(p, pc - 1)
      /\ p[pc] \notin {"next", "next_dma", "repeat"} => pc < Len(p)
      /\ p[pc] = "await_ticket" /\ firmware = "forward" => pc + 3 <= Len(p) /\ ~Owning(p, pc + 3)
      /\ firmware = "ring" => ~Owning(p, Len(p))
  BY <1>1 DEF Sound
<1>2. firmware = "ring" => Len(Program.ring.hart1) = Len(p)
  BY ProgramSound DEF HartsHold, Harts, Program
<1> SUFFICES /\ NextPc(h) \in 1 .. Len(p)
             /\ \/ ~Owning(p, NextPc(h))
                \/ /\ NextPc(h) = pc + 1
                   /\ Instruction(h) = "check" => Proceeds(h, "check")
  OBVIOUS
<1> HIDE DEF p, pc
<1>3. CASE p[pc] = "check" /\ ~Proceeds(h, "check")
  <2>1. NextPc(h) = pc - 1
    BY <1>1, <1>3 DEF NextPc, pc
  <2>2. QED
    BY <1>1, <1>3, <2>1, <1>9
<1>4. CASE p[pc] = "await_loaded" /\ firmware = "ring" /\ ~SendsToSystem(h)
  <2>1. NextPc(h) = Len(p)
    BY <1>1, <1>2, <1>4 DEF NextPc
  <2>2. QED
    BY <1>1, <1>4, <2>1, <1>9
<1>5. CASE p[pc] = "await_ticket" /\ firmware = "forward" /\ ByFlag(h)
  <2>1. NextPc(h) = pc + 3
    BY <1>1, <1>5 DEF NextPc, pc
  <2>2. QED
    BY <1>1, <1>5, <2>1, <1>9
<1>6. CASE p[pc] \in {"next", "next_dma", "repeat"}
  <2>1. NextPc(h) \in {1, 2}
    BY <1>1, <1>6 DEF NextPc
  <2>2. QED
    BY <1>1, <2>1, <1>9
<1>7. CASE /\ ~(p[pc] = "check" /\ ~Proceeds(h, "check"))
           /\ ~(p[pc] = "await_loaded" /\ firmware = "ring" /\ ~SendsToSystem(h))
           /\ ~(p[pc] = "await_ticket" /\ firmware = "forward" /\ ByFlag(h))
           /\ p[pc] \notin {"next", "next_dma", "repeat"}
  <2>1. NextPc(h) = pc + 1
    BY <1>1, <1>7 DEF NextPc, pc
  <2>2. QED
    BY <1>1, <1>7, <2>1, <1>9
<1>8. QED
  BY <1>3, <1>4, <1>5, <1>6, <1>7

(* What an edge does to the lock and the harts. *)
LEMMA EdgeHarts ==
  ASSUME NEW ev, Edge(ev), DOMAIN dma = Registers, Harts \subseteq {"hart1", "hart2"},
         Cardinality(HartEvent(ev)) <= 1
  PROVE  /\ firmware' = firmware
         /\ DOMAIN dma' = Registers
         /\ harts' = [h \in Harts |-> IF h \in ev THEN HartAfter(h) ELSE harts[h]]
         /\ HartEvent(ev) = {} => dma'.lock = dma.lock
         /\ \A h \in HartEvent(ev) : dma'.lock = LockBy(h) /\ \A g \in HartEvent(ev) : g = h
<1>1. \A g, h \in HartEvent(ev) : g = h
  BY OneHart
<1> DEFINE packet == backing_dma(dma)
           from == FromDDR4(ddr4, ToMemory(arbiter, CpuRequest, packet))
           in == Input(StoreAt(ev), ev, L2Answer(ev),
                       ToPacket(arbiter, CpuRequest, packet, from))
<1>2. in.store = StoreAt(ev)
  BY DEF Input
<1>3. /\ dma' = DMAEdge(dma, in)
      /\ firmware' = firmware
      /\ harts' = [h \in Harts |-> IF h \in ev THEN HartAfter(h) ELSE harts[h]]
  BY DEF Edge
<1> HIDE DEF in
<1>4. QED
  BY <1>1, <1>2, <1>3, LockEdge, LockStore

(* A hart that owns the registers after an edge had the lock before it,    *)
(* and the store of another hart does not take it away.                    *)
LEMMA StagingNext ==
  ASSUME ClusterAssumption, HartsHold, [Next]_vars
  PROVE  HartsHold'
<1>1. CASE UNCHANGED vars
  <2>1. firmware' = firmware /\ dma' = dma /\ harts' = harts
    BY <1>1 DEF vars
  <2>2. Harts' = Harts /\ \A h : Owns(h)' = Owns(h) /\ Token(h)' = Token(h)
    BY <2>1 DEF Harts, Owns, Token, Program
  <2>3. QED
    BY <2>1, <2>2 DEF HartsHold, StagingExclusive, Program
<1>2. CASE ActiveEdge
  <2>1. PICK ev \in SUBSET Events : Edge(ev) /\ Cardinality(HartEvent(ev)) <= 1
    BY <1>2 DEF ActiveEdge
  <2>2. /\ firmware \in DOMAIN Plans /\ DOMAIN dma = Registers /\ DOMAIN harts = Harts
        /\ Harts \subseteq {"hart1", "hart2"}
        /\ \A h \in Harts : Sound(firmware, Program[firmware][h])
        /\ \A h \in Harts : harts[h].pc \in 1 .. Len(Program[firmware][h])
        /\ \A h \in Harts : Owning(Program[firmware][h], harts[h].pc) => dma.lock = Token(h)
    BY ProgramSound, OwnsIsOwning DEF HartsHold, StagingExclusive
  <2>3. /\ firmware' = firmware
        /\ DOMAIN dma' = Registers
        /\ harts' = [h \in Harts |-> IF h \in ev THEN HartAfter(h) ELSE harts[h]]
        /\ HartEvent(ev) = {} => dma'.lock = dma.lock
        /\ \A h \in HartEvent(ev) : dma'.lock = LockBy(h) /\ \A g \in HartEvent(ev) : g = h
    BY <2>1, <2>2, EdgeHarts
  <2>4. Harts' = Harts /\ DOMAIN harts' = Harts
    BY <2>3 DEF Harts, Program
  <2>5. \A h \in Harts : harts'[h].pc = IF h \in ev THEN NextPc(h) ELSE harts[h].pc
    BY <2>3 DEF HartAfter
  <2>6. \A h \in Harts : harts'[h].pc \in 1 .. Len(Program[firmware][h])
    BY <2>2, <2>5, HartGoes
  <2>7. \A g, h \in Harts : Token(g) # 0 /\ (g # h => Token(g) # Token(h))
    BY <2>2 DEF Token
  <2>8. ASSUME NEW h \in Harts, Owning(Program[firmware][h], harts'[h].pc)
        PROVE  dma'.lock = Token(h)
    <3>1. CASE h \in ev
      <4>1. h \in HartEvent(ev) /\ dma'.lock = LockBy(h)
        BY <2>3, <3>1 DEF HartEvent
      <4>2. /\ NextPc(h) = harts[h].pc + 1
            /\ Instruction(h) = "check" => Proceeds(h, "check")
        BY <2>5, <2>8, <3>1, HartGoes
      <4>3. Instruction(h) = "check"
            \/ (Owning(Program[firmware][h], harts[h].pc) /\ Instruction(h) # "unlock")
        BY <2>2, <2>5, <2>8, <3>1, <4>2, OwningNext DEF Instruction
      <4>4. dma.lock = Token(h) /\ Instruction(h) # "unlock"
        BY <2>2, <4>2, <4>3 DEF Proceeds
      <4>5. QED
        BY <4>1, <4>4 DEF LockBy
    <3>2. CASE h \notin ev
      <4>1. Owning(Program[firmware][h], harts[h].pc) /\ dma.lock = Token(h)
        BY <2>2, <2>5, <2>8, <3>2
      <4>2. CASE HartEvent(ev) = {}
        BY <2>3, <4>1, <4>2
      <4>3. ASSUME NEW g \in HartEvent(ev) PROVE dma'.lock = dma.lock
        <5>1. g \in Harts /\ g # h /\ dma'.lock = LockBy(g)
          BY <2>3, <3>2, <4>3 DEF HartEvent
        <5>2. Instruction(g) # "unlock"
          BY <2>2, <2>7, <4>1, <5>1 DEF Sound, Instruction
        <5>3. ~MayLock(dma, Token(g))
          BY <2>7, <4>1, <5>1 DEF MayLock
        <5>4. QED
          BY <5>1, <5>2, <5>3 DEF LockBy
      <4>4. QED
        BY <4>1, <4>2, <4>3
    <3>3. QED
      BY <3>1, <3>2
  <2>9. StagingExclusive'
    <3>1. SUFFICES ASSUME NEW h \in Harts', Owns(h)' PROVE dma'.lock = Token(h)
      BY DEF StagingExclusive, Token
    <3>2. Owning(Program[firmware][h], harts'[h].pc)
      BY <2>3, <3>1, OwnsIsOwningNext
    <3>3. QED
      BY <2>4, <2>8, <3>1, <3>2
  <2>10. QED
    BY <2>2, <2>3, <2>4, <2>6, <2>9 DEF HartsHold, Program
<1>3. QED
  BY <1>1, <1>2 DEF Next, Rest

(* At the start no hart has come to its lock. *)
LEMMA StagingInit ==
  ASSUME ClusterAssumption, ClusterInit
  PROVE  HartsHold
<1>1. firmware \in DOMAIN Plans /\ DOMAIN dma = Registers
  BY DEF ClusterInit, Registers
<1>2. DOMAIN harts = Harts /\ \A h \in Harts : harts[h].pc = 1
  BY DEF ClusterInit, Harts
<1>3. \A h \in Harts : Sound(firmware, Program[firmware][h])
  BY <1>1, ProgramSound
<1>4. QED
  BY <1>1, <1>2, <1>3, OwnsIsOwning DEF HartsHold, StagingExclusive, Sound

(* For every plan, and every size of the queues: between taking the lock   *)
(* and giving it back a hart is the only one that owns the staged          *)
(* registers.                                                              *)
THEOREM StagingIsExclusive ==
  ASSUME ClusterAssumption
  PROVE  Spec => []StagingExclusive
<1>1. ClusterInit => HartsHold
  BY StagingInit
<1>2. HartsHold /\ [Next]_vars => HartsHold'
  BY StagingNext
<1>3. HartsHold => StagingExclusive
  BY DEF HartsHold
<1>4. QED
  BY <1>1, <1>2, <1>3, PTL DEF Spec

-----------------------------------------------------------------------------
(* The lower memory and its two masters.                                   *)

(* The engine waits for a line of the packet ring. *)
ReadsDDR(d) == d.state = "READ_DATA" /\ ReadsRing(d)

(* Which part of an access everyone is in, by the state of the arbiter. *)
Unserved == dma.backing_state \in {"IDLE", "ADDRESS"}
CpuUnserved == cpu.state \in {"IDLE", "AR", "AW"}

WritesFor(packet_state, cpu_state) ==
  /\ ~ReadsDDR(dma)
  /\ IF arbiter.packet_owner
     THEN dma.backing_state = packet_state /\ CpuUnserved
          /\ ddr4.address = Head(dma.backing).address
     ELSE Unserved /\ cpu.state = cpu_state /\ ddr4.address = CpuAddress

AccessHolds ==
  \/ /\ arbiter.state = "IDLE" /\ ddr4.state = "IDLE"
     /\ ~ReadsDDR(dma) /\ Unserved /\ CpuUnserved
  \/ /\ arbiter.state = "WRITE_DATA" /\ ddr4.state = "WAIT_WRITE_DATA"
     /\ WritesFor("DATA", "W")
  \/ /\ arbiter.state = "WRITE_RESPONSE" /\ ddr4.state \in {"WRITE_WORD", "WRITE_RESPONSE"}
     /\ WritesFor("RESPONSE", "B")
  \/ /\ arbiter.state = "READ_DATA" /\ ddr4.state \in {"READ_WORD", "READ_WAIT", "READ_RESPONSE"}
     /\ Unserved
     /\ IF arbiter.packet_owner THEN ReadsDDR(dma) /\ CpuUnserved
        ELSE ~ReadsDDR(dma) /\ cpu.state = "R"

(* How the engine comes to wait for a line of the ring, and how it ends.   *)
WillReadDDR(d, backing) ==
  \/ d.state = "READ_ADDRESS" /\ ReadsRing(d) /\ backing.arready
  \/ ReadsDDR(d) /\ ~backing.rvalid

(* It does so. *)
LEMMA EngineReads ==
  ASSUME NEW d, NEW e, NEW in, DOMAIN e = Registers, e.state = d.state, e.active = d.active
  PROVE  ReadsDDR(Engine(d, e, in)) <=> WillReadDDR(d, in.backing)
<1> DEFINE f == Engine(d, e, in)
           memory == IF ReadsRing(d) THEN in.backing ELSE in.l2
<1>1. CASE d.state = "READ_ADDRESS"
  <2>1. f = IF memory.arready THEN [e EXCEPT !.state = "READ_DATA"] ELSE e
    BY <1>1 DEF Engine
  <2>2. QED
    BY <1>1, <2>1, RegisterNames DEF WillReadDDR, ReadsDDR, ReadsRing, Is, Flag
<1>2. CASE d.state = "READ_DATA"
  <2>1. CASE memory.rvalid
    <3>1. f = [e EXCEPT !.state = "SEND_OUTPUT",
                        !.beat = [data |-> memory.rdata, sop |-> d.moved = 0,
                                  eop |-> remaining(d) <= 1]]
      BY <1>2, <2>1 DEF Engine
    <3>2. f.state = "SEND_OUTPUT"
      BY <3>1, RegisterNames
    <3>3. QED
      BY <1>2, <2>1, <3>2 DEF WillReadDDR, ReadsDDR
  <2>2. CASE ~memory.rvalid
    <3>1. f = e
      BY <1>2, <2>2 DEF Engine
    <3>2. QED
      BY <1>2, <2>2, <3>1 DEF WillReadDDR, ReadsDDR, ReadsRing, Is, Flag
  <2>3. QED
    BY <2>1, <2>2
<1>3. CASE d.state \notin {"READ_ADDRESS", "READ_DATA"}
  <2>1. \A g, beat, error, state :
          /\ DOMAIN g = Registers /\ g.state # "READ_DATA" /\ state # "READ_DATA"
          => /\ Moved(d, g, beat, state).state # "READ_DATA"
             /\ Moved(d, Noted(g, error), beat, state).state # "READ_DATA"
    BY RegisterNames DEF Moved, Noted, Complete
  <2>2. WaitInput(d, e, in).state # "READ_DATA"
    <3> DEFINE input == IF Is(d, "NETWORK_CPU") THEN in.rx ELSE in.system_rx
               error == BeatError(d.moved, d.active.LENGTH, input)
               moved == Moved(d, Noted(e, error), input, "WAIT_INPUT")
               taken == [Noted(e, input.sop # (d.moved = 0)) EXCEPT
                           !.beat = input, !.state = "WRITE_ADDRESS"]
    <3>1. WaitInput(d, e, in) \in {e, moved, taken}
      BY DEF WaitInput
    <3>2. moved.state # "READ_DATA"
      <4> HIDE DEF error, input
      <4>1. QED
        BY <1>3, <2>1
    <3>3. taken.state # "READ_DATA"
      <4>1. DOMAIN Noted(e, input.sop # (d.moved = 0)) = Registers
        BY NotedKeeps DEF Keeps
      <4>2. QED
        BY <4>1, RegisterNames
    <3> HIDE DEF moved, taken
    <3>4. QED
      BY <1>3, <3>1, <3>2, <3>3
  <2>3. SendOutput(d, e, IF Is(d, "CPU_SYSTEM") THEN in.system_tx_ready
                         ELSE in.network_tx_ready).state # "READ_DATA"
    BY <1>3, <2>1, RegisterNames DEF SendOutput
  <2>4. Start(d, e).state # "READ_DATA"
    BY <1>3, RegisterNames DEF Start
  <2>5. f.state # "READ_DATA"
    BY <1>3, <2>1, <2>2, <2>3, <2>4, RegisterNames DEF Engine, Complete
  <2>6. QED
    BY <1>3, <2>5 DEF WillReadDDR, ReadsDDR
<1>4. QED
  BY <1>1, <1>2, <1>3

(* A queue of some kind of lines. *)
Queue(q) == \E S : q \in Seq(S)

(* One longer, or the same. *)
Grown(q, r) == r = q \/ \E x : r = Append(q, x)

(* A longer queue keeps its head. *)
LEMMA GrownQueue ==
  ASSUME NEW q, NEW r, Queue(q), Grown(q, r)
  PROVE  /\ Queue(r) /\ (q # << >> => r # << >> /\ Head(r) = Head(q))
         /\ Len(r) \in Nat /\ Len(q) \in Nat /\ Len(r) >= Len(q)
<1>1. PICK S : q \in Seq(S)
  BY DEF Queue
<1>2. CASE r = q
  BY <1>1, <1>2
<1>3. ASSUME NEW x, r = Append(q, x)
      PROVE  /\ Queue(r) /\ (q # << >> => r # << >> /\ Head(r) = Head(q))
             /\ Len(r) \in Nat /\ Len(q) \in Nat /\ Len(r) >= Len(q)
  <2>1. q \in Seq(S \cup {x}) /\ x \in S \cup {x}
    BY <1>1
  <2>2. r \in Seq(S \cup {x})
    BY <1>3, <2>1
  <2>3. QED
    BY <1>3, <2>1, <2>2 DEF Queue
<1>4. QED
  BY <1>2, <1>3 DEF Grown

(* What is left of a queue of more than one line is not empty. *)
LEMMA TailQueue ==
  ASSUME NEW q, Queue(q), Len(q) > 1
  PROVE  Queue(Tail(q)) /\ Tail(q) # << >>
<1>1. PICK S : q \in Seq(S)
  BY DEF Queue
<1>2. Tail(q) \in Seq(S) /\ Len(Tail(q)) = Len(q) - 1 /\ Len(Tail(q)) > 0
  BY <1>1
<1>3. Len(<< >>) = 0
  OBVIOUS
<1>4. Queue(Tail(q))
  BY <1>2, Zenon DEF Queue
<1> DEFINE t == Tail(q)
<1>5. Queue(t) /\ Len(t) > 0
  BY <1>2, <1>4
<1> HIDE DEF t
<1>6. Queue(t) /\ t # << >>
  BY <1>3, <1>5
<1>7. QED
  BY <1>6 DEF t

(* What is left of a queue is a queue. *)
LEMMA LastTail ==
  ASSUME NEW q, Queue(q), q # << >>
  PROVE  Queue(Tail(q))
BY DEF Queue

(* Where the backing writer goes from each of its states. *)
BackingGoes(d, f, backing) ==
  CASE d.backing_state = "IDLE" -> f.backing_state \in {"IDLE", "ADDRESS"}
    [] d.backing_state = "ADDRESS" ->
         f.backing_state = IF ~backing.awready THEN "ADDRESS"
                           ELSE IF backing.wready THEN "RESPONSE" ELSE "DATA"
    [] d.backing_state = "DATA" ->
         f.backing_state = IF backing.wready THEN "RESPONSE" ELSE "DATA"
    [] d.backing_state = "RESPONSE" ->
         IF backing.bvalid THEN f.backing_state \in {"IDLE", "ADDRESS"}
         ELSE f.backing_state = "RESPONSE"

BackingSound(d) ==
  /\ Queue(d.backing)
  /\ d.backing_state \in {"IDLE", "ADDRESS", "DATA", "RESPONSE"}
  /\ d.backing_state # "IDLE" => d.backing # << >>

Stored(d, backing) == d.backing_state = "RESPONSE" /\ backing.bvalid

HeadStays(d, f, backing) ==
  d.backing # << >> /\ ~Stored(d, backing) =>
    f.backing # << >> /\ Head(f.backing) = Head(d.backing)

(* The writer of DDR follows the handshakes, never works on an empty       *)
(* queue, and keeps its line until the response.                           *)
LEMMA BackingWriteGoes ==
  ASSUME NEW d, NEW a, NEW in, DOMAIN a = Registers, BackingSound(d),
         Grown(d.backing, a.backing), a.backing_state = d.backing_state
  PROVE  LET b == BackingWrite(d, a, in)
         IN  BackingSound(b) /\ BackingGoes(d, b, in.backing) /\ HeadStays(d, b, in.backing)
<1> DEFINE b == BackingWrite(d, a, in)
<1> SUFFICES BackingSound(b) /\ BackingGoes(d, b, in.backing) /\ HeadStays(d, b, in.backing)
  OBVIOUS
<1> USE DEF Stored
<1>1. /\ Queue(a.backing) /\ (d.backing # << >> => a.backing # << >>)
      /\ d.backing # << >> => Head(a.backing) = Head(d.backing)
  BY GrownQueue DEF BackingSound
<1>2. CASE d.backing_state = "IDLE"
  <2>1. b = IF a.backing # << >> THEN [a EXCEPT !.backing_state = "ADDRESS"] ELSE a
    BY <1>2 DEF BackingWrite
  <2>2. b.backing = a.backing
        /\ b.backing_state = IF a.backing # << >> THEN "ADDRESS" ELSE "IDLE"
    BY <1>2, <2>1, RegisterNames
  <2> HIDE DEF b
  <2>3. QED
    BY <1>1, <1>2, <2>2 DEF BackingSound, BackingGoes, HeadStays
<1>3. CASE d.backing_state = "ADDRESS"
  <2>1. backing_dma(d).aw
    BY <1>3 DEF backing_dma, Request, BackingSound
  <2>2. b = IF in.backing.awready
            THEN [a EXCEPT !.backing_state = IF in.backing.wready THEN "RESPONSE" ELSE "DATA"]
            ELSE a
    BY <1>3, <2>1 DEF BackingWrite
  <2>3. b.backing = a.backing
        /\ b.backing_state = IF ~in.backing.awready THEN "ADDRESS"
                             ELSE IF in.backing.wready THEN "RESPONSE" ELSE "DATA"
    BY <1>3, <2>2, RegisterNames
  <2> HIDE DEF b
  <2>4. QED
    BY <1>1, <1>3, <2>3 DEF BackingSound, BackingGoes, HeadStays
<1>4. CASE d.backing_state = "DATA"
  <2>1. backing_dma(d).w
    BY <1>4 DEF backing_dma, Request, BackingSound
  <2>2. b = IF in.backing.wready THEN [a EXCEPT !.backing_state = "RESPONSE"] ELSE a
    BY <1>4, <2>1 DEF BackingWrite
  <2>3. b.backing = a.backing
        /\ b.backing_state = IF in.backing.wready THEN "RESPONSE" ELSE "DATA"
    BY <1>4, <2>2, RegisterNames
  <2> HIDE DEF b
  <2>4. QED
    BY <1>1, <1>4, <2>3 DEF BackingSound, BackingGoes, HeadStays
<1>5. CASE d.backing_state = "RESPONSE" /\ in.backing.bvalid
  <2>1. b.backing = Tail(a.backing)
        /\ b.backing_state = IF Len(a.backing) > 1 THEN "ADDRESS" ELSE "IDLE"
    BY <1>5, RegisterNames DEF BackingWrite
  <2> HIDE DEF b
  <2>2. Queue(b.backing) /\ (b.backing_state = "ADDRESS" => b.backing # << >>)
    BY <1>1, <1>5, <2>1, TailQueue, LastTail DEF BackingSound
  <2>3. QED
    BY <1>5, <2>1, <2>2 DEF BackingSound, BackingGoes, HeadStays
<1>6. CASE d.backing_state = "RESPONSE" /\ ~in.backing.bvalid
  <2>1. b = a
    BY <1>6 DEF BackingWrite
  <2> HIDE DEF b
  <2>2. QED
    BY <1>1, <1>6, <2>1 DEF BackingSound, BackingGoes, HeadStays
<1> HIDE DEF b
<1>7. QED
  BY <1>2, <1>3, <1>4, <1>5, <1>6 DEF BackingSound

(* What an edge does with the registers the lower memory sees.             *)
LEMMA MemorySide ==
  ASSUME NEW d, NEW in, DOMAIN d = Registers, BackingSound(d)
  PROVE  LET f == DMAEdge(d, in)
         IN  /\ DOMAIN f = Registers
             /\ BackingSound(f) /\ BackingGoes(d, f, in.backing) /\ HeadStays(d, f, in.backing)
             /\ ReadsDDR(f) <=> WillReadDDR(d, in.backing)
<1> DEFINE a == BackingPush(d, d, in)
           b == BackingWrite(d, a, in)
           c == Prefetch(d, b, in)
           s == DMAStore(d, c, in)
           p == Push(d, s, in)
           e == Engine(d, p, in)
           f == PairCommits(e, in.commit)
           waits == WillReadDDR(d, in.backing)
<1>1. /\ DOMAIN a = Registers /\ a.backing_state = d.backing_state
      /\ a.state = d.state /\ a.active = d.active /\ Grown(d.backing, a.backing)
  <2>1. Grown(d.backing, a.backing)
    BY RegisterNames DEF BackingPush, Grown
  <2>2. QED
    BY <2>1, BackingPushKeeps, RegisterNames DEF Keeps
<1>2. /\ DOMAIN b = Registers /\ b.state = d.state /\ b.active = d.active
      /\ BackingSound(b) /\ BackingGoes(d, b, in.backing) /\ HeadStays(d, b, in.backing)
  <2> HIDE DEF a
  <2>1. Keeps(a, b, {"backing_state", "backing", "clear_completed", "backing_commits"})
    BY <1>1, BackingWriteKeeps
  <2>2. DOMAIN b = Registers /\ b.state = d.state /\ b.active = d.active
    BY <1>1, <2>1, RegisterNames DEF Keeps
  <2>3. QED
    BY <1>1, <2>2, BackingWriteGoes
<1>3. /\ DOMAIN c = Registers /\ c.state = d.state /\ c.active = d.active
      /\ c.backing = b.backing /\ c.backing_state = b.backing_state
  <2> HIDE DEF b
  <2>1. QED
    BY <1>2, PrefetchKeeps, RegisterNames DEF Keeps
<1>4. /\ DOMAIN s = Registers /\ s.state = d.state /\ s.active = d.active
      /\ Grown(b.backing, s.backing) /\ s.backing_state = b.backing_state
  <2> HIDE DEF c
  <2>1. Grown(c.backing, s.backing)
    BY <1>3, RegisterNames DEF DMAStore, Noted, Grown
  <2>2. QED
    BY <1>3, <2>1, DMAStoreKeeps, RegisterNames DEF Keeps
<1>5. /\ DOMAIN p = Registers /\ p.state = d.state /\ p.active = d.active
      /\ p.backing = s.backing /\ p.backing_state = s.backing_state
  <2> HIDE DEF s
  <2>1. QED
    BY <1>4, PushKeeps, RegisterNames DEF Keeps
<1>6. /\ DOMAIN e = Registers /\ (ReadsDDR(e) <=> waits)
      /\ e.backing = s.backing /\ e.backing_state = s.backing_state
  <2> HIDE DEF p
  <2>1. Keeps(p, e, EngineRegisters)
    BY <1>5, EngineKeeps
  <2>2. ReadsDDR(e) <=> waits
    BY <1>5, EngineReads
  <2>3. QED
    BY <1>5, <2>1, <2>2, RegisterNames DEF Keeps, EngineRegisters
<1>7. /\ DOMAIN f = Registers /\ (ReadsDDR(f) <=> waits)
      /\ f.backing = s.backing /\ f.backing_state = b.backing_state
  <2> HIDE DEF e
  <2>1. Keeps(e, f, {"l2_commits", "backing_commits", "cache_completed"})
    BY <1>6, PairCommitsKeeps
  <2>2. f.state = e.state /\ f.active = e.active
    BY <1>6, <2>1, RegisterNames DEF Keeps
  <2>3. ReadsDDR(f) <=> ReadsDDR(e)
    BY <2>2 DEF ReadsDDR, ReadsRing, Is, Flag
  <2>4. QED
    BY <1>4, <1>6, <2>1, <2>3, RegisterNames DEF Keeps
<1>8. f = DMAEdge(d, in)
  BY DEF DMAEdge
<1> HIDE DEF b, s, f, waits
<1>9. /\ Queue(s.backing) /\ (b.backing # << >> => s.backing # << >>)
      /\ b.backing # << >> => Head(s.backing) = Head(b.backing)
  BY <1>2, <1>4, GrownQueue DEF BackingSound
<1>10. BackingSound(f) /\ BackingGoes(d, f, in.backing)
  BY <1>2, <1>7, <1>9 DEF BackingSound, BackingGoes
<1>11. HeadStays(d, f, in.backing)
  BY <1>2, <1>7, <1>9 DEF HeadStays, BackingSound, BackingGoes, Stored
<1>12. QED
  BY <1>7, <1>8, <1>10, <1>11 DEF waits

MemoryHolds ==
  /\ DOMAIN dma = Registers /\ BackingSound(dma)
  /\ DOMAIN cpu = {"state", "left"}
  /\ DOMAIN arbiter = {"state", "packet_owner"} /\ arbiter.packet_owner \in BOOLEAN
  /\ DOMAIN ddr4 = {"state", "address", "word", "data"}
  /\ AccessHolds

(* What the packet master shows, by its state. *)
LEMMA PacketShows ==
  ASSUME NEW d, BackingSound(d)
  PROVE  LET packet == backing_dma(d)
         IN  /\ packet.ar <=> d.state = "READ_ADDRESS" /\ ReadsRing(d)
             /\ packet.r <=> ReadsDDR(d)
             /\ packet.aw <=> d.backing_state = "ADDRESS"
             /\ packet.w <=> d.backing_state \in {"ADDRESS", "DATA"}
             /\ packet.b <=> d.backing_state = "RESPONSE"
             /\ packet.aw /\ ~packet.ar => packet.address = Head(d.backing).address
BY DEF backing_dma, Request, BackingSound, ReadsDDR

(* What the CPU shows, by its state. *)
LEMMA CpuShows ==
  /\ CpuRequest.ar <=> cpu.state = "AR"
  /\ CpuRequest.aw <=> cpu.state = "AW"
  /\ CpuRequest.w <=> cpu.state = "W"
  /\ CpuRequest.r <=> cpu.state = "R"
  /\ CpuRequest.b <=> cpu.state = "B"
  /\ CpuRequest.address = CpuAddress
BY DEF CpuRequest, Idle

(* An edge as the lower memory sees it. *)
MemoryEdge(packet, ddr_answers, line, started) ==
  LET to == ToMemory(arbiter, CpuRequest, packet)
      from == FromDDR4(ddr4, to)
      backing == ToPacket(arbiter, CpuRequest, packet, from)
  IN  /\ arbiter' = ArbiterEdge(arbiter, CpuRequest, packet, from)
      /\ ddr4' = DDR4Edge(ddr4, to, ddr_answers, line)
      /\ cpu' = CpuEdge(started, ToCpu(arbiter, CpuRequest, packet, from))
      /\ DOMAIN dma' = Registers /\ BackingSound(dma')
      /\ BackingGoes(dma, dma', backing) /\ HeadStays(dma, dma', backing)
      /\ ReadsDDR(dma') <=> WillReadDDR(dma, backing)

(* An edge of the cluster is one of the memory and its two masters. *)
LEMMA EdgeMemory ==
  ASSUME NEW ev, Edge(ev), DOMAIN dma = Registers, BackingSound(dma)
  PROVE  \E ddr_answers, line, started :
           MemoryEdge(backing_dma(dma), ddr_answers, line, started)
<1> DEFINE packet == backing_dma(dma)
           to == ToMemory(arbiter, CpuRequest, packet)
           from == FromDDR4(ddr4, to)
           backing == ToPacket(arbiter, CpuRequest, packet, from)
           in == Input(StoreAt(ev), ev, L2Answer(ev), backing)
           answers == "ddr" \in ev
           started == "cpu" \in ev
           line == IF ddr4.address \in Addresses THEN ddr[ddr4.address] ELSE Zero
<1>1. /\ dma' = DMAEdge(dma, in)
      /\ arbiter' = ArbiterEdge(arbiter, CpuRequest, packet, from)
      /\ ddr4' = DDR4Edge(ddr4, to, answers, line)
      /\ cpu' = CpuEdge(started, ToCpu(arbiter, CpuRequest, packet, from))
  BY DEF Edge
<1>2. in.backing = backing
  BY DEF Input
<1> HIDE DEF in, answers, started, line
<1> DEFINE f == DMAEdge(dma, in)
<1>3. /\ DOMAIN f = Registers /\ BackingSound(f)
      /\ BackingGoes(dma, f, in.backing) /\ HeadStays(dma, f, in.backing)
      /\ ReadsDDR(f) <=> WillReadDDR(dma, in.backing)
  BY MemorySide
<1>4. dma' = f
  BY <1>1
<1> HIDE DEF f
<1>5. /\ DOMAIN dma' = Registers /\ BackingSound(dma')
      /\ BackingGoes(dma, dma', backing) /\ HeadStays(dma, dma', backing)
      /\ ReadsDDR(dma') <=> WillReadDDR(dma, backing)
  BY <1>2, <1>3, <1>4
<1>6. MemoryEdge(packet, answers, line, started)
  BY <1>1, <1>5 DEF MemoryEdge
<1>7. QED
  BY <1>6

(* An access passes from one phase to the next for arbiter, memory and     *)
(* owner together: no handshake is seen by one side alone.                 *)
LEMMA AccessNext ==
  ASSUME MemoryHolds, NEW ddr_answers, NEW line, NEW started,
         MemoryEdge(backing_dma(dma), ddr_answers, line, started)
  PROVE  MemoryHolds'
<1> DEFINE packet == backing_dma(dma)
           to == ToMemory(arbiter, CpuRequest, packet)
           from == FromDDR4(ddr4, to)
           backing == ToPacket(arbiter, CpuRequest, packet, from)
           tocpu == ToCpu(arbiter, CpuRequest, packet, from)
<1>1. /\ packet.ar <=> dma.state = "READ_ADDRESS" /\ ReadsRing(dma)
      /\ packet.r <=> ReadsDDR(dma)
      /\ packet.aw <=> dma.backing_state = "ADDRESS"
      /\ packet.w <=> dma.backing_state \in {"ADDRESS", "DATA"}
      /\ packet.b <=> dma.backing_state = "RESPONSE"
      /\ packet.aw /\ ~packet.ar => packet.address = Head(dma.backing).address
  BY PacketShows DEF MemoryHolds
<1>2. /\ arbiter' = ArbiterEdge(arbiter, CpuRequest, packet, from)
      /\ ddr4' = DDR4Edge(ddr4, to, ddr_answers, line)
      /\ cpu' = CpuEdge(started, tocpu)
      /\ DOMAIN dma' = Registers /\ BackingSound(dma')
      /\ BackingGoes(dma, dma', backing) /\ HeadStays(dma, dma', backing)
      /\ ReadsDDR(dma') <=> WillReadDDR(dma, backing)
  BY DEF MemoryEdge
<1> HIDE DEF packet
<1>3. /\ DOMAIN cpu = {"state", "left"} /\ DOMAIN arbiter = {"state", "packet_owner"}
      /\ arbiter.packet_owner \in BOOLEAN /\ BackingSound(dma)
      /\ DOMAIN ddr4 = {"state", "address", "word", "data"} /\ AccessHolds
  BY DEF MemoryHolds
<1>4. /\ DOMAIN cpu' = {"state", "left"}
      /\ DOMAIN ddr4' = {"state", "address", "word", "data"}
  <2>1. DOMAIN cpu' = {"state", "left"}
    BY <1>2, <1>3 DEF CpuEdge
  <2>2. DOMAIN ddr4' = {"state", "address", "word", "data"}
    BY <1>2, <1>3 DEF DDR4Edge
  <2>3. QED
    BY <2>1, <2>2
<1>5. DOMAIN arbiter' = {"state", "packet_owner"} /\ arbiter'.packet_owner \in BOOLEAN
  BY <1>2, <1>3 DEF ArbiterEdge
<1>6. /\ CpuRequest.ar <=> cpu.state = "AR"
      /\ CpuRequest.aw <=> cpu.state = "AW"
      /\ CpuRequest.w <=> cpu.state = "W"
      /\ CpuRequest.r <=> cpu.state = "R"
      /\ CpuRequest.b <=> cpu.state = "B"
      /\ CpuRequest.address = CpuAddress
  BY CpuShows
<1>7. arbiter' =
        CASE arbiter.state = "IDLE" /\ tocpu.arready ->
               [state |-> "READ_DATA", packet_owner |-> FALSE]
          [] arbiter.state = "IDLE" /\ backing.arready ->
               [state |-> "READ_DATA", packet_owner |-> TRUE]
          [] arbiter.state = "IDLE" /\ tocpu.awready ->
               [state |-> "WRITE_DATA", packet_owner |-> FALSE]
          [] arbiter.state = "IDLE" /\ backing.awready ->
               [state |-> IF packet.w /\ from.wready
                          THEN "WRITE_RESPONSE" ELSE "WRITE_DATA",
                packet_owner |-> TRUE]
          [] arbiter.state = "WRITE_DATA" /\ to.w /\ from.wready ->
               [arbiter EXCEPT !.state = "WRITE_RESPONSE"]
          [] arbiter.state = "WRITE_RESPONSE" /\ to.b /\ from.bvalid ->
               [arbiter EXCEPT !.state = "IDLE"]
          [] arbiter.state = "READ_DATA" /\ to.r /\ from.rvalid ->
               [arbiter EXCEPT !.state = "IDLE"]
          [] OTHER -> arbiter
  BY <1>2 DEF ArbiterEdge
<1>8. AccessHolds'
  <2>1. CASE /\ arbiter.state = "IDLE" /\ ddr4.state = "IDLE"
             /\ ~ReadsDDR(dma) /\ Unserved /\ CpuUnserved
    <3>1. CASE cpu.state = "AR"
      <4>1. /\ ~backing.awready /\ ~backing.wready /\ ~backing.bvalid /\ ~backing.arready /\ ~backing.rvalid
            /\ tocpu.arready /\ ~tocpu.awready /\ to.ar /\ ~to.aw
        BY <1>1, <1>6, <2>1, <3>1
        DEF WritesFor, Unserved, CpuUnserved,
           ToMemory, ToPacket, ToCpu, FromDDR4, cpu_ar_selected, packet_ar_selected,
           cpu_aw_selected, packet_aw_selected
      <4> HIDE DEF to, from, backing, tocpu
      <4>2. arbiter'.state = "READ_DATA" /\ ~arbiter'.packet_owner
        BY <1>3, <1>7, <2>1, <3>1, <4>1
      <4>3. ddr4'.state = "READ_WORD"
        BY <1>2, <1>3, <2>1, <3>1, <4>1 DEF DDR4Edge, WritesFor
      <4>4. cpu'.state = "R"
        BY <1>2, <1>3, <2>1, <3>1, <4>1 DEF CpuEdge, CpuUnserved, WritesFor
      <4>5. dma'.backing_state \in {"IDLE", "ADDRESS"} /\ ~ReadsDDR(dma')
        BY <1>1, <1>2, <1>3, <2>1, <3>1, <4>1
        DEF Unserved, BackingGoes, HeadStays, Stored, BackingSound, WillReadDDR, WritesFor, ReadsDDR
      <4>6. QED
        BY <4>2, <4>3, <4>4, <4>5 DEF AccessHolds, WritesFor, Unserved, CpuUnserved
    <3>2. CASE cpu.state # "AR" /\ packet.ar
      <4>1. /\ ~backing.awready /\ ~backing.wready /\ ~backing.bvalid /\ backing.arready
            /\ ~tocpu.awready /\ ~tocpu.wready /\ ~tocpu.bvalid /\ ~tocpu.arready /\ ~tocpu.rvalid
            /\ to.ar /\ ~to.aw
        BY <1>1, <1>6, <2>1, <3>2
        DEF WritesFor, Unserved, CpuUnserved,
           ToMemory, ToPacket, ToCpu, FromDDR4, cpu_ar_selected, packet_ar_selected,
           cpu_aw_selected, packet_aw_selected
      <4> HIDE DEF to, from, backing, tocpu
      <4>2. arbiter'.state = "READ_DATA" /\ arbiter'.packet_owner
        BY <1>3, <1>7, <2>1, <3>2, <4>1
      <4>3. ddr4'.state = "READ_WORD"
        BY <1>2, <1>3, <2>1, <3>2, <4>1 DEF DDR4Edge, WritesFor
      <4>4. cpu'.state \in {"IDLE", "AR", "AW"}
        BY <1>2, <1>3, <2>1, <3>2, <4>1 DEF CpuEdge, CpuUnserved, WritesFor
      <4>5. dma'.backing_state \in {"IDLE", "ADDRESS"} /\ ReadsDDR(dma')
        BY <1>1, <1>2, <1>3, <2>1, <3>2, <4>1
        DEF Unserved, BackingGoes, HeadStays, Stored, BackingSound, WillReadDDR, WritesFor, ReadsDDR
      <4>6. QED
        BY <4>2, <4>3, <4>4, <4>5 DEF AccessHolds, WritesFor, Unserved, CpuUnserved
    <3>3. CASE cpu.state = "AW" /\ ~packet.ar
      <4>1. /\ ~backing.awready /\ ~backing.wready /\ ~backing.bvalid /\ ~backing.arready /\ ~backing.rvalid
            /\ tocpu.awready /\ ~tocpu.arready /\ to.aw /\ to.address = CpuAddress
        BY <1>1, <1>6, <2>1, <3>3
        DEF WritesFor, Unserved, CpuUnserved,
           ToMemory, ToPacket, ToCpu, FromDDR4, cpu_ar_selected, packet_ar_selected,
           cpu_aw_selected, packet_aw_selected
      <4> HIDE DEF to, from, backing, tocpu
      <4>2. arbiter'.state = "WRITE_DATA" /\ ~arbiter'.packet_owner
        BY <1>3, <1>7, <2>1, <3>3, <4>1
      <4>3. ddr4'.state = "WAIT_WRITE_DATA" /\ ddr4'.address = CpuAddress
        BY <1>2, <1>3, <2>1, <3>3, <4>1 DEF DDR4Edge, WritesFor
      <4>4. cpu'.state = "W"
        BY <1>2, <1>3, <2>1, <3>3, <4>1 DEF CpuEdge, CpuUnserved, WritesFor
      <4>5. dma'.backing_state \in {"IDLE", "ADDRESS"} /\ ~ReadsDDR(dma')
        BY <1>1, <1>2, <1>3, <2>1, <3>3, <4>1
        DEF Unserved, BackingGoes, HeadStays, Stored, BackingSound, WillReadDDR, WritesFor, ReadsDDR
      <4>6. QED
        BY <4>2, <4>3, <4>4, <4>5 DEF AccessHolds, WritesFor, Unserved, CpuUnserved
    <3>4. CASE cpu.state = "IDLE" /\ ~packet.ar /\ dma.backing_state = "ADDRESS"
      <4>1. /\ backing.awready /\ ~backing.wready /\ ~backing.bvalid /\ ~backing.arready
            /\ ~tocpu.awready /\ ~tocpu.wready /\ ~tocpu.bvalid /\ ~tocpu.arready /\ ~tocpu.rvalid
            /\ to.aw /\ ~from.wready /\ to.address = Head(dma.backing).address
        BY <1>1, <1>6, <2>1, <3>4
        DEF WritesFor, Unserved, CpuUnserved,
           ToMemory, ToPacket, ToCpu, FromDDR4, cpu_ar_selected, packet_ar_selected,
           cpu_aw_selected, packet_aw_selected
      <4> HIDE DEF to, from, backing, tocpu
      <4>2. arbiter'.state = "WRITE_DATA" /\ arbiter'.packet_owner
        BY <1>3, <1>7, <2>1, <3>4, <4>1
      <4>3. ddr4'.state = "WAIT_WRITE_DATA" /\ ddr4'.address = Head(dma.backing).address
        BY <1>2, <1>3, <2>1, <3>4, <4>1 DEF DDR4Edge, WritesFor
      <4>4. cpu'.state \in {"IDLE", "AR", "AW"}
        BY <1>2, <1>3, <2>1, <3>4, <4>1 DEF CpuEdge, CpuUnserved, WritesFor
      <4>5. dma'.backing_state = "DATA" /\ dma'.backing # << >> /\ Head(dma'.backing) = Head(dma.backing) /\ ~ReadsDDR(dma')
        BY <1>1, <1>2, <1>3, <2>1, <3>4, <4>1
        DEF Unserved, BackingGoes, HeadStays, Stored, BackingSound, WillReadDDR, WritesFor, ReadsDDR
      <4>6. QED
        BY <4>2, <4>3, <4>4, <4>5 DEF AccessHolds, WritesFor, Unserved, CpuUnserved
    <3>5. CASE cpu.state = "IDLE" /\ ~packet.ar /\ dma.backing_state = "IDLE"
      <4>1. /\ ~backing.awready /\ ~backing.wready /\ ~backing.bvalid /\ ~backing.arready /\ ~backing.rvalid
            /\ ~tocpu.awready /\ ~tocpu.wready /\ ~tocpu.bvalid /\ ~tocpu.arready /\ ~tocpu.rvalid
            /\ ~to.aw /\ ~to.ar
        BY <1>1, <1>6, <2>1, <3>5
        DEF WritesFor, Unserved, CpuUnserved,
           ToMemory, ToPacket, ToCpu, FromDDR4, cpu_ar_selected, packet_ar_selected,
           cpu_aw_selected, packet_aw_selected
      <4> HIDE DEF to, from, backing, tocpu
      <4>2. arbiter'.state = "IDLE"
        BY <1>3, <1>7, <2>1, <3>5, <4>1
      <4>3. ddr4'.state = "IDLE"
        BY <1>2, <1>3, <2>1, <3>5, <4>1 DEF DDR4Edge, WritesFor
      <4>4. cpu'.state \in {"IDLE", "AR", "AW"}
        BY <1>2, <1>3, <2>1, <3>5, <4>1 DEF CpuEdge, CpuUnserved, WritesFor
      <4>5. dma'.backing_state \in {"IDLE", "ADDRESS"} /\ ~ReadsDDR(dma')
        BY <1>1, <1>2, <1>3, <2>1, <3>5, <4>1
        DEF Unserved, BackingGoes, HeadStays, Stored, BackingSound, WillReadDDR, WritesFor, ReadsDDR
      <4>6. QED
        BY <4>2, <4>3, <4>4, <4>5 DEF AccessHolds, WritesFor, Unserved, CpuUnserved
    <3>6. QED
      BY <2>1, <3>1, <3>2, <3>3, <3>4, <3>5 DEF CpuUnserved, Unserved
  <2>2. CASE /\ arbiter.state = "WRITE_DATA" /\ ddr4.state = "WAIT_WRITE_DATA"
             /\ WritesFor("DATA", "W")
    <3>1. CASE arbiter.packet_owner
      <4>1. /\ backing.wready /\ ~backing.bvalid /\ ~backing.arready
            /\ ~tocpu.awready /\ ~tocpu.wready /\ ~tocpu.bvalid /\ ~tocpu.arready /\ ~tocpu.rvalid
            /\ to.w /\ from.wready
        BY <1>1, <1>6, <2>2, <3>1
        DEF WritesFor, Unserved, CpuUnserved,
           ToMemory, ToPacket, ToCpu, FromDDR4, cpu_ar_selected, packet_ar_selected,
           cpu_aw_selected, packet_aw_selected
      <4> HIDE DEF to, from, backing, tocpu
      <4>2. arbiter'.state = "WRITE_RESPONSE" /\ arbiter'.packet_owner
        BY <1>3, <1>7, <2>2, <3>1, <4>1
      <4>3. ddr4'.state = "WRITE_WORD" /\ ddr4'.address = Head(dma.backing).address
        BY <1>2, <1>3, <2>2, <3>1, <4>1 DEF DDR4Edge, WritesFor
      <4>4. cpu'.state \in {"IDLE", "AR", "AW"}
        BY <1>2, <1>3, <2>2, <3>1, <4>1 DEF CpuEdge, CpuUnserved, WritesFor
      <4>5. dma'.backing_state = "RESPONSE" /\ dma'.backing # << >> /\ Head(dma'.backing) = Head(dma.backing) /\ ~ReadsDDR(dma')
        BY <1>1, <1>2, <1>3, <2>2, <3>1, <4>1
        DEF Unserved, BackingGoes, HeadStays, Stored, BackingSound, WillReadDDR, WritesFor, ReadsDDR
      <4>6. QED
        BY <4>2, <4>3, <4>4, <4>5 DEF AccessHolds, WritesFor, Unserved, CpuUnserved
    <3>2. CASE ~arbiter.packet_owner
      <4>1. /\ ~backing.awready /\ ~backing.wready /\ ~backing.bvalid /\ ~backing.arready /\ ~backing.rvalid
            /\ tocpu.wready /\ to.w /\ from.wready
        BY <1>1, <1>6, <2>2, <3>2
        DEF WritesFor, Unserved, CpuUnserved,
           ToMemory, ToPacket, ToCpu, FromDDR4, cpu_ar_selected, packet_ar_selected,
           cpu_aw_selected, packet_aw_selected
      <4> HIDE DEF to, from, backing, tocpu
      <4>2. arbiter'.state = "WRITE_RESPONSE" /\ ~arbiter'.packet_owner
        BY <1>3, <1>7, <2>2, <3>2, <4>1
      <4>3. ddr4'.state = "WRITE_WORD" /\ ddr4'.address = CpuAddress
        BY <1>2, <1>3, <2>2, <3>2, <4>1 DEF DDR4Edge, WritesFor
      <4>4. cpu'.state = "B"
        BY <1>2, <1>3, <2>2, <3>2, <4>1 DEF CpuEdge, CpuUnserved, WritesFor
      <4>5. dma'.backing_state \in {"IDLE", "ADDRESS"} /\ ~ReadsDDR(dma')
        BY <1>1, <1>2, <1>3, <2>2, <3>2, <4>1
        DEF Unserved, BackingGoes, HeadStays, Stored, BackingSound, WillReadDDR, WritesFor, ReadsDDR
      <4>6. QED
        BY <4>2, <4>3, <4>4, <4>5 DEF AccessHolds, WritesFor, Unserved, CpuUnserved
    <3>3. QED
      BY <3>1, <3>2
  <2>3. CASE /\ arbiter.state = "WRITE_RESPONSE" /\ ddr4.state \in {"WRITE_WORD", "WRITE_RESPONSE"}
             /\ WritesFor("RESPONSE", "B")
    <3>1. CASE arbiter.packet_owner /\ ddr4.state = "WRITE_RESPONSE"
      <4>1. /\ backing.bvalid /\ ~backing.arready
            /\ ~tocpu.awready /\ ~tocpu.wready /\ ~tocpu.bvalid /\ ~tocpu.arready /\ ~tocpu.rvalid
            /\ to.b /\ from.bvalid
        BY <1>1, <1>6, <2>3, <3>1
        DEF WritesFor, Unserved, CpuUnserved,
           ToMemory, ToPacket, ToCpu, FromDDR4, cpu_ar_selected, packet_ar_selected,
           cpu_aw_selected, packet_aw_selected
      <4> HIDE DEF to, from, backing, tocpu
      <4>2. arbiter'.state = "IDLE"
        BY <1>3, <1>7, <2>3, <3>1, <4>1
      <4>3. ddr4'.state = "IDLE"
        BY <1>2, <1>3, <2>3, <3>1, <4>1 DEF DDR4Edge, WritesFor
      <4>4. cpu'.state \in {"IDLE", "AR", "AW"}
        BY <1>2, <1>3, <2>3, <3>1, <4>1 DEF CpuEdge, CpuUnserved, WritesFor
      <4>5. dma'.backing_state \in {"IDLE", "ADDRESS"} /\ ~ReadsDDR(dma')
        BY <1>1, <1>2, <1>3, <2>3, <3>1, <4>1
        DEF Unserved, BackingGoes, HeadStays, Stored, BackingSound, WillReadDDR, WritesFor, ReadsDDR
      <4>6. QED
        BY <4>2, <4>3, <4>4, <4>5 DEF AccessHolds, WritesFor, Unserved, CpuUnserved
    <3>2. CASE ~arbiter.packet_owner /\ ddr4.state = "WRITE_RESPONSE"
      <4>1. /\ ~backing.awready /\ ~backing.wready /\ ~backing.bvalid /\ ~backing.arready /\ ~backing.rvalid
            /\ tocpu.bvalid /\ to.b /\ from.bvalid
        BY <1>1, <1>6, <2>3, <3>2
        DEF WritesFor, Unserved, CpuUnserved,
           ToMemory, ToPacket, ToCpu, FromDDR4, cpu_ar_selected, packet_ar_selected,
           cpu_aw_selected, packet_aw_selected
      <4> HIDE DEF to, from, backing, tocpu
      <4>2. arbiter'.state = "IDLE"
        BY <1>3, <1>7, <2>3, <3>2, <4>1
      <4>3. ddr4'.state = "IDLE"
        BY <1>2, <1>3, <2>3, <3>2, <4>1 DEF DDR4Edge, WritesFor
      <4>4. cpu'.state = "IDLE"
        BY <1>2, <1>3, <2>3, <3>2, <4>1 DEF CpuEdge, CpuUnserved, WritesFor
      <4>5. dma'.backing_state \in {"IDLE", "ADDRESS"} /\ ~ReadsDDR(dma')
        BY <1>1, <1>2, <1>3, <2>3, <3>2, <4>1
        DEF Unserved, BackingGoes, HeadStays, Stored, BackingSound, WillReadDDR, WritesFor, ReadsDDR
      <4>6. QED
        BY <4>2, <4>3, <4>4, <4>5 DEF AccessHolds, WritesFor, Unserved, CpuUnserved
    <3>3. CASE arbiter.packet_owner /\ ddr4.state = "WRITE_WORD"
      <4>1. /\ ~backing.bvalid /\ ~backing.arready
            /\ ~tocpu.awready /\ ~tocpu.wready /\ ~tocpu.bvalid /\ ~tocpu.arready /\ ~tocpu.rvalid
            /\ ~from.bvalid
        BY <1>1, <1>6, <2>3, <3>3
        DEF WritesFor, Unserved, CpuUnserved,
           ToMemory, ToPacket, ToCpu, FromDDR4, cpu_ar_selected, packet_ar_selected,
           cpu_aw_selected, packet_aw_selected
      <4> HIDE DEF to, from, backing, tocpu
      <4>2. arbiter'.state = "WRITE_RESPONSE" /\ arbiter'.packet_owner
        BY <1>3, <1>7, <2>3, <3>3, <4>1
      <4>3. ddr4'.state \in {"WRITE_WORD", "WRITE_RESPONSE"} /\ ddr4'.address = Head(dma.backing).address
        BY <1>2, <1>3, <2>3, <3>3, <4>1 DEF DDR4Edge, WritesFor
      <4>4. cpu'.state \in {"IDLE", "AR", "AW"}
        BY <1>2, <1>3, <2>3, <3>3, <4>1 DEF CpuEdge, CpuUnserved, WritesFor
      <4>5. dma'.backing_state = "RESPONSE" /\ dma'.backing # << >> /\ Head(dma'.backing) = Head(dma.backing) /\ ~ReadsDDR(dma')
        BY <1>1, <1>2, <1>3, <2>3, <3>3, <4>1
        DEF Unserved, BackingGoes, HeadStays, Stored, BackingSound, WillReadDDR, WritesFor, ReadsDDR
      <4>6. QED
        BY <4>2, <4>3, <4>4, <4>5 DEF AccessHolds, WritesFor, Unserved, CpuUnserved
    <3>4. CASE ~arbiter.packet_owner /\ ddr4.state = "WRITE_WORD"
      <4>1. /\ ~backing.awready /\ ~backing.wready /\ ~backing.bvalid /\ ~backing.arready /\ ~backing.rvalid
            /\ ~tocpu.bvalid /\ ~from.bvalid
        BY <1>1, <1>6, <2>3, <3>4
        DEF WritesFor, Unserved, CpuUnserved,
           ToMemory, ToPacket, ToCpu, FromDDR4, cpu_ar_selected, packet_ar_selected,
           cpu_aw_selected, packet_aw_selected
      <4> HIDE DEF to, from, backing, tocpu
      <4>2. arbiter'.state = "WRITE_RESPONSE" /\ ~arbiter'.packet_owner
        BY <1>3, <1>7, <2>3, <3>4, <4>1
      <4>3. ddr4'.state \in {"WRITE_WORD", "WRITE_RESPONSE"} /\ ddr4'.address = CpuAddress
        BY <1>2, <1>3, <2>3, <3>4, <4>1 DEF DDR4Edge, WritesFor
      <4>4. cpu'.state = "B"
        BY <1>2, <1>3, <2>3, <3>4, <4>1 DEF CpuEdge, CpuUnserved, WritesFor
      <4>5. dma'.backing_state \in {"IDLE", "ADDRESS"} /\ ~ReadsDDR(dma')
        BY <1>1, <1>2, <1>3, <2>3, <3>4, <4>1
        DEF Unserved, BackingGoes, HeadStays, Stored, BackingSound, WillReadDDR, WritesFor, ReadsDDR
      <4>6. QED
        BY <4>2, <4>3, <4>4, <4>5 DEF AccessHolds, WritesFor, Unserved, CpuUnserved
    <3>5. QED
      BY <2>3, <3>1, <3>2, <3>3, <3>4
  <2>4. CASE /\ arbiter.state = "READ_DATA"
             /\ ddr4.state \in {"READ_WORD", "READ_WAIT", "READ_RESPONSE"}
             /\ Unserved
             /\ IF arbiter.packet_owner THEN ReadsDDR(dma) /\ CpuUnserved
                ELSE ~ReadsDDR(dma) /\ cpu.state = "R"
    <3>1. CASE arbiter.packet_owner /\ ddr4.state = "READ_RESPONSE"
      <4>1. /\ ~backing.awready /\ ~backing.wready /\ ~backing.bvalid /\ ~backing.arready /\ backing.rvalid
            /\ ~tocpu.awready /\ ~tocpu.wready /\ ~tocpu.bvalid /\ ~tocpu.arready /\ ~tocpu.rvalid
            /\ to.r /\ from.rvalid
        BY <1>1, <1>6, <2>4, <3>1
        DEF WritesFor, Unserved, CpuUnserved,
           ToMemory, ToPacket, ToCpu, FromDDR4, cpu_ar_selected, packet_ar_selected,
           cpu_aw_selected, packet_aw_selected
      <4> HIDE DEF to, from, backing, tocpu
      <4>2. arbiter'.state = "IDLE"
        BY <1>3, <1>7, <2>4, <3>1, <4>1
      <4>3. ddr4'.state = "IDLE"
        BY <1>2, <1>3, <2>4, <3>1, <4>1 DEF DDR4Edge, WritesFor
      <4>4. cpu'.state \in {"IDLE", "AR", "AW"}
        BY <1>2, <1>3, <2>4, <3>1, <4>1 DEF CpuEdge, CpuUnserved, WritesFor
      <4>5. dma'.backing_state \in {"IDLE", "ADDRESS"} /\ ~ReadsDDR(dma')
        BY <1>1, <1>2, <1>3, <2>4, <3>1, <4>1
        DEF Unserved, BackingGoes, HeadStays, Stored, BackingSound, WillReadDDR, WritesFor, ReadsDDR
      <4>6. QED
        BY <4>2, <4>3, <4>4, <4>5 DEF AccessHolds, WritesFor, Unserved, CpuUnserved
    <3>2. CASE ~arbiter.packet_owner /\ ddr4.state = "READ_RESPONSE"
      <4>1. /\ ~backing.awready /\ ~backing.wready /\ ~backing.bvalid /\ ~backing.arready /\ ~backing.rvalid
            /\ tocpu.rvalid /\ to.r /\ from.rvalid
        BY <1>1, <1>6, <2>4, <3>2
        DEF WritesFor, Unserved, CpuUnserved,
           ToMemory, ToPacket, ToCpu, FromDDR4, cpu_ar_selected, packet_ar_selected,
           cpu_aw_selected, packet_aw_selected
      <4> HIDE DEF to, from, backing, tocpu
      <4>2. arbiter'.state = "IDLE"
        BY <1>3, <1>7, <2>4, <3>2, <4>1
      <4>3. ddr4'.state = "IDLE"
        BY <1>2, <1>3, <2>4, <3>2, <4>1 DEF DDR4Edge, WritesFor
      <4>4. cpu'.state = "IDLE"
        BY <1>2, <1>3, <2>4, <3>2, <4>1 DEF CpuEdge, CpuUnserved, WritesFor
      <4>5. dma'.backing_state \in {"IDLE", "ADDRESS"} /\ ~ReadsDDR(dma')
        BY <1>1, <1>2, <1>3, <2>4, <3>2, <4>1
        DEF Unserved, BackingGoes, HeadStays, Stored, BackingSound, WillReadDDR, WritesFor, ReadsDDR
      <4>6. QED
        BY <4>2, <4>3, <4>4, <4>5 DEF AccessHolds, WritesFor, Unserved, CpuUnserved
    <3>3. CASE arbiter.packet_owner /\ ddr4.state # "READ_RESPONSE"
      <4>1. /\ ~backing.awready /\ ~backing.wready /\ ~backing.bvalid /\ ~backing.arready /\ ~backing.rvalid
            /\ ~tocpu.awready /\ ~tocpu.wready /\ ~tocpu.bvalid /\ ~tocpu.arready /\ ~tocpu.rvalid
            /\ ~from.rvalid
        BY <1>1, <1>6, <2>4, <3>3
        DEF WritesFor, Unserved, CpuUnserved,
           ToMemory, ToPacket, ToCpu, FromDDR4, cpu_ar_selected, packet_ar_selected,
           cpu_aw_selected, packet_aw_selected
      <4> HIDE DEF to, from, backing, tocpu
      <4>2. arbiter'.state = "READ_DATA" /\ arbiter'.packet_owner
        BY <1>3, <1>7, <2>4, <3>3, <4>1
      <4>3. ddr4'.state \in {"READ_WORD", "READ_WAIT", "READ_RESPONSE"}
        BY <1>2, <1>3, <2>4, <3>3, <4>1 DEF DDR4Edge, WritesFor
      <4>4. cpu'.state \in {"IDLE", "AR", "AW"}
        BY <1>2, <1>3, <2>4, <3>3, <4>1 DEF CpuEdge, CpuUnserved, WritesFor
      <4>5. dma'.backing_state \in {"IDLE", "ADDRESS"} /\ ReadsDDR(dma')
        BY <1>1, <1>2, <1>3, <2>4, <3>3, <4>1
        DEF Unserved, BackingGoes, HeadStays, Stored, BackingSound, WillReadDDR, WritesFor, ReadsDDR
      <4>6. QED
        BY <4>2, <4>3, <4>4, <4>5 DEF AccessHolds, WritesFor, Unserved, CpuUnserved
    <3>4. CASE ~arbiter.packet_owner /\ ddr4.state # "READ_RESPONSE"
      <4>1. /\ ~backing.awready /\ ~backing.wready /\ ~backing.bvalid /\ ~backing.arready /\ ~backing.rvalid
            /\ ~tocpu.rvalid /\ ~from.rvalid
        BY <1>1, <1>6, <2>4, <3>4
        DEF WritesFor, Unserved, CpuUnserved,
           ToMemory, ToPacket, ToCpu, FromDDR4, cpu_ar_selected, packet_ar_selected,
           cpu_aw_selected, packet_aw_selected
      <4> HIDE DEF to, from, backing, tocpu
      <4>2. arbiter'.state = "READ_DATA" /\ ~arbiter'.packet_owner
        BY <1>3, <1>7, <2>4, <3>4, <4>1
      <4>3. ddr4'.state \in {"READ_WORD", "READ_WAIT", "READ_RESPONSE"}
        BY <1>2, <1>3, <2>4, <3>4, <4>1 DEF DDR4Edge, WritesFor
      <4>4. cpu'.state = "R"
        BY <1>2, <1>3, <2>4, <3>4, <4>1 DEF CpuEdge, CpuUnserved, WritesFor
      <4>5. dma'.backing_state \in {"IDLE", "ADDRESS"} /\ ~ReadsDDR(dma')
        BY <1>1, <1>2, <1>3, <2>4, <3>4, <4>1
        DEF Unserved, BackingGoes, HeadStays, Stored, BackingSound, WillReadDDR, WritesFor, ReadsDDR
      <4>6. QED
        BY <4>2, <4>3, <4>4, <4>5 DEF AccessHolds, WritesFor, Unserved, CpuUnserved
    <3>5. QED
      BY <2>4, <3>1, <3>2, <3>3, <3>4
  <2>5. QED
    BY <1>3, <2>1, <2>2, <2>3, <2>4 DEF AccessHolds
<1>9. QED
  BY <1>2, <1>4, <1>5, <1>8 DEF MemoryHolds

(* So every step of the cluster keeps them in the same phase. *)
LEMMA MemoryNext ==
  ASSUME MemoryHolds, [Next]_vars
  PROVE  MemoryHolds'
<1>1. CASE UNCHANGED vars
  <2>1. dma' = dma /\ cpu' = cpu /\ arbiter' = arbiter /\ ddr4' = ddr4
    BY <1>1 DEF vars
  <2>2. QED
    BY <2>1 DEF MemoryHolds, AccessHolds, WritesFor, Unserved, CpuUnserved, CpuAddress
<1>2. CASE ActiveEdge
  <2>1. PICK ev \in SUBSET Events : Edge(ev)
    BY <1>2 DEF ActiveEdge
  <2>2. DOMAIN dma = Registers /\ BackingSound(dma)
    BY DEF MemoryHolds
  <2>3. PICK ddr_answers, line, started :
          MemoryEdge(backing_dma(dma), ddr_answers, line, started)
    BY <2>1, <2>2, EdgeMemory
  <2>4. QED
    BY <2>3, AccessNext
<1>3. QED
  BY <1>1, <1>2 DEF Next, Rest

(* At the start nobody is in an access. *)
LEMMA MemoryInit ==
  ASSUME ClusterInit
  PROVE  MemoryHolds
<1>1. DOMAIN dma = Registers /\ dma.backing = << >> /\ dma.backing_state = "IDLE"
      /\ dma.state = "IDLE"
  BY DEF ClusterInit, DMAInit, Registers
<1>2. BackingSound(dma)
  BY <1>1 DEF BackingSound, Queue
<1>3. /\ DOMAIN cpu = {"state", "left"} /\ cpu.state = "IDLE"
      /\ DOMAIN arbiter = {"state", "packet_owner"} /\ arbiter.packet_owner \in BOOLEAN
      /\ arbiter.state = "IDLE"
      /\ DOMAIN ddr4 = {"state", "address", "word", "data"} /\ ddr4.state = "IDLE"
  BY DEF ClusterInit, ArbiterInit, DDR4Init
<1>4. QED
  BY <1>1, <1>2, <1>3 DEF MemoryHolds, AccessHolds, ReadsDDR, Unserved, CpuUnserved

(* For every plan, every firmware and every size of the queues: an answer  *)
(* of the lower memory reaches the master that asked for it, which waits   *)
(* for it.                                                                 *)
THEOREM MemoryAnswersOwner ==
  Spec => []AnswersReachOwner
<1>1. ClusterInit => MemoryHolds
  BY MemoryInit
<1>2. MemoryHolds /\ [Next]_vars => MemoryHolds'
  BY MemoryNext
<1>3. MemoryHolds => AnswersReachOwner
  <2>1. SUFFICES ASSUME AccessHolds PROVE AnswersReachOwner
    BY DEF MemoryHolds
  <2>2. CASE arbiter.state = "IDLE"
    BY <2>1, <2>2 DEF AccessHolds, AnswersReachOwner, Unserved, CpuUnserved
  <2>3. CASE arbiter.state = "WRITE_DATA"
    BY <2>1, <2>3 DEF AccessHolds, AnswersReachOwner, WritesFor, Unserved, CpuUnserved
  <2>4. CASE arbiter.state = "WRITE_RESPONSE"
    BY <2>1, <2>4 DEF AccessHolds, AnswersReachOwner, WritesFor, Unserved, CpuUnserved
  <2>5. CASE arbiter.state = "READ_DATA"
    BY <2>1, <2>5 DEF AccessHolds, AnswersReachOwner, ReadsDDR, Unserved, CpuUnserved
  <2>6. QED
    BY <2>1, <2>2, <2>3, <2>4, <2>5 DEF AccessHolds
<1>4. QED
  BY <1>1, <1>2, <1>3, PTL DEF Spec

-----------------------------------------------------------------------------
(* The packets PacketDMA asks for and the lines that come of them.         *)

(* A command that takes a packet of the network. *)
IsNetwork(c) == "NETWORK_CPU" \in c.FLAGS

(* What is left of a queue without its first element. *)
LEMMA TailElements ==
  ASSUME NEW q, Queue(q), q # << >>
  PROVE  /\ Len(Tail(q)) = Len(q) - 1 /\ Len(q) \in Nat \ {0}
         /\ \A i \in 1 .. Len(Tail(q)) : i + 1 \in 1 .. Len(q) /\ Tail(q)[i] = q[i + 1]
         /\ 1 \in 1 .. Len(q) /\ Head(q) = q[1]
BY DEF Queue

(* A queue with one more element. *)
LEMMA AppendElements ==
  ASSUME NEW q, Queue(q), NEW x
  PROVE  /\ Len(Append(q, x)) = Len(q) + 1 /\ Len(q) \in Nat /\ Queue(Append(q, x))
         /\ \A i \in 1 .. Len(q) : Append(q, x)[i] = q[i]
         /\ Append(q, x)[Len(q) + 1] = x
         /\ Append(q, x) # << >>
         /\ q # << >> => Head(Append(q, x)) = Head(q)
<1>1. PICK S : q \in Seq(S)
  BY DEF Queue
<1>2. q \in Seq(S \cup {x}) /\ x \in S \cup {x}
  BY <1>1
<1>3. Append(q, x) \in Seq(S \cup {x}) /\ Len(Append(q, x)) = Len(q) + 1
  BY <1>2
<1>4. Queue(Append(q, x))
  BY <1>3 DEF Queue
<1>5. /\ \A i \in 1 .. Len(q) : Append(q, x)[i] = q[i]
      /\ Append(q, x)[Len(q) + 1] = x
      /\ q # << >> => Head(Append(q, x)) = Head(q)
  BY <1>2
<1>6. Append(q, x) # << >>
  BY <1>1, <1>3
<1>7. QED
  BY <1>1, <1>3, <1>4, <1>5, <1>6

(* Every element of it was there before or is the new one. *)
LEMMA OldOrNew ==
  ASSUME NEW q, Queue(q), NEW x, NEW i \in 1 .. Len(Append(q, x))
  PROVE  \/ i \in 1 .. Len(q) /\ Append(q, x)[i] = q[i]
         \/ Append(q, x)[i] = x
<1>1. /\ Len(Append(q, x)) = Len(q) + 1 /\ Len(q) \in Nat
      /\ \A j \in 1 .. Len(q) : Append(q, x)[j] = q[j]
      /\ Append(q, x)[Len(q) + 1] = x
  BY AppendElements
<1>2. i \in 1 .. Len(q) \/ i = Len(q) + 1
  BY <1>1
<1>3. QED
  BY <1>1, <1>2

FetcherNames == DOMAIN FetcherInit

(* The registers of the descriptor queue by name. *)
LEMMA FetcherRegisterNames ==
  FetcherNames =
    {"queue", "loaded", "buffer", "head", "count", "load_head", "assembly", "assembly_active",
     "assembly_word", "enabled", "auto_l2", "auto_sequence", "command", "cache_completed_seen",
     "retired", "protocol_error"}
BY DEF FetcherNames, FetcherInit

Forwards(bits) == bits \cap {"DMA_DISCARD", "DMA_SYSTEM"}

(* The action of a store, and one that is refused. *)
Dispatches(f, store, ready) ==
  /\ store.register = "ACTION" /\ "NEXT" \in store.value
  /\ Forwards(store.value) # {} /\ Forwards(store.value) # {"DMA_DISCARD", "DMA_SYSTEM"}
  /\ f.count # 0 /\ ready

(* The store takes the descriptor at the head, or is refused. *)
Advances(f, store, ready) ==
  \/ Dispatches(f, store, ready)
  \/ /\ store.register = "ACTION" /\ "NEXT" \in store.value
     /\ Forwards(store.value) = {} /\ f.count # 0

Misuses(f, store, ready) ==
  /\ store.register = "ACTION" /\ "NEXT" \in store.value
  /\ Forwards(store.value) # {}
  /\ ~Dispatches(f, store, ready)

(* A word is taken, and the last one makes a descriptor; a word out of its *)
(* place is an error.                                                      *)
TakesWord(f, w) == w # NoWord /\ descriptor_ready(f)
Enters(f, w) == TakesWord(f, w) /\ w.eop

BadWord(f, w) ==
  \/ w.word >= DESCRIPTOR_WORDS
  \/ (w.sop /\ (f.assembly_active \/ w.word # 0))
  \/ (~w.sop /\ ~f.assembly_active)
  \/ w.word # f.assembly_word
  \/ (w.eop /\ w.word # DESCRIPTOR_WORDS - 1)

(* The command for PacketDMA after an edge. *)
CommandAfter(f, g, store, w, ready) ==
  IF Enters(f, w) /\ f.auto_l2
  THEN \E buffer : g.command = Command(w.packet, FALSE, TRUE, buffer)
  ELSE g.command = IF Dispatches(f, store, ready)
                   THEN Command(current_descriptor(f), "DMA_SYSTEM" \in store.value, FALSE, 0)
                   ELSE IF ready THEN << >> ELSE f.command

(* A queue of descriptors before and after an edge. *)
FetcherResult(f, g, store, w, ready) ==
  /\ DOMAIN g = FetcherNames
  /\ g.enabled = IF store.register = "CONTROL" THEN "ENABLE" \in store.value ELSE f.enabled
  /\ g.auto_l2 = IF store.register = "CONTROL" THEN "AUTO_L2" \in store.value ELSE f.auto_l2
  /\ CommandAfter(f, g, store, w, ready)
  /\ g.head = IF Advances(f, store, ready) THEN Next_i(f.head) ELSE f.head
  /\ LET left == IF Advances(f, store, ready) THEN f.count - 1 ELSE f.count
     IN  g.count = IF Enters(f, w) THEN left + 1 ELSE left
  /\ g.queue = IF Enters(f, w) THEN [f.queue EXCEPT ![tail(f)] = w.packet] ELSE f.queue
  /\ g.assembly_active = IF TakesWord(f, w) THEN ~w.eop /\ (f.assembly_active \/ w.sop)
                         ELSE f.assembly_active
  /\ g.assembly_word = IF TakesWord(f, w) THEN (IF w.eop THEN 0 ELSE w.word + 1)
                       ELSE f.assembly_word
  /\ g.protocol_error <=> \/ f.protocol_error
                          \/ Misuses(f, store, ready)
                          \/ TakesWord(f, w) /\ BadWord(f, w)

(* An edge of the descriptor queue leaves no more than that. *)
LEMMA FetcherParts ==
  ASSUME NEW f, NEW store, NEW w, NEW ready, NEW done, DOMAIN f = FetcherNames
  PROVE  FetcherResult(f, FetcherEdge(f, store, w, ready, done), store, w, ready)
<1> DEFINE a == RetireCommand(f, ready)
           b == FetcherStore(f, a, store, ready)
           c == FetcherWord(f, b, w)
           g == MarkLoaded(f, c, done)
<1> USE FetcherRegisterNames
<1>1. /\ DOMAIN a = FetcherNames
      /\ a.command = IF ready THEN << >> ELSE f.command
      /\ \A r \in FetcherNames \ {"command"} : a[r] = f[r]
  BY DEF RetireCommand
<1> DEFINE Kept == {"queue", "assembly_active", "assembly_word"}
<1>2. /\ DOMAIN b = FetcherNames
      /\ b.enabled = IF store.register = "CONTROL" THEN "ENABLE" \in store.value ELSE f.enabled
      /\ b.auto_l2 = IF store.register = "CONTROL" THEN "AUTO_L2" \in store.value ELSE f.auto_l2
      /\ b.command = IF Dispatches(f, store, ready)
                     THEN Command(current_descriptor(f), "DMA_SYSTEM" \in store.value, FALSE, 0)
                     ELSE IF ready THEN << >> ELSE f.command
      /\ b.head = IF Advances(f, store, ready) THEN Next_i(f.head) ELSE f.head
      /\ b.count = IF Advances(f, store, ready) THEN f.count - 1 ELSE f.count
      /\ \A r \in Kept : b[r] = f[r]
      /\ b.protocol_error <=> f.protocol_error \/ Misuses(f, store, ready)
  <2> HIDE DEF a
  <2>1. CASE store.register = "CONTROL"
    <3>1. b = [a EXCEPT !.enabled = "ENABLE" \in store.value, !.auto_l2 = "AUTO_L2" \in store.value]
      BY <2>1 DEF FetcherStore
    <3> HIDE DEF b
    <3>2. QED
      BY <1>1, <2>1, <3>1 DEF Dispatches, Advances, Misuses
  <2>2. CASE store.register = "ACTION"
    <3>1. b = Action(f, a, store.value, ready)
      BY <2>2 DEF FetcherStore
    <3>2. CASE Dispatches(f, store, ready)
      <4>1. b = [Pop(a) EXCEPT !.command =
                   Command(current_descriptor(f), "DMA_SYSTEM" \in store.value, FALSE, 0)]
        BY <3>1, <3>2 DEF Action, Dispatches, Forwards
      <4>2. Advances(f, store, ready) /\ ~Misuses(f, store, ready)
        BY <3>2 DEF Advances, Misuses
      <4> HIDE DEF b
      <4>3. QED
        BY <1>1, <2>2, <3>2, <4>1, <4>2 DEF Pop
    <3>3. CASE Advances(f, store, ready) /\ ~Dispatches(f, store, ready)
      <4>1. b = Pop(a) /\ ~Misuses(f, store, ready)
        BY <3>1, <3>3 DEF Action, Advances, Forwards, Misuses
      <4> HIDE DEF b
      <4>2. QED
        BY <1>1, <2>2, <3>3, <4>1 DEF Pop
    <3>4. CASE Misuses(f, store, ready)
      <4>1. b = [a EXCEPT !.protocol_error = TRUE]
        BY <3>1, <3>4 DEF Action, Dispatches, Forwards, Misuses
      <4>2. ~Advances(f, store, ready) /\ ~Dispatches(f, store, ready)
        BY <3>4 DEF Advances, Misuses
      <4> HIDE DEF b
      <4>3. QED
        BY <1>1, <2>2, <3>4, <4>1, <4>2
    <3>5. CASE ~Advances(f, store, ready) /\ ~Misuses(f, store, ready)
      <4>1. b = a /\ ~Dispatches(f, store, ready)
        BY <2>2, <3>1, <3>5 DEF Action, Dispatches, Forwards, Misuses, Advances
      <4> HIDE DEF b
      <4>2. QED
        BY <1>1, <2>2, <3>5, <4>1
    <3>6. QED
      BY <3>2, <3>3, <3>4, <3>5
  <2>3. CASE store.register \notin {"CONTROL", "ACTION"}
    <3>1. b = a
      BY <2>3 DEF FetcherStore
    <3> HIDE DEF b
    <3>2. QED
      BY <1>1, <2>3, <3>1 DEF Dispatches, Advances, Misuses
  <2>4. QED
    BY <2>1, <2>2, <2>3
<1>3. /\ DOMAIN c = FetcherNames
      /\ c.enabled = b.enabled /\ c.auto_l2 = b.auto_l2 /\ c.head = b.head
      /\ IF Enters(f, w) /\ f.auto_l2
         THEN \E buffer : c.command = Command(w.packet, FALSE, TRUE, buffer)
         ELSE c.command = b.command
      /\ c.count = IF Enters(f, w) THEN b.count + 1 ELSE b.count
      /\ c.queue = IF Enters(f, w) THEN [f.queue EXCEPT ![tail(f)] = w.packet] ELSE f.queue
      /\ c.assembly_active = IF TakesWord(f, w) THEN ~w.eop /\ (f.assembly_active \/ w.sop)
                             ELSE f.assembly_active
      /\ c.assembly_word = IF TakesWord(f, w) THEN (IF w.eop THEN 0 ELSE w.word + 1)
                           ELSE f.assembly_word
      /\ c.protocol_error <=> b.protocol_error \/ (TakesWord(f, w) /\ BadWord(f, w))
  <2> HIDE DEF b
  <2> DEFINE noted == [b EXCEPT !.protocol_error = @ \/ BadWord(f, w),
                         !.assembly = IF w.eop THEN NoPacket ELSE w.packet,
                         !.assembly_active = (~w.eop /\ (@ \/ w.sop)),
                         !.assembly_word = IF w.eop THEN 0 ELSE w.word + 1]
  <2>1. c = IF ~TakesWord(f, w) THEN b
            ELSE IF w.eop THEN Enqueue(f, noted, w.packet) ELSE noted
    BY DEF FetcherWord, TakesWord, BadWord
  <2>2. /\ DOMAIN noted = FetcherNames
        /\ \A r \in FetcherNames \ {"protocol_error", "assembly", "assembly_active",
                                    "assembly_word"} : noted[r] = b[r]
        /\ noted.protocol_error <=> b.protocol_error \/ BadWord(f, w)
        /\ noted.assembly_active = (~w.eop /\ (f.assembly_active \/ w.sop))
        /\ noted.assembly_word = IF w.eop THEN 0 ELSE w.word + 1
    BY <1>2
  <2> HIDE DEF noted, c
  <2>3. CASE ~TakesWord(f, w)
    BY <1>2, <2>1, <2>3 DEF Enters
  <2>4. CASE TakesWord(f, w) /\ ~w.eop
    BY <1>2, <2>1, <2>2, <2>4 DEF Enters
  <2>5. CASE TakesWord(f, w) /\ w.eop
    <3> DEFINE buffer == IF f.auto_l2 THEN f.auto_sequence % SLOTS ELSE tail(f) % SLOTS
               queued == [noted EXCEPT !.queue[tail(f)] = w.packet, !.buffer[tail(f)] = buffer,
                                       !.loaded[tail(f)] = FALSE, !.count = @ + 1]
    <3>1. c = IF f.auto_l2
              THEN [queued EXCEPT !.command = Command(w.packet, FALSE, TRUE, buffer),
                                  !.auto_sequence = (@ + 1) % SLOTS]
              ELSE queued
      BY <2>1, <2>5 DEF Enqueue
    <3>2. /\ DOMAIN queued = FetcherNames
          /\ \A r \in {"enabled", "auto_l2", "head", "command", "assembly_active",
                       "assembly_word", "protocol_error"} : queued[r] = noted[r]
          /\ queued.count = b.count + 1
          /\ queued.queue = [f.queue EXCEPT ![tail(f)] = w.packet]
      BY <1>2, <2>2
    <3> HIDE DEF queued, buffer
    <3>3. Enters(f, w)
      BY <2>5 DEF Enters
    <3>4. CASE f.auto_l2
      <4> DEFINE x == Command(w.packet, FALSE, TRUE, buffer)
             y == (queued.auto_sequence + 1) % SLOTS
      <4>a. c = [queued EXCEPT !.command = x, !.auto_sequence = y]
        BY <3>1, <3>4
      <4> HIDE DEF x, y
      <4>1. /\ DOMAIN c = FetcherNames
            /\ c.command = x
            /\ c.enabled = queued.enabled /\ c.auto_l2 = queued.auto_l2
            /\ c.head = queued.head /\ c.count = queued.count /\ c.queue = queued.queue
            /\ c.assembly_active = queued.assembly_active
            /\ c.assembly_word = queued.assembly_word
            /\ c.protocol_error = queued.protocol_error
        <5>1. DOMAIN queued = FetcherNames
          BY <3>2
        <5>2. QED
          BY <4>a, <5>1
      <4>2. QED
        BY <2>2, <2>5, <3>2, <3>3, <3>4, <4>1 DEF x
    <3>5. CASE ~f.auto_l2
      <4>1. c = queued
        BY <3>1, <3>5
      <4>2. QED
        BY <2>2, <2>5, <3>2, <3>3, <3>5, <4>1
    <3>6. QED
      BY <3>4, <3>5
  <2>6. QED
    BY <2>3, <2>4, <2>5
<1>4. DOMAIN g = FetcherNames /\ \A r \in FetcherNames \ {"loaded", "load_head", "cache_completed_seen"} : g[r] = c[r]
  <2> HIDE DEF c
  <2>1. QED
    BY <1>3 DEF MarkLoaded
<1>5. g = FetcherEdge(f, store, w, ready, done)
  BY DEF FetcherEdge
<1> HIDE DEF a, b, c, g
<1>6. CommandAfter(f, g, store, w, ready)
  BY <1>2, <1>3, <1>4 DEF CommandAfter
<1>7. QED
  BY <1>2, <1>3, <1>4, <1>5, <1>6 DEF FetcherResult

(* Instructions that make no store and go through no register. *)
Silent == {"await_loaded", "await_dma_ready", "await_ready", "check", "ticket", "await_ticket",
           "await_cleared", "repeat"}
Locking == {"lock", "unlock"}

(* What the harts of every firmware execute. *)
Instructions(f) ==
  Silent \cup Locking \cup
  CASE f = "ring" -> {"enable_auto", "LENGTH", "SOURCE", "FLAGS_TO_SYSTEM", "COMMAND", "next"}
    [] f = "fast" -> {"enable", "next_dma"}
    [] f = "forward" -> {"enable_auto", "LENGTH", "SOURCE", "FLAGS_TO_NETWORK", "COMMAND",
                         "CLEAR_ADDRESS", "CLEAR_NOTIFY", "next"}
    [] f = "bridge" -> {"RX_HANDLE", "LENGTH", "DESTINATION", "FLAGS_FROM_NETWORK",
                        "FLAGS_FROM_SYSTEM", "COMMAND", "SOURCE", "FLAGS_TO_NETWORK",
                        "FLAGS_TO_SYSTEM"}

(* The program of "bridge", instruction by instruction. *)
IsBridge(p, h) ==
  /\ Len(p) = 20
  /\ p[1] = "lock" /\ p[2] = "check" /\ p[3] = "RX_HANDLE" /\ p[4] = "LENGTH"
  /\ p[5] = "DESTINATION"
  /\ p[6] = IF h = "hart1" THEN "FLAGS_FROM_NETWORK" ELSE "FLAGS_FROM_SYSTEM"
  /\ p[7] = "COMMAND" /\ p[8] = "ticket" /\ p[9] = "unlock" /\ p[10] = "await_ticket"
  /\ p[11] = "lock" /\ p[12] = "check" /\ p[13] = "LENGTH" /\ p[14] = "SOURCE"
  /\ p[15] = IF h = "hart1" THEN "FLAGS_TO_NETWORK" ELSE "FLAGS_TO_SYSTEM"
  /\ p[16] = "COMMAND" /\ p[17] = "ticket" /\ p[18] = "unlock"
  /\ p[19] = "await_ticket" /\ p[20] = "repeat"

(* It is so. *)
LEMMA BridgeProgram ==
  ASSUME NEW h \in {"hart1", "hart2"}
  PROVE  IsBridge(Program["bridge"][h], h)
<1> DEFINE p == Program["bridge"][h]
           load == IF h = "hart1" THEN "FLAGS_FROM_NETWORK" ELSE "FLAGS_FROM_SYSTEM"
           send == IF h = "hart1" THEN "FLAGS_TO_NETWORK" ELSE "FLAGS_TO_SYSTEM"
<1>1. p = << "lock", "check", "RX_HANDLE", "LENGTH", "DESTINATION", load, "COMMAND",
                "ticket", "unlock", "await_ticket",
                "lock", "check", "LENGTH", "SOURCE", send, "COMMAND",
                "ticket", "unlock", "await_ticket", "repeat" >>
  BY DEF Program
<1> HIDE DEF p, load, send
<1>2. /\ Len(p) = 20
      /\ p[1] = "lock" /\ p[2] = "check" /\ p[3] = "RX_HANDLE" /\ p[4] = "LENGTH"
      /\ p[5] = "DESTINATION" /\ p[6] = load
      /\ p[7] = "COMMAND" /\ p[8] = "ticket" /\ p[9] = "unlock" /\ p[10] = "await_ticket"
  BY <1>1
<1>3. /\ p[11] = "lock" /\ p[12] = "check" /\ p[13] = "LENGTH" /\ p[14] = "SOURCE"
      /\ p[15] = send /\ p[16] = "COMMAND" /\ p[17] = "ticket" /\ p[18] = "unlock"
      /\ p[19] = "await_ticket" /\ p[20] = "repeat"
  BY <1>1
<1>4. QED
  BY <1>2, <1>3 DEF IsBridge, p, load, send

(* Every instruction of a firmware is one of them. *)
LEMMA ProgramInstructions ==
  ASSUME ClusterAssumption, HartsHold, NEW h \in Harts
  PROVE  Instruction(h) \in Instructions(firmware)
<1> DEFINE p == Program[firmware][h]
           pc == harts[h].pc
<1>1. /\ firmware \in {"ring", "fast", "forward", "bridge"}
      /\ Harts \subseteq {"hart1", "hart2"}
      /\ pc \in 1 .. Len(p) /\ Instruction(h) = p[pc]
  BY ProgramSound DEF HartsHold, Instruction, ClusterAssumption
<1>2. CASE firmware = "ring"
  <2>1. p = << "enable_auto", "await_loaded", "await_ready", "lock", "check", "LENGTH", "SOURCE",
               "FLAGS_TO_SYSTEM", "COMMAND", "unlock", "next" >>
    BY <1>2 DEF Program, Harts
  <2> HIDE DEF p, pc
  <2>2. QED
    BY <1>1, <1>2, <2>1 DEF Instructions, Silent, Locking
<1>3. CASE firmware = "fast"
  <2>1. p = << "enable", "await_dma_ready", "next_dma" >>
    BY <1>3 DEF Program, Harts
  <2> HIDE DEF p, pc
  <2>2. QED
    BY <1>1, <1>3, <2>1 DEF Instructions, Silent, Locking
<1>4. CASE firmware = "forward"
  <2>1. p = << "enable_auto", "await_loaded", "lock", "check", "LENGTH", "SOURCE", "FLAGS_TO_NETWORK",
         "COMMAND", "ticket", "unlock", "await_ticket", "CLEAR_ADDRESS", "CLEAR_NOTIFY",
         "await_cleared", "next" >>
    BY <1>4 DEF Program, Harts
  <2> DEFINE Forward == Instructions("forward")
  <2>2. /\ "enable_auto" \in Forward /\ "await_loaded" \in Forward /\ "lock" \in Forward
        /\ "check" \in Forward /\ "LENGTH" \in Forward /\ "SOURCE" \in Forward
        /\ "FLAGS_TO_NETWORK" \in Forward /\ "COMMAND" \in Forward /\ "ticket" \in Forward
        /\ "unlock" \in Forward /\ "await_ticket" \in Forward /\ "CLEAR_ADDRESS" \in Forward
        /\ "CLEAR_NOTIFY" \in Forward /\ "await_cleared" \in Forward /\ "next" \in Forward
    BY DEF Instructions, Silent, Locking
  <2> HIDE DEF p, pc, Forward
  <2>3. p \in Seq(Forward)
    BY <2>1, <2>2
  <2>4. p[pc] \in Forward
    BY <1>1, <2>3
  <2>5. QED
    BY <1>1, <1>4, <2>4 DEF Forward
<1>5. CASE firmware = "bridge"
  <2>1. h \in {"hart1", "hart2"} /\ p = Program["bridge"][h]
    BY <1>1, <1>5
  <2> DEFINE q == Program["bridge"][h]
  <2>2. p = q
    BY <2>1
  <2> DEFINE Bridge == Instructions("bridge")
  <2>3. /\ "lock" \in Bridge /\ "check" \in Bridge /\ "RX_HANDLE" \in Bridge
        /\ "LENGTH" \in Bridge /\ "DESTINATION" \in Bridge /\ "FLAGS_FROM_NETWORK" \in Bridge
        /\ "FLAGS_FROM_SYSTEM" \in Bridge /\ "COMMAND" \in Bridge /\ "ticket" \in Bridge
        /\ "unlock" \in Bridge /\ "await_ticket" \in Bridge /\ "SOURCE" \in Bridge
        /\ "FLAGS_TO_NETWORK" \in Bridge /\ "FLAGS_TO_SYSTEM" \in Bridge /\ "repeat" \in Bridge
    BY DEF Instructions, Silent, Locking
  <2>a. IsBridge(q, h)
    BY <2>1, BridgeProgram
  <2> HIDE DEF p, pc, Bridge, q
  <2>4. /\ Len(q) = 20
        /\ q[1] \in Bridge /\ q[2] \in Bridge /\ q[3] \in Bridge /\ q[4] \in Bridge
        /\ q[5] \in Bridge /\ q[6] \in Bridge /\ q[7] \in Bridge /\ q[8] \in Bridge
        /\ q[9] \in Bridge /\ q[10] \in Bridge
    BY <2>3, <2>a DEF IsBridge
  <2>5. /\ q[11] \in Bridge /\ q[12] \in Bridge /\ q[13] \in Bridge /\ q[14] \in Bridge
        /\ q[15] \in Bridge /\ q[16] \in Bridge /\ q[17] \in Bridge /\ q[18] \in Bridge
        /\ q[19] \in Bridge /\ q[20] \in Bridge
    BY <2>3, <2>a DEF IsBridge
  <2>6. pc \in 1 .. 20
    BY <1>1, <2>2, <2>4
  <2>7. CASE pc <= 10
    <3>1. pc = 1 \/ pc = 2 \/ pc = 3 \/ pc = 4 \/ pc = 5 \/ pc = 6 \/ pc = 7 \/ pc = 8
          \/ pc = 9 \/ pc = 10
      BY <2>6, <2>7
    <3>2. QED
      BY <1>1, <1>5, <2>2, <2>4, <3>1 DEF Bridge
  <2>8. CASE pc > 10
    <3>1. pc = 11 \/ pc = 12 \/ pc = 13 \/ pc = 14 \/ pc = 15 \/ pc = 16 \/ pc = 17
          \/ pc = 18 \/ pc = 19 \/ pc = 20
      BY <2>6, <2>8
    <3>2. QED
      BY <1>1, <1>5, <2>2, <2>5, <3>1 DEF Bridge
  <2>9. QED
    BY <2>6, <2>7, <2>8
<1>6. QED
  BY <1>1, <1>2, <1>3, <1>4, <1>5

(* What a firmware never stores. *)
StoreSound(store) ==
  /\ firmware \in {"ring", "forward"} =>
       /\ store.register = "FLAGS" => "NETWORK_CPU" \notin store.value
       /\ store.register = "ACTION" => store.value = {"NEXT"}
  /\ firmware = "fast" =>
       /\ store.register \notin StageRegisters \cup {"COMMAND"}
       /\ store.register = "CONTROL" => "AUTO_L2" \notin store.value
  /\ firmware = "bridge" =>
       /\ store.register \notin {"CONTROL", "ACTION"}
       /\ store.register = "FLAGS" =>
            store.value \cap {"NETWORK_DISCARD", "NETWORK_SYSTEM", "NETWORK_PREFETCHED"} = {}

(* No store of a firmware is one of those. *)
LEMMA StoresAreSound ==
  ASSUME ClusterAssumption, HartsHold, NEW ev
  PROVE  StoreSound(StoreAt(ev))
<1>1. firmware \in {"ring", "fast", "forward", "bridge"}
  BY DEF HartsHold, ClusterAssumption
<1>2. StageRegisters = {"RX_HANDLE", "LENGTH", "SOURCE", "DESTINATION", "FLAGS"}
  BY DEF StageRegisters, NoCommand
<1>3. CASE HartEvent(ev) = {}
  BY <1>1, <1>2, <1>3 DEF StoreAt, NoStore, StoreSound
<1>4. CASE HartEvent(ev) # {}
  <2>1. PICK h \in Harts : StoreAt(ev) = StoreOf(h, Instruction(h))
    BY <1>4 DEF StoreAt, HartEvent
  <2> DEFINE i == Instruction(h)
             s == StoreOf(h, i)
  <2>2. i \in Instructions(firmware)
    BY ProgramInstructions
  <2>3. CASE i \in Silent \cup Locking
    <3>1. s.register \in {"NONE", "COMMAND_LOCK"}
      <4> HIDE DEF i
      <4>1. QED
        BY <2>3 DEF StoreOf, NoStore, Silent, Locking
    <3> HIDE DEF s
    <3>2. QED
      BY <1>1, <1>2, <2>1, <3>1 DEF StoreSound, s
  <2>4. CASE i \notin Silent \cup Locking /\ firmware \in {"ring", "forward"}
    <3>1. i \in {"enable_auto", "LENGTH", "SOURCE", "FLAGS_TO_SYSTEM", "FLAGS_TO_NETWORK",
                 "COMMAND", "CLEAR_ADDRESS", "CLEAR_NOTIFY", "next"}
      BY <2>2, <2>4 DEF Instructions
    <3>2. \A j \in {"FLAGS_TO_SYSTEM", "FLAGS_TO_NETWORK"} : "NETWORK_CPU" \notin FlagsOf(h, j)
      BY DEF FlagsOf
    <3> HIDE DEF i
    <3>3. /\ s.register = "FLAGS" => "NETWORK_CPU" \notin s.value
          /\ s.register = "ACTION" => s.value = {"NEXT"}
      BY <3>1, <3>2 DEF StoreOf
    <3> HIDE DEF s
    <3>4. QED
      BY <2>1, <2>4, <3>3 DEF StoreSound, s, i
  <2>5. CASE i \notin Silent \cup Locking /\ firmware = "fast"
    <3>1. i \in {"enable", "next_dma"}
      BY <2>2, <2>5 DEF Instructions
    <3> HIDE DEF i
    <3>2. /\ s.register \in {"CONTROL", "ACTION"}
          /\ s.register = "CONTROL" => "AUTO_L2" \notin s.value
      BY <3>1 DEF StoreOf
    <3> HIDE DEF s
    <3>3. QED
      BY <1>2, <2>1, <2>5, <3>2 DEF StoreSound, s, i
  <2>6. CASE i \notin Silent \cup Locking /\ firmware = "bridge"
    <3>1. i \in {"RX_HANDLE", "LENGTH", "DESTINATION", "FLAGS_FROM_NETWORK",
                 "FLAGS_FROM_SYSTEM", "COMMAND", "SOURCE", "FLAGS_TO_NETWORK",
                 "FLAGS_TO_SYSTEM"}
      BY <2>2, <2>6 DEF Instructions
    <3>2. \A j \in {"FLAGS_FROM_NETWORK", "FLAGS_FROM_SYSTEM", "FLAGS_TO_SYSTEM", "FLAGS_TO_NETWORK"} :
            FlagsOf(h, j) \cap {"NETWORK_DISCARD", "NETWORK_SYSTEM", "NETWORK_PREFETCHED"} = {}
      BY DEF FlagsOf
    <3> HIDE DEF i
    <3>3. /\ s.register \notin {"CONTROL", "ACTION"}
          /\ s.register = "FLAGS" =>
               s.value \cap {"NETWORK_DISCARD", "NETWORK_SYSTEM", "NETWORK_PREFETCHED"} = {}
      BY <3>1, <3>2 DEF StoreOf
    <3> HIDE DEF s
    <3>4. QED
      BY <2>1, <2>6, <3>3 DEF StoreSound, s, i
  <2>7. QED
    BY <1>1, <2>3, <2>4, <2>5, <2>6
<1>5. QED
  BY <1>3, <1>4

(* The commands after an edge, before the engine ends the first of them. *)
Pushed(d, in) ==
  IF Orders(d, in) THEN Append(d.commands, d.stage)
  ELSE IF in.descriptor # << >> /\ ~Head(in.descriptor).cache /\ HasRoom(d)
  THEN Append(d.commands, DescriptorCommand(Head(in.descriptor), in.read_ready))
  ELSE d.commands

(* The staged registers after an edge. *)
StageAfter(d, in) ==
  IF in.store.register \in StageRegisters
  THEN [d.stage EXCEPT ![in.store.register] = in.store.value] ELSE d.stage

(* The loading engine: it takes a line, what it leaves, when it complains. *)
LoaderTakes(d, in) ==
  d.prefetch.state = "STREAM" /\ in.rx # NoBeat /\ l2_line_valid(d, in.rx) /\ in.line_ready

LoaderAfter(d, in) ==
  CASE TakesPacket(d, in.descriptor) ->
         [state |-> "ISSUE", packet |-> Head(in.descriptor).packet,
          buffer |-> Head(in.descriptor).buffer, moved |-> 0]
    [] d.prefetch.state = "ISSUE" /\ in.read_ready -> [d.prefetch EXCEPT !.state = "STREAM"]
    [] LoaderTakes(d, in) ->
         [d.prefetch EXCEPT !.state = IF in.rx.eop THEN "IDLE" ELSE @, !.moved = @ + 1]
    [] OTHER -> d.prefetch

LoaderError(d, in) ==
  LoaderTakes(d, in) /\ BeatError(d.prefetch.moved, d.prefetch.packet[2], in.rx)

(* A doorbell that orders nothing. *)
Refused(d, in) == in.store.register = "COMMAND" /\ d.armed /\ ~Orders(d, in)

(* What the engine finds when it moves, and what it leaves. *)
Prepared(d, p, in) ==
  /\ DOMAIN p = Registers
  /\ p.state = d.state /\ p.active = d.active /\ p.moved = d.moved /\ p.beat = d.beat
  /\ p.completed = d.completed
  /\ p.commands = Pushed(d, in)
  /\ p.protocol_error <=> d.protocol_error \/ LoaderError(d, in) \/ Refused(d, in)

(* An edge of PacketDMA prepares the registers and lets the engine move,   *)
(* and nothing after that touches what the engine left.                    *)
LEMMA DMAParts ==
  ASSUME NEW d, NEW in, DOMAIN d = Registers
  PROVE  \E p : LET e == Engine(d, p, in)
                    f == DMAEdge(d, in)
                IN  /\ Prepared(d, p, in) 
                    /\ f.state = e.state /\ f.active = e.active /\ f.moved = e.moved
                    /\ f.beat = e.beat /\ f.commands = e.commands /\ f.completed = e.completed
                    /\ f.protocol_error = e.protocol_error
                    /\ f.stage = StageAfter(d, in)
                    /\ f.prefetch = LoaderAfter(d, in)
<1> DEFINE a == BackingPush(d, d, in)
           b == BackingWrite(d, a, in)
           c == Prefetch(d, b, in)
           s == DMAStore(d, c, in)
           p == Push(d, s, in)
           e == Engine(d, p, in)
           f == PairCommits(e, in.commit)
           Same == {"state", "active", "moved", "beat", "completed", "commands", "issued"}
<1>1. /\ DOMAIN a = Registers
      /\ \A r \in Same \cup {"stage", "armed", "prefetch", "protocol_error"} : a[r] = d[r]
  BY BackingPushKeeps, RegisterNames DEF Keeps
<1>2. /\ DOMAIN b = Registers
      /\ \A r \in Same \cup {"stage", "armed", "prefetch", "protocol_error"} : b[r] = d[r]
  <2> HIDE DEF a
  <2>1. Keeps(a, b, {"backing_state", "backing", "clear_completed", "backing_commits"})
    BY <1>1, BackingWriteKeeps
  <2> HIDE DEF b
  <2>2. QED
    BY <1>1, <2>1, RegisterNames DEF Keeps
<1>3. /\ DOMAIN c = Registers
      /\ \A r \in Same \cup {"stage", "armed"} : c[r] = d[r]
      /\ c.prefetch = LoaderAfter(d, in)
      /\ c.protocol_error <=> d.protocol_error \/ LoaderError(d, in)
  <2> HIDE DEF b
  <2>1. Keeps(b, c, {"prefetch", "protocol_error"})
    BY <1>2, PrefetchKeeps
  <2>2. /\ b.prefetch = d.prefetch /\ b.protocol_error = d.protocol_error
        /\ {"prefetch", "protocol_error"} \subseteq DOMAIN b
    BY <1>2, RegisterNames
  <2>3. CASE TakesPacket(d, in.descriptor)
    <3>1. c = [b EXCEPT !.prefetch = LoaderAfter(d, in)]
      BY <2>3 DEF Prefetch, LoaderAfter, TakesPacket, LoaderTakes
    <3>2. ~LoaderTakes(d, in)
      BY <2>3 DEF LoaderTakes, TakesPacket
    <3> HIDE DEF c
    <3>3. c.prefetch = LoaderAfter(d, in) /\ c.protocol_error = d.protocol_error
      BY <2>2, <3>1
    <3>4. QED
      BY <1>2, <2>1, <3>2, <3>3, RegisterNames DEF Keeps, LoaderError
  <2>4. CASE d.prefetch.state = "ISSUE"
    <3>1. c = IF in.read_ready THEN [b EXCEPT !.prefetch.state = "STREAM"] ELSE b
      BY <2>4 DEF Prefetch, TakesPacket
    <3>2. LoaderAfter(d, in) = IF in.read_ready THEN [d.prefetch EXCEPT !.state = "STREAM"]
                               ELSE d.prefetch
      BY <2>4 DEF LoaderAfter, TakesPacket, LoaderTakes
    <3>3. ~LoaderTakes(d, in)
      BY <2>4 DEF LoaderTakes
    <3> HIDE DEF c
    <3>4. c.prefetch = LoaderAfter(d, in) /\ c.protocol_error = d.protocol_error
      BY <2>2, <3>1, <3>2
    <3>5. QED
      BY <1>2, <2>1, <3>3, <3>4, RegisterNames DEF Keeps, LoaderError
  <2>5. CASE LoaderTakes(d, in)
    <3> DEFINE error == BeatError(d.prefetch.moved, d.prefetch.packet[2], in.rx)
    <3>1. c = [Noted(b, error) EXCEPT
                 !.prefetch.state = IF in.rx.eop THEN "IDLE" ELSE @,
                 !.prefetch.moved = @ + 1]
      BY <2>5 DEF Prefetch, TakesPacket, LoaderTakes
    <3>2. LoaderAfter(d, in) =
            [d.prefetch EXCEPT !.state = IF in.rx.eop THEN "IDLE" ELSE @, !.moved = @ + 1]
      BY <2>5 DEF LoaderAfter, TakesPacket, LoaderTakes
    <3>3. LoaderError(d, in) <=> error
      BY <2>5 DEF LoaderError
    <3> HIDE DEF c, error
    <3>4. c.prefetch = LoaderAfter(d, in) /\ c.protocol_error = (d.protocol_error \/ error)
      BY <2>2, <3>1, <3>2 DEF Noted
    <3>5. QED
      BY <1>2, <2>1, <3>3, <3>4, RegisterNames DEF Keeps
  <2>6. CASE /\ ~TakesPacket(d, in.descriptor) /\ d.prefetch.state # "ISSUE"
             /\ ~LoaderTakes(d, in)
    <3>1. c = b
      BY <2>6 DEF Prefetch, LoaderTakes
    <3>2. LoaderAfter(d, in) = d.prefetch
      BY <2>6 DEF LoaderAfter
    <3> HIDE DEF c
    <3>3. QED
      BY <1>2, <2>2, <2>6, <3>1, <3>2 DEF LoaderError
  <2>7. QED
    BY <2>3, <2>4, <2>5, <2>6
<1>4. /\ DOMAIN s = Registers
      /\ \A r \in Same : s[r] = d[r]
      /\ s.stage = StageAfter(d, in) /\ s.prefetch = LoaderAfter(d, in)
      /\ s.protocol_error <=> d.protocol_error \/ LoaderError(d, in) \/ Refused(d, in)
  <2> HIDE DEF c
  <2>1. Keeps(c, s, {"stage", "armed", "lock", "clear_address", "clear_armed", "backing",
                     "protocol_error"})
    BY <1>3, DMAStoreKeeps
  <2>2. DOMAIN s = Registers /\ (\A r \in Same : s[r] = d[r]) /\ s.prefetch = LoaderAfter(d, in)
    <3> HIDE DEF s
    <3>1. QED
      BY <1>3, <2>1, RegisterNames DEF Keeps
  <2>3. \A r \in {"COMMAND_LOCK", "CLEAR_ADDRESS", "CLEAR_NOTIFY", "COMMAND"} : r \notin StageRegisters
    BY DEF StageRegisters, NoCommand
  <2>4. s.stage = StageAfter(d, in)
    BY <1>3, <2>3, RegisterNames DEF DMAStore, StageAfter, Noted
  <2>5. s.protocol_error <=> d.protocol_error \/ LoaderError(d, in) \/ Refused(d, in)
    <3>1. CASE Refused(d, in)
      BY <1>3, <2>3, <3>1, RegisterNames DEF DMAStore, Noted, Refused
    <3>2. CASE ~Refused(d, in)
      BY <1>3, <2>3, <3>2, RegisterNames DEF DMAStore, Noted, Refused
    <3>3. QED
      BY <3>1, <3>2
  <2>6. QED
    BY <2>2, <2>4, <2>5
<1>5. /\ Prepared(d, p, in)
      /\ p.stage = StageAfter(d, in) /\ p.prefetch = LoaderAfter(d, in)
  <2> HIDE DEF s
  <2>1. Keeps(s, p, {"commands", "armed", "issued"})
    BY <1>4, PushKeeps
  <2>2. p.commands = Pushed(d, in)
    BY <1>4, RegisterNames DEF Push, Pushed
  <2> HIDE DEF p
  <2>3. QED
    BY <1>4, <2>1, <2>2, RegisterNames DEF Keeps, Prepared
<1>6. /\ DOMAIN e = Registers
      /\ e.stage = StageAfter(d, in) /\ e.prefetch = LoaderAfter(d, in)
  <2> HIDE DEF p
  <2>1. Keeps(p, e, EngineRegisters)
    BY <1>5, EngineKeeps DEF Prepared
  <2> HIDE DEF e
  <2>2. QED
    BY <1>5, <2>1, RegisterNames DEF Keeps, EngineRegisters, Prepared
<1>7. \A r \in (Same \ {"issued"}) \cup {"protocol_error", "stage", "prefetch"} : f[r] = e[r]
  <2> HIDE DEF e
  <2>1. Keeps(e, f, {"l2_commits", "backing_commits", "cache_completed"})
    BY <1>6, PairCommitsKeeps
  <2> HIDE DEF f
  <2>2. QED
    BY <1>6, <2>1, RegisterNames DEF Keeps
<1>8. f = DMAEdge(d, in)
  BY DEF DMAEdge
<1> HIDE DEF p, f
<1>9. QED
  BY <1>5, <1>6, <1>7, <1>8

(* What PacketDMA sees at an edge. *)
EdgeInput(ev) ==
  LET packet == backing_dma(dma)
      to == ToMemory(arbiter, CpuRequest, packet)
      from == FromDDR4(ddr4, to)
  IN  Input(StoreAt(ev), ev, L2Answer(ev), ToPacket(arbiter, CpuRequest, packet, from))

(* An edge as the reads see it. *)
ReadsEdge(in) ==
  LET taken == in.rx # NoBeat /\ rx_ready(dma, in)
  IN  /\ dma' = DMAEdge(dma, in)
      /\ in.descriptor = fetcher.command
      /\ in.read_ready <=> Len(reads) < READ_CDC
      /\ in.rx # NoBeat =>
           /\ reads # << >> /\ in.rx = LineBeat(Head(reads), read_line)
           /\ \/ dma.prefetch.state = "STREAM"
              \/ dma.state = "WAIT_INPUT" /\ Is(dma, "NETWORK_CPU")
      /\ reads' = (IF taken /\ in.rx.eop THEN Tail(reads) ELSE reads)
                  \o (IF in.read_ready THEN rx_read(dma, fetcher.command) ELSE << >>)
      /\ read_line' = IF ~taken THEN read_line ELSE IF in.rx.eop THEN 0 ELSE read_line + 1
      /\ refused' <=> refused \/ Refuses(dma, in)

(* A line that came is told from no line. *)
LEMMA LineIsBeat ==
  ASSUME NEW p, NEW i
  PROVE  LineBeat(p, i) # NoBeat
<1>1. LineBeat(p, i).data = << p[1], i >> /\ NoBeat.data = << >>
  BY DEF LineBeat, NoBeat, Line
<1>2. Len(<< p[1], i >>) = 2 /\ Len(<< >>) = 0
  OBVIOUS
<1>3. QED
  BY <1>1, <1>2

(* A line comes only for a packet asked for, to an engine that waits. *)
LEMMA RxEvents ==
  ASSUME Harts \subseteq {"hart1", "hart2"}, NEW ev \in SUBSET Events, RxVisible(ev)
  PROVE  /\ reads # << >>
         /\ \/ dma.prefetch.state = "STREAM"
            \/ dma.state = "WAIT_INPUT" /\ Is(dma, "NETWORK_CPU")
<1>1. CASE "rx" \in ev
  <2>1. "rx" \in Events
    BY <1>1
  <2>2. QED
    BY <2>1 DEF Events
<1>2. CASE "system" \in ev /\ Streams(dma)
  <2>1. "system" \in Events
    BY <1>2
  <2>2. reads # << >>
    BY <1>2, <2>1 DEF Events
  <2>3. QED
    BY <1>2, <2>2 DEF Streams
<1>3. QED
  BY <1>1, <1>2 DEF RxVisible

(* An edge of the cluster is one. *)
LEMMA EdgeReads ==
  ASSUME Harts \subseteq {"hart1", "hart2"}, NEW ev \in SUBSET Events, Edge(ev)
  PROVE  /\ ReadsEdge(EdgeInput(ev)) /\ EdgeInput(ev).store = StoreAt(ev)
         /\ fetcher' = FetcherEdge(fetcher, StoreAt(ev), WordAt(ev), DescriptorReady,
                                   dma.cache_completed)
         /\ firmware' = firmware
<1> DEFINE in == EdgeInput(ev)
<1>1. /\ in.descriptor = fetcher.command
      /\ in.read_ready = (Len(reads) < READ_CDC)
      /\ in.store = StoreAt(ev)
      /\ in.rx = IF RxVisible(ev) THEN LineBeat(Head(reads), read_line) ELSE NoBeat
  BY DEF EdgeInput, Input
<1>2. /\ dma' = DMAEdge(dma, in)
      /\ reads' = (IF (RxVisible(ev) /\ rx_ready(dma, in)) /\ in.rx.eop THEN Tail(reads) ELSE reads)
                  \o (IF in.read_ready THEN rx_read(dma, fetcher.command) ELSE << >>)
      /\ read_line' = IF ~(RxVisible(ev) /\ rx_ready(dma, in)) THEN read_line
                      ELSE IF in.rx.eop THEN 0 ELSE read_line + 1
      /\ fetcher' = FetcherEdge(fetcher, in.store, WordAt(ev), DescriptorReady, dma.cache_completed)
      /\ firmware' = firmware
      /\ refused' <=> refused \/ Refuses(dma, in)
  BY DEF Edge, EdgeInput
<1> HIDE DEF in
<1>3. RxVisible(ev) <=> in.rx # NoBeat
  BY <1>1, LineIsBeat
<1>4. in.rx # NoBeat =>
           /\ reads # << >> /\ in.rx = LineBeat(Head(reads), read_line)
           /\ \/ dma.prefetch.state = "STREAM"
              \/ dma.state = "WAIT_INPUT" /\ Is(dma, "NETWORK_CPU")
  BY <1>1, <1>3, RxEvents
<1>5. ReadsEdge(in)
  BY <1>1, <1>2, <1>3, <1>4 DEF ReadsEdge
<1>6. QED
  BY <1>1, <1>2, <1>5 DEF in

(* What the engine leaves of what it finds: the same command still at work, *)
Working(p, e, state, moved, beat, error) ==
  /\ e.state = state /\ e.moved = moved /\ e.beat = beat
  /\ e.active = p.active /\ e.commands = p.commands /\ e.completed = p.completed
  /\ e.protocol_error <=> p.protocol_error \/ error

(* the first command taken up, *)
StartState(d, c) ==
  IF IsNetwork(c)
  THEN IF d.prefetch.state # "IDLE" THEN "IDLE"
       ELSE IF "NETWORK_PREFETCHED" \in c.FLAGS THEN "WAIT_INPUT" ELSE "ISSUE_NETWORK_READ"
  ELSE IF "SYSTEM_CPU" \in c.FLAGS THEN "WAIT_INPUT" ELSE "READ_ADDRESS"

Started(d, p, e) ==
  /\ e.state = StartState(d, Head(p.commands)) /\ e.moved = 0 /\ e.beat = p.beat
  /\ e.active = Head(p.commands) /\ e.commands = p.commands /\ e.completed = p.completed
  /\ e.protocol_error <=> p.protocol_error

(* or the command done. *)
Ended(p, e, error) ==
  /\ e.state = "IDLE" /\ e.commands = Tail(p.commands) /\ e.completed = p.completed + 1
  /\ e.active = p.active
  /\ e.protocol_error <=> p.protocol_error \/ error

(* The beat the command at work waits for; straight input is not stored. *)
StraightInput(d) == Flag(d, "NETWORK_DISCARD") \/ Flag(d, "NETWORK_SYSTEM")
EngineInput(d, in) == IF Is(d, "NETWORK_CPU") THEN in.rx ELSE in.system_rx

(* A line that goes on in the cycle it comes. *)
PassesOn(d) == Is(d, "NETWORK_CPU") /\ (StraightInput(d) \/ Flag(d, "CACHE_ALLOCATE"))

(* Such a line is taken. *)
TakesInput(d, in) ==
  IF StraightInput(d) THEN Flag(d, "NETWORK_SYSTEM") => in.system_tx_ready
  ELSE l2_line_valid(d, in.rx) /\ in.line_ready

(* What the engine leaves, by its state. *)
EngineResult(d, p, e, in) ==
  LET stays == Working(p, e, d.state, d.moved, d.beat, FALSE)
      goes(state) == Working(p, e, state, d.moved, d.beat, FALSE)
      input == EngineInput(d, in)
      error == BeatError(d.moved, d.active.LENGTH, input)
      stored == BeatError(d.moved, d.active.LENGTH, d.beat)
  IN  /\ d.state = "IDLE" => IF p.commands # << >> THEN Started(d, p, e) ELSE stays
      /\ d.state = "ISSUE_NETWORK_READ" => IF in.read_ready THEN goes("WAIT_INPUT") ELSE stays
      /\ d.state = "WAIT_INPUT" =>
           IF input = NoBeat \/ (PassesOn(d) /\ ~TakesInput(d, in)) THEN stays
           ELSE IF ~PassesOn(d)
           THEN Working(p, e, "WRITE_ADDRESS", d.moved, input, input.sop # (d.moved = 0))
           ELSE IF input.eop THEN Ended(p, e, error)
           ELSE Working(p, e, "WAIT_INPUT", d.moved + 1, d.beat, error)
      /\ d.state = "WRITE_ADDRESS" => stays \/ goes("WRITE_DATA")
      /\ d.state = "WRITE_DATA" => stays \/ goes("WRITE_RESPONSE")
      /\ d.state = "WRITE_RESPONSE" =>
           \/ stays
           \/ IF d.beat.eop THEN Ended(p, e, stored)
              ELSE Working(p, e, "WAIT_INPUT", d.moved + 1, d.beat, stored)
      /\ d.state = "READ_ADDRESS" => stays \/ goes("READ_DATA")
      /\ d.state = "READ_DATA" =>
           stays \/ \E beat : Working(p, e, "SEND_OUTPUT", d.moved, beat, FALSE)
      /\ d.state = "SEND_OUTPUT" =>
           \/ stays \/ goes("POST_TX_CLEAR")
           \/ Ended(p, e, FALSE)
           \/ Working(p, e, "READ_ADDRESS", d.moved + 1, d.beat, FALSE)
      /\ d.state = "POST_TX_CLEAR" => stays \/ Ended(p, e, FALSE)

(* A beat moved ends the command or leaves the next one to come. *)
LEMMA MovedResult ==
  ASSUME NEW d, NEW p, NEW error, NEW beat, NEW state, DOMAIN p = Registers
  PROVE  LET e == Moved(d, Noted(p, error), beat, state)
         IN  IF beat.eop THEN Ended(p, e, error)
             ELSE Working(p, e, state, p.moved + 1, p.beat, error)
<1> DEFINE w == Noted(p, error)
           e == Moved(d, w, beat, state)
<1>1. /\ DOMAIN w = Registers
      /\ \A r \in Registers \ {"protocol_error"} : w[r] = p[r]
      /\ w.protocol_error <=> p.protocol_error \/ error
  BY RegisterNames DEF Noted
<1> HIDE DEF w
<1>2. CASE beat.eop
  <2>1. e = [w EXCEPT !.state = "IDLE", !.commands = Tail(@), !.completed = @ + 1]
    BY <1>2 DEF Moved, Complete
  <2> HIDE DEF e
  <2>2. Ended(p, e, error)
    BY <1>1, <2>1, RegisterNames DEF Ended
  <2>3. QED
    BY <1>2, <2>2 DEF e, w
<1>3. CASE ~beat.eop
  <2>1. e = [w EXCEPT !.moved = @ + 1, !.state = state]
    BY <1>3 DEF Moved
  <2> HIDE DEF e
  <2>2. Working(p, e, state, p.moved + 1, p.beat, error)
    BY <1>1, <2>1, RegisterNames DEF Working
  <2>3. QED
    BY <1>3, <2>2 DEF e, w
<1>4. QED
  BY <1>2, <1>3

(* The same for a beat that is not checked. *)
LEMMA MovedQuietly ==
  ASSUME NEW d, NEW p, NEW beat, NEW state, DOMAIN p = Registers
  PROVE  LET e == Moved(d, p, beat, state)
         IN  IF beat.eop THEN Ended(p, e, FALSE)
             ELSE Working(p, e, state, p.moved + 1, p.beat, FALSE)
<1> DEFINE e == Moved(d, p, beat, state)
<1>1. CASE beat.eop
  <2>1. e = [p EXCEPT !.state = "IDLE", !.commands = Tail(@), !.completed = @ + 1]
    BY <1>1 DEF Moved, Complete
  <2> HIDE DEF e
  <2>2. Ended(p, e, FALSE)
    BY <2>1, RegisterNames DEF Ended
  <2>3. QED
    BY <1>1, <2>2 DEF e
<1>2. CASE ~beat.eop
  <2>1. e = [p EXCEPT !.moved = @ + 1, !.state = state]
    BY <1>2 DEF Moved
  <2> HIDE DEF e
  <2>2. Working(p, e, state, p.moved + 1, p.beat, FALSE)
    BY <2>1, RegisterNames DEF Working
  <2>3. QED
    BY <1>2, <2>2 DEF e
<1>3. QED
  BY <1>1, <1>2

(* The engine does one of these, by its state. *)
LEMMA EngineGoes ==
  ASSUME NEW d, NEW p, NEW in, Prepared(d, p, in)
  PROVE  EngineResult(d, p, Engine(d, p, in), in)
<1> DEFINE e == Engine(d, p, in)
           memory == IF ReadsRing(d) THEN in.backing ELSE in.l2
           input == EngineInput(d, in)
           error == BeatError(d.moved, d.active.LENGTH, input)
           stored == BeatError(d.moved, d.active.LENGTH, d.beat)
<1>1. /\ DOMAIN p = Registers /\ p.state = d.state /\ p.active = d.active
      /\ p.moved = d.moved /\ p.beat = d.beat
  BY DEF Prepared
<1>2. Working(p, p, d.state, d.moved, d.beat, FALSE)
  BY <1>1 DEF Working
<1>3. \A state : Working(p, [p EXCEPT !.state = state], state, d.moved, d.beat, FALSE)
  BY <1>1, RegisterNames DEF Working
<1>4. CASE d.state = "IDLE"
  <2>1. e = IF p.commands # << >> THEN Start(d, p) ELSE p
    BY <1>4 DEF Engine
  <2>2. ASSUME p.commands # << >> PROVE Started(d, p, e)
    <3> DEFINE c == Head(p.commands)
               taken == [p EXCEPT !.active = c, !.moved = 0]
    <3>1. e = IF IsNetwork(c) /\ d.prefetch.state # "IDLE" THEN taken
              ELSE [taken EXCEPT !.state = StartState(d, c)]
      BY <2>1, <2>2 DEF Start, IsNetwork, StartState
    <3>2. IsNetwork(c) /\ d.prefetch.state # "IDLE" => StartState(d, c) = "IDLE"
      BY DEF StartState
    <3> HIDE DEF e, c
    <3>3. QED
      BY <1>1, <1>4, <3>1, <3>2, RegisterNames DEF Started, c
  <2> HIDE DEF e
  <2>3. QED
    BY <1>2, <1>4, <2>1, <2>2 DEF EngineResult, e
<1>5. CASE d.state = "ISSUE_NETWORK_READ"
  <2>1. e = IF in.read_ready THEN [p EXCEPT !.state = "WAIT_INPUT"] ELSE p
    BY <1>5 DEF Engine
  <2> HIDE DEF e
  <2>2. QED
    BY <1>2, <1>3, <1>5, <2>1 DEF EngineResult, e
<1>6. CASE d.state = "WAIT_INPUT"
  <2> DEFINE whole == Moved(d, Noted(p, error), input, "WAIT_INPUT")
             kept == [Noted(p, input.sop # (d.moved = 0)) EXCEPT
                        !.beat = input, !.state = "WRITE_ADDRESS"]
  <2>1. e = IF input = NoBeat \/ (PassesOn(d) /\ ~TakesInput(d, in)) THEN p
            ELSE IF ~PassesOn(d) THEN kept ELSE whole
    BY <1>6 DEF Engine, WaitInput, PassesOn, TakesInput, EngineInput, StraightInput
  <2>2. IF input.eop THEN Ended(p, whole, error)
        ELSE Working(p, whole, "WAIT_INPUT", d.moved + 1, d.beat, error)
    <3> HIDE DEF input, error
    <3>1. QED
      BY <1>1, MovedResult
  <2>3. Working(p, kept, "WRITE_ADDRESS", d.moved, input, input.sop # (d.moved = 0))
    <3> DEFINE n == Noted(p, input.sop # (d.moved = 0))
    <3>1. /\ DOMAIN n = Registers
          /\ \A r \in Registers \ {"protocol_error"} : n[r] = p[r]
          /\ n.protocol_error <=> p.protocol_error \/ input.sop # (d.moved = 0)
      BY <1>1, RegisterNames DEF Noted
    <3>2. kept = [n EXCEPT !.beat = input, !.state = "WRITE_ADDRESS"]
      OBVIOUS
    <3> HIDE DEF n, kept, input
    <3>3. QED
      BY <1>1, <3>1, <3>2, RegisterNames DEF Working
  <2> HIDE DEF e, whole, kept
  <2>4. QED
    BY <1>2, <1>6, <2>1, <2>2, <2>3 DEF EngineResult, e
<1>7. CASE d.state = "WRITE_ADDRESS"
  <2>1. e = IF in.l2.awready THEN [p EXCEPT !.state = "WRITE_DATA"] ELSE p
    BY <1>7 DEF Engine
  <2> HIDE DEF e
  <2>2. QED
    BY <1>2, <1>3, <1>7, <2>1 DEF EngineResult, e
<1>8. CASE d.state = "WRITE_DATA"
  <2>1. e = IF in.l2.wready THEN [p EXCEPT !.state = "WRITE_RESPONSE"] ELSE p
    BY <1>8 DEF Engine
  <2> HIDE DEF e
  <2>2. QED
    BY <1>2, <1>3, <1>8, <2>1 DEF EngineResult, e
<1>9. CASE d.state = "WRITE_RESPONSE"
  <2> DEFINE whole == Moved(d, Noted(p, stored), d.beat, "WAIT_INPUT")
  <2>1. e = IF in.l2.bvalid THEN whole ELSE p
    BY <1>9 DEF Engine
  <2>2. IF d.beat.eop THEN Ended(p, whole, stored)
        ELSE Working(p, whole, "WAIT_INPUT", d.moved + 1, d.beat, stored)
    <3> HIDE DEF stored
    <3>1. QED
      BY <1>1, MovedResult
  <2> HIDE DEF e, whole
  <2>3. QED
    BY <1>2, <1>9, <2>1, <2>2 DEF EngineResult, e
<1>10. CASE d.state = "READ_ADDRESS"
  <2>1. e = IF memory.arready THEN [p EXCEPT !.state = "READ_DATA"] ELSE p
    BY <1>10 DEF Engine
  <2> HIDE DEF e, memory
  <2>2. QED
    BY <1>2, <1>3, <1>10, <2>1 DEF EngineResult, e
<1>11. CASE d.state = "READ_DATA"
  <2> DEFINE beat == [data |-> memory.rdata, sop |-> d.moved = 0, eop |-> remaining(d) <= 1]
  <2>1. e = IF memory.rvalid THEN [p EXCEPT !.state = "SEND_OUTPUT", !.beat = beat] ELSE p
    BY <1>11 DEF Engine
  <2> HIDE DEF e, memory, beat
  <2>2. Working(p, [p EXCEPT !.state = "SEND_OUTPUT", !.beat = beat], "SEND_OUTPUT", d.moved, beat, FALSE)
    BY <1>1, RegisterNames DEF Working
  <2>3. QED
    BY <1>2, <1>11, <2>1, <2>2 DEF EngineResult, e
<1>12. CASE d.state = "SEND_OUTPUT"
  <2> DEFINE ready == IF Is(d, "CPU_SYSTEM") THEN in.system_tx_ready ELSE in.network_tx_ready
             next == Moved(d, p, d.beat, "READ_ADDRESS")
  <2>1. e \in {p, [p EXCEPT !.state = "POST_TX_CLEAR"], next}
    BY <1>12 DEF Engine, SendOutput
  <2>2. Ended(p, next, FALSE) \/ Working(p, next, "READ_ADDRESS", d.moved + 1, d.beat, FALSE)
    BY <1>1, MovedQuietly
  <2> HIDE DEF e, next
  <2>3. QED
    BY <1>2, <1>3, <1>12, <2>1, <2>2 DEF EngineResult, e
<1>13. CASE d.state = "POST_TX_CLEAR"
  <2> DEFINE done == [Complete(p) EXCEPT !.post_clear = Append(@, d.active.SOURCE)]
  <2>1. e = IF Len(p.post_clear) < CLEAR_DEPTH THEN done ELSE p
    BY <1>13 DEF Engine
  <2>2. Ended(p, done, FALSE)
    BY <1>1, RegisterNames DEF Ended, Complete
  <2> HIDE DEF e, done
  <2>3. QED
    BY <1>2, <1>13, <2>1, <2>2 DEF EngineResult, e
<1>14. QED
  BY <1>4, <1>5, <1>6, <1>7, <1>8, <1>9, <1>10, <1>11, <1>12, <1>13 DEF EngineResult

(* A command whose packet is not stored, and one whose read is taken. *)
Straight(c) == {"NETWORK_DISCARD", "NETWORK_SYSTEM"} \cap c.FLAGS # {}
Prefetched(c) == "NETWORK_PREFETCHED" \in c.FLAGS

(* The registers, the queue of commands and the command at work. *)
EngineTypes ==
  /\ DOMAIN dma = Registers /\ DOMAIN dma.stage = StageRegisters
  /\ DOMAIN dma.prefetch = {"state", "packet", "buffer", "moved"}
  /\ Queue(dma.commands) /\ Len(dma.commands) <= CMD_DEPTH
  /\ dma.state # "IDLE" => dma.commands # << >> /\ dma.active = Head(dma.commands)

(* Only the loading engine asks for packets, one at a time. *)
LoaderReads ==
  /\ ~IsNetwork(dma.stage) /\ ~IsNetwork(dma.active)
  /\ \A i \in 1 .. Len(dma.commands) : ~IsNetwork(dma.commands[i])
  /\ dma.state # "ISSUE_NETWORK_READ"
  /\ dma.prefetch.state \in {"IDLE", "ISSUE", "STREAM"}
  /\ dma.prefetch.state = "ISSUE" => dma.prefetch.moved = 0
  /\ IF dma.prefetch.state = "STREAM"
     THEN reads = << dma.prefetch.packet >> /\ read_line = dma.prefetch.moved
     ELSE reads = << >> /\ read_line = 0

(* What enters the queue. *)
LEMMA PushedQueue ==
  ASSUME NEW d, NEW in, Queue(d.commands), Len(d.commands) <= CMD_DEPTH, DmaAssumption
  PROVE  /\ Queue(Pushed(d, in)) /\ Len(Pushed(d, in)) <= CMD_DEPTH
         /\ d.commands # << >> => Pushed(d, in) # << >> /\ Head(Pushed(d, in)) = Head(d.commands)
<1>1. CASE Orders(d, in)
  <2>1. Pushed(d, in) = Append(d.commands, d.stage) /\ HasRoom(d)
    BY <1>1 DEF Pushed, Orders
  <2>2. QED
    BY <2>1, AppendElements DEF HasRoom, DmaAssumption
<1>2. CASE ~Orders(d, in) /\ in.descriptor # << >> /\ ~Head(in.descriptor).cache /\ HasRoom(d)
  <2> DEFINE c == DescriptorCommand(Head(in.descriptor), in.read_ready)
  <2>1. Pushed(d, in) = Append(d.commands, c) /\ HasRoom(d)
    BY <1>2 DEF Pushed
  <2> HIDE DEF c
  <2>2. QED
    BY <2>1, AppendElements DEF HasRoom, DmaAssumption
<1>3. CASE Pushed(d, in) = d.commands
  BY <1>3
<1>4. QED
  BY <1>1, <1>2, <1>3 DEF Pushed

(* A command at work goes on or ends; only its start asks for a packet. *)
LEMMA EngineOutcome ==
  ASSUME NEW d, NEW p, NEW in, Prepared(d, p, in), d.state # "IDLE"
  PROVE  LET e == Engine(d, p, in)
         IN  /\ e.active = p.active
             /\ \/ /\ e.commands = p.commands /\ e.state # "IDLE"
                   /\ e.state = "ISSUE_NETWORK_READ" => d.state = "ISSUE_NETWORK_READ"
                \/ e.commands = Tail(p.commands) /\ e.state = "IDLE"
<1> DEFINE e == Engine(d, p, in)
           Goal == /\ e.active = p.active
                   /\ \/ /\ e.commands = p.commands /\ e.state # "IDLE"
                         /\ e.state = "ISSUE_NETWORK_READ" => d.state = "ISSUE_NETWORK_READ"
                      \/ e.commands = Tail(p.commands) /\ e.state = "IDLE"
<1>1. EngineResult(d, p, e, in)
  BY EngineGoes
<1>2. d.state \notin {"IDLE", "ISSUE_NETWORK_READ", "WAIT_INPUT", "WRITE_ADDRESS",
                     "WRITE_DATA", "WRITE_RESPONSE", "READ_ADDRESS", "READ_DATA",
                     "SEND_OUTPUT", "POST_TX_CLEAR"} => e = p /\ p.state = d.state
  BY DEF Engine, Prepared
<1> SUFFICES Goal
  OBVIOUS
<1> HIDE DEF e
<1>3. CASE d.state = "ISSUE_NETWORK_READ"
  BY <1>1, <1>3 DEF EngineResult, Working
<1>4. CASE d.state = "WAIT_INPUT"
  BY <1>1, <1>4 DEF EngineResult, Working, Ended
<1>5. CASE d.state \in {"WRITE_ADDRESS", "WRITE_DATA"}
  BY <1>1, <1>5 DEF EngineResult, Working
<1>6. CASE d.state = "WRITE_RESPONSE"
  BY <1>1, <1>6 DEF EngineResult, Working, Ended
<1>7. CASE d.state \in {"READ_ADDRESS", "READ_DATA"}
  BY <1>1, <1>7 DEF EngineResult, Working
<1>8. CASE d.state \in {"SEND_OUTPUT", "POST_TX_CLEAR"}
  BY <1>1, <1>8 DEF EngineResult, Working, Ended
<1>9. QED
  BY <1>2, <1>3, <1>4, <1>5, <1>6, <1>7, <1>8

(* An edge keeps them. *)
LEMMA TypesNext ==
  ASSUME EngineTypes, DmaAssumption, NEW in, dma' = DMAEdge(dma, in)
  PROVE  EngineTypes'
<1>1. PICK p : LET e == Engine(dma, p, in)
               IN  /\ Prepared(dma, p, in)
                   /\ dma'.state = e.state /\ dma'.active = e.active
                   /\ dma'.commands = e.commands
                   /\ dma'.stage = StageAfter(dma, in) /\ dma'.prefetch = LoaderAfter(dma, in)
  BY DMAParts DEF EngineTypes
<1> DEFINE e == Engine(dma, p, in)
<1>2. EngineResult(dma, p, e, in)
  BY <1>1, EngineGoes
<1>3. DOMAIN dma' = Registers
  BY LockEdge DEF EngineTypes
<1>4. DOMAIN dma'.stage = StageRegisters
  BY <1>1 DEF EngineTypes, StageAfter
<1>5. DOMAIN dma'.prefetch = {"state", "packet", "buffer", "moved"}
  BY <1>1 DEF EngineTypes, LoaderAfter
<1>6. /\ Queue(p.commands) /\ Len(p.commands) <= CMD_DEPTH
      /\ dma.state # "IDLE" => p.commands # << >> /\ p.active = Head(p.commands)
  BY <1>1, PushedQueue DEF EngineTypes, Prepared
<1> HIDE DEF e
<1>7. \/ /\ e.commands = p.commands
         /\ e.state # "IDLE" => p.commands # << >> /\ e.active = Head(p.commands)
      \/ e.state = "IDLE" /\ e.commands = Tail(p.commands) /\ p.commands # << >>
  <2>1. CASE dma.state = "IDLE"
    BY <1>2, <2>1 DEF EngineResult, Started, Working
  <2>2. CASE dma.state # "IDLE"
    <3>1. /\ e.active = p.active
          /\ \/ e.commands = p.commands
             \/ e.commands = Tail(p.commands) /\ e.state = "IDLE"
      BY <1>1, <2>2, EngineOutcome DEF e
    <3>2. QED
      BY <1>6, <2>2, <3>1
  <2>3. QED
    BY <2>1, <2>2
<1>8. Queue(e.commands) /\ Len(e.commands) <= CMD_DEPTH
  <2>1. CASE e.commands = p.commands
    BY <1>6, <2>1
  <2>2. CASE e.commands = Tail(p.commands) /\ p.commands # << >>
    BY <1>6, <2>2, LastTail, TailElements DEF DmaAssumption
  <2>3. QED
    BY <1>7, <2>1, <2>2
<1>9. dma'.state # "IDLE" => dma'.commands # << >> /\ dma'.active = Head(dma'.commands)
  BY <1>1, <1>7 DEF e
<1>10. QED
  BY <1>1, <1>3, <1>4, <1>5, <1>8, <1>9 DEF EngineTypes, e

(* The flags staged after a store. *)
LEMMA StagedFlags ==
  ASSUME NEW d, NEW in, DOMAIN d.stage = StageRegisters
  PROVE  StageAfter(d, in).FLAGS = IF in.store.register = "FLAGS" THEN in.store.value
                                   ELSE d.stage.FLAGS
BY DEF StageAfter, StageRegisters, NoCommand

(* A pair of sequences of at most one element. *)
LEMMA OneElement ==
  ASSUME NEW x
  PROVE  /\ << >> \o << x >> = << x >> /\ << x >> \o << >> = << x >>
         /\ Tail(<< x >>) = << >> /\ << >> \o << >> = << >>
         /\ Len(<< x >>) = 1 /\ Len(<< >>) = 0 /\ << x >> # << >> /\ Head(<< x >>) = x
OBVIOUS

(* An edge keeps the reads those of the loading engine. *)
LEMMA LoaderNext ==
  ASSUME EngineTypes, LoaderReads, ClusterAssumption, DmaAssumption, NEW in, ReadsEdge(in),
         fetcher.command # << >> => Head(fetcher.command).cache,
         in.store.register = "FLAGS" => "NETWORK_CPU" \notin in.store.value
  PROVE  LoaderReads'
<1> DEFINE d == dma
<1>1. PICK p : LET e == Engine(dma, p, in)
               IN  /\ Prepared(dma, p, in)
                   /\ dma'.state = e.state /\ dma'.active = e.active
                   /\ dma'.commands = e.commands
                   /\ dma'.stage = StageAfter(dma, in) /\ dma'.prefetch = LoaderAfter(dma, in)
  BY DMAParts DEF EngineTypes, ReadsEdge
<1> DEFINE e == Engine(dma, p, in)
<1>2. EngineResult(dma, p, e, in)
  BY <1>1, EngineGoes
<1>3. ~IsNetwork(dma'.stage)
  BY <1>1, StagedFlags DEF EngineTypes, LoaderReads, IsNetwork
<1>4. /\ Queue(p.commands) /\ \A i \in 1 .. Len(p.commands) : ~IsNetwork(p.commands[i])
      /\ p.active = dma.active /\ p.state = dma.state
      /\ dma.state # "IDLE" => p.commands # << >>
  <2>1. p.commands \in {dma.commands, Append(dma.commands, dma.stage)}
    BY <1>1 DEF Prepared, Pushed, ReadsEdge
  <2>2. Queue(dma.commands) /\ ~IsNetwork(dma.stage)
        /\ \A i \in 1 .. Len(dma.commands) : ~IsNetwork(dma.commands[i])
    BY DEF EngineTypes, LoaderReads
  <2>3. \A i \in 1 .. Len(p.commands) : ~IsNetwork(p.commands[i])
    <3>1. CASE p.commands = dma.commands
      BY <2>2, <3>1
    <3>2. CASE p.commands = Append(dma.commands, dma.stage)
      <4>1. SUFFICES ASSUME NEW i \in 1 .. Len(p.commands) PROVE ~IsNetwork(p.commands[i])
        OBVIOUS
      <4>2. (i \in 1 .. Len(dma.commands) /\ p.commands[i] = dma.commands[i])
            \/ p.commands[i] = dma.stage
        BY <2>2, <3>2, OldOrNew
      <4>3. QED
        BY <2>2, <4>2
    <3>3. QED
      BY <2>1, <3>1, <3>2
  <2>4. QED
    BY <1>1, <2>2, <2>3, PushedQueue DEF Prepared, EngineTypes
<1>5. ~IsNetwork(e.active) /\ e.state # "ISSUE_NETWORK_READ"
      /\ (e.commands = p.commands \/ (e.commands = Tail(p.commands) /\ p.commands # << >>))
  <2> HIDE DEF e
  <2>1. CASE dma.state = "IDLE"
    <3>1. CASE p.commands = << >>
      BY <1>2, <1>4, <2>1, <3>1 DEF EngineResult, Working, LoaderReads
    <3>2. CASE p.commands # << >>
      <4>1. Started(dma, p, e)
        BY <1>2, <2>1, <3>2 DEF EngineResult
      <4>2. ~IsNetwork(Head(p.commands))
        BY <1>4, <3>2, TailElements
      <4>3. QED
        BY <4>1, <4>2 DEF Started, StartState
    <3>3. QED
      BY <3>1, <3>2
  <2>2. CASE dma.state # "IDLE"
    <3>1. /\ e.active = p.active
          /\ \/ /\ e.commands = p.commands
                /\ e.state = "ISSUE_NETWORK_READ" => dma.state = "ISSUE_NETWORK_READ"
             \/ e.commands = Tail(p.commands) /\ e.state = "IDLE"
      BY <1>1, <2>2, EngineOutcome DEF e
    <3>2. QED
      BY <1>4, <2>2, <3>1 DEF LoaderReads
  <2>3. QED
    BY <2>1, <2>2
<1>6. \A i \in 1 .. Len(e.commands) : ~IsNetwork(e.commands[i])
  <2> HIDE DEF e
  <2>1. CASE e.commands = p.commands
    BY <1>4, <2>1
  <2>2. CASE e.commands = Tail(p.commands) /\ p.commands # << >>
    BY <1>4, <2>2, TailElements
  <2>3. QED
    BY <1>5, <2>1, <2>2
<1> DEFINE read == IF in.read_ready THEN rx_read(dma, fetcher.command) ELSE << >>
           taken == in.rx # NoBeat /\ rx_ready(dma, in)
<1>7. /\ ~Is(dma, "NETWORK_CPU") /\ ~Streams(dma)
      /\ in.read_ready <=> Len(reads) < READ_CDC
      /\ in.descriptor = fetcher.command
      /\ dma.prefetch.state \in {"IDLE", "ISSUE", "STREAM"} /\ dma.state # "ISSUE_NETWORK_READ"
      /\ reads' = (IF taken /\ in.rx.eop THEN Tail(reads) ELSE reads) \o read
      /\ read_line' = IF ~taken THEN read_line ELSE IF in.rx.eop THEN 0 ELSE read_line + 1
      /\ READ_CDC \in Nat \ {0}
  BY DEF LoaderReads, IsNetwork, Is, ReadsEdge, Streams, ClusterAssumption
<1>8. CASE dma.prefetch.state = "IDLE"
  <2>1. in.rx = NoBeat /\ reads = << >> /\ read_line = 0
    BY <1>7, <1>8 DEF ReadsEdge, LoaderReads
  <2>2. read = << >>
    BY <1>7, <1>8 DEF rx_read
  <2>3. reads' = << >> /\ read_line' = 0
    BY <1>7, <2>1, <2>2
  <2>4. /\ dma'.prefetch.state \in {"IDLE", "ISSUE"}
        /\ dma'.prefetch.state = "ISSUE" => dma'.prefetch.moved = 0
    BY <1>1, <1>7, <1>8 DEF LoaderAfter, LoaderTakes, TakesPacket
  <2> HIDE DEF e
  <2>5. QED
    BY <1>1, <1>3, <1>5, <1>6, <2>3, <2>4 DEF LoaderReads, e
<1>9. CASE dma.prefetch.state = "ISSUE"
  <2>1. in.rx = NoBeat /\ reads = << >> /\ read_line = 0 /\ dma.prefetch.moved = 0
    BY <1>7, <1>9 DEF ReadsEdge, LoaderReads
  <2>2. in.read_ready
    BY <1>7, <2>1
  <2>3. read = << dma.prefetch.packet >>
    BY <1>9, <2>2 DEF rx_read
  <2>4. dma'.prefetch = [dma.prefetch EXCEPT !.state = "STREAM"]
    BY <1>1, <1>9, <2>2 DEF LoaderAfter, TakesPacket, LoaderTakes
  <2>5. dma'.prefetch.state = "STREAM" /\ dma'.prefetch.packet = dma.prefetch.packet
        /\ dma'.prefetch.moved = 0
    BY <2>1, <2>4 DEF EngineTypes
  <2>6. reads' = << dma.prefetch.packet >> /\ read_line' = 0
    BY <1>7, <2>1, <2>3
  <2> HIDE DEF e
  <2>7. QED
    BY <1>1, <1>3, <1>5, <1>6, <2>5, <2>6 DEF LoaderReads, e
<1>10. CASE dma.prefetch.state = "STREAM"
  <2>1. reads = << dma.prefetch.packet >> /\ read_line = dma.prefetch.moved
    BY <1>10 DEF LoaderReads
  <2>2. read = << >>
    BY <1>7, <1>10 DEF rx_read
  <2>3. taken <=> LoaderTakes(dma, in)
    BY <1>10 DEF LoaderTakes, l2_line_valid, rx_l2_line_selected, rx_ready
  <2>4. CASE ~taken
    <3>1. reads' = << dma.prefetch.packet >> /\ read_line' = read_line
      BY <1>7, <2>1, <2>2, <2>4, OneElement
    <3>2. dma'.prefetch = dma.prefetch
      BY <1>1, <1>10, <2>3, <2>4 DEF LoaderAfter, TakesPacket
    <3> HIDE DEF e
    <3>3. QED
      BY <1>1, <1>3, <1>5, <1>6, <1>10, <2>1, <3>1, <3>2 DEF LoaderReads, e
  <2>5. CASE taken
    <3>1. dma'.prefetch = [dma.prefetch EXCEPT !.state = IF in.rx.eop THEN "IDLE" ELSE @,
                                               !.moved = @ + 1]
      BY <1>1, <1>10, <2>3, <2>5 DEF LoaderAfter, TakesPacket
    <3>2. /\ dma'.prefetch.state = IF in.rx.eop THEN "IDLE" ELSE "STREAM"
          /\ dma'.prefetch.moved = dma.prefetch.moved + 1
          /\ dma'.prefetch.packet = dma.prefetch.packet
      BY <1>10, <3>1 DEF EngineTypes
    <3>3. reads' = (IF in.rx.eop THEN Tail(reads) ELSE reads) \o << >>
          /\ read_line' = IF in.rx.eop THEN 0 ELSE read_line + 1
      BY <1>7, <2>2, <2>5
    <3>4. reads' = IF in.rx.eop THEN << >> ELSE << dma.prefetch.packet >>
      BY <2>1, <3>3, OneElement
    <3> HIDE DEF e, taken
    <3>5. QED
      BY <1>1, <1>3, <1>5, <1>6, <2>1, <3>2, <3>3, <3>4 DEF LoaderReads, e
  <2>6. QED
    BY <2>4, <2>5
<1>11. QED
  BY <1>7, <1>8, <1>9, <1>10

(* The packets the commands of a queue are for. *)
ReadsOf(q) == [i \in 1 .. Len(q) |-> q[i].RX_HANDLE]

(* They are as many as the commands. *)
LEMMA ReadsOfQueue ==
  ASSUME NEW q, Queue(q)
  PROVE  Queue(ReadsOf(q)) /\ Len(ReadsOf(q)) = Len(q)
<1> DEFINE r == ReadsOf(q)
           T == {r[i] : i \in 1 .. Len(q)}
<1>1. Len(q) \in Nat
  BY DEF Queue
<1>2. r \in [1 .. Len(q) -> T]
  BY DEF ReadsOf
<1>3. r \in Seq(T) /\ DOMAIN r = 1 .. Len(q)
  BY <1>1, <1>2, SeqDef
<1> HIDE DEF r, T
<1>4. Len(r) = Len(q)
  BY <1>1, <1>3
<1>5. QED
  BY <1>3, <1>4 DEF Queue, r

(* A command more is a packet more, *)
LEMMA ReadsOfAppend ==
  ASSUME NEW q, Queue(q), NEW x
  PROVE  ReadsOf(Append(q, x)) = ReadsOf(q) \o << x.RX_HANDLE >>
<1> DEFINE r == ReadsOf(q)
           s == ReadsOf(Append(q, x))
           t == r \o << x.RX_HANDLE >>
<1>1. /\ Len(Append(q, x)) = Len(q) + 1 /\ Len(q) \in Nat
      /\ \A i \in 1 .. Len(q) : Append(q, x)[i] = q[i]
      /\ Append(q, x)[Len(q) + 1] = x
  BY AppendElements
<1>2. PICK R : r \in Seq(R) /\ Len(r) = Len(q)
  BY ReadsOfQueue DEF Queue
<1>3. /\ \A i \in 1 .. Len(q) : r[i] = q[i].RX_HANDLE
      /\ s = [i \in 1 .. Len(q) + 1 |-> Append(q, x)[i].RX_HANDLE]
  BY <1>1 DEF ReadsOf
<1> HIDE DEF r, s
<1>4. r \in Seq(R \cup {x.RX_HANDLE}) /\ << x.RX_HANDLE >> \in Seq(R \cup {x.RX_HANDLE})
  BY <1>2
<1>5. t = [i \in 1 .. Len(q) + 1 |-> IF i <= Len(q) THEN r[i] ELSE x.RX_HANDLE]
  BY <1>1, <1>2, <1>4
<1>6. s = t
  BY <1>1, <1>3, <1>5
<1>7. QED
  BY <1>6 DEF r, s

(* and a command done a packet less. *)
LEMMA ReadsOfTail ==
  ASSUME NEW q, Queue(q), q # << >>
  PROVE  ReadsOf(Tail(q)) = Tail(ReadsOf(q))
<1> DEFINE r == ReadsOf(q)
<1>1. /\ Len(Tail(q)) = Len(q) - 1 /\ Len(q) \in Nat \ {0}
      /\ \A i \in 1 .. Len(Tail(q)) : i + 1 \in 1 .. Len(q) /\ Tail(q)[i] = q[i + 1]
  BY TailElements
<1>2. PICK R : r \in Seq(R) /\ Len(r) = Len(q)
  BY ReadsOfQueue DEF Queue
<1>3. /\ \A i \in 1 .. Len(q) : r[i] = q[i].RX_HANDLE
      /\ ReadsOf(Tail(q)) = [i \in 1 .. Len(q) - 1 |-> Tail(q)[i].RX_HANDLE]
  BY <1>1 DEF ReadsOf
<1> HIDE DEF r
<1>4. Tail(r) = [i \in 1 .. Len(q) - 1 |-> r[i + 1]]
  <2>1. r # << >>
    BY <1>1, <1>2
  <2>2. Tail(r) \in Seq(R) /\ Len(Tail(r)) = Len(q) - 1
        /\ \A i \in 1 .. Len(q) - 1 : Tail(r)[i] = r[i + 1]
    BY <1>1, <1>2, <2>1
  <2> DEFINE t == Tail(r)
  <2>3. t = [i \in 1 .. Len(t) |-> t[i]]
    <3>1. t \in [1 .. Len(t) -> R]
      BY <2>2, LenProperties
    <3> HIDE DEF t
    <3>2. QED
      BY <3>1
  <2>4. QED
    BY <2>2, <2>3
<1>5. \A i \in 1 .. Len(q) - 1 : Tail(q)[i].RX_HANDLE = r[i + 1]
  BY <1>1, <1>3
<1>6. QED
  BY <1>3, <1>4, <1>5 DEF r

(* The queue of reads loses its head before it grows as well as after. *)
LEMMA TailGrown ==
  ASSUME NEW r, Queue(r), r # << >>, NEW s, NEW x, s = << >> \/ s = << x >>
  PROVE  Tail(r) \o s = Tail(r \o s)
<1>1. PICK R : r \in Seq(R)
  BY DEF Queue
<1>2. r \in Seq(R \cup {x}) /\ s \in Seq(R \cup {x})
  <2>1. r \in Seq(R \cup {x})
    BY <1>1
  <2>2. CASE s = << >>
    BY <2>1, <2>2, EmptySeq
  <2>3. CASE s = << x >>
    BY <2>1, <2>3
  <2>4. QED
    BY <2>1, <2>2, <2>3
<1> DEFINE T == R \cup {x}
           n == Len(r)
           m == Len(s)
           t == r \o s
<1> HIDE DEF T
<1>3. n \in Nat \ {0} /\ m \in Nat
  BY <1>1, <1>2
<1>4. t \in Seq(T) /\ Len(t) = n + m /\ t # << >>
      /\ \A i \in 1 .. n + m : t[i] = IF i <= n THEN r[i] ELSE s[i - n]
  BY <1>2, <1>3 DEF T
<1>5. Tail(r) \in Seq(T) /\ Len(Tail(r)) = n - 1 /\ \A i \in 1 .. n - 1 : Tail(r)[i] = r[i + 1]
  BY <1>2, <1>3 DEF T
<1>6. Tail(r) \o s \in Seq(T) /\ Len(Tail(r) \o s) = n + m - 1
      /\ \A i \in 1 .. n + m - 1 : (Tail(r) \o s)[i] = IF i <= n - 1 THEN Tail(r)[i] ELSE s[i - n + 1]
  BY <1>2, <1>3, <1>5 DEF T
<1> HIDE DEF t
<1>7. Tail(t) \in Seq(T) /\ Len(Tail(t)) = n + m - 1
      /\ \A i \in 1 .. n + m - 1 : Tail(t)[i] = t[i + 1]
  BY <1>3, <1>4
<1>8. \A i \in 1 .. n + m - 1 : (Tail(r) \o s)[i] = Tail(t)[i]
  BY <1>3, <1>4, <1>5, <1>6, <1>7
<1>9. QED
  BY <1>6, <1>7, <1>8, SeqEqual DEF t

(* A command of a descriptor whose read was taken with it. *)
Carried(c) ==
  IsNetwork(c) /\ Straight(c) /\ Prefetched(c) /\ "CACHE_ALLOCATE" \notin c.FLAGS

(* Every command in the queue has its read, in the order of the queue. *)
DescriptorReads ==
  /\ dma.prefetch.state = "IDLE"
  /\ \A i \in 1 .. Len(dma.commands) : Carried(dma.commands[i])
  /\ dma.state \in {"IDLE", "WAIT_INPUT"}
  /\ reads = ReadsOf(dma.commands)
  /\ read_line = IF dma.state = "WAIT_INPUT" THEN dma.moved ELSE 0

(* An edge that refuses no read keeps the reads those of the queued        *)
(* commands.                                                               *)
LEMMA DescriptorNext ==
  ASSUME EngineTypes, DescriptorReads, ClusterAssumption, DmaAssumption,
         NEW in, ReadsEdge(in), ~Refuses(dma, in),
         fetcher.command # << >> => ~Head(fetcher.command).cache,
         in.store.register # "COMMAND"
  PROVE  DescriptorReads'
<1>1. PICK p : LET e == Engine(dma, p, in)
               IN  /\ Prepared(dma, p, in)
                   /\ dma'.state = e.state /\ dma'.active = e.active /\ dma'.moved = e.moved
                   /\ dma'.commands = e.commands
                   /\ dma'.prefetch = LoaderAfter(dma, in)
  BY DMAParts DEF EngineTypes, ReadsEdge
<1> DEFINE e == Engine(dma, p, in)
           q == p.commands
           read == IF in.read_ready THEN rx_read(dma, fetcher.command) ELSE << >>
           taken == in.rx # NoBeat /\ rx_ready(dma, in)
<1>2. EngineResult(dma, p, e, in)
  BY <1>1, EngineGoes
<1>3. dma'.prefetch.state = "IDLE"
  BY <1>1 DEF LoaderAfter, LoaderTakes, TakesPacket, DescriptorReads, ReadsEdge
<1>4. /\ Queue(dma.commands) /\ Len(dma.commands) \in Nat /\ Len(dma.commands) <= CMD_DEPTH
      /\ Len(reads) = Len(dma.commands) /\ Queue(reads)
      /\ reads = ReadsOf(dma.commands)
      /\ READ_CDC \in Nat /\ CMD_DEPTH \in Nat
  <2>1. Queue(dma.commands) /\ Len(dma.commands) <= CMD_DEPTH /\ reads = ReadsOf(dma.commands)
    BY DEF EngineTypes, DescriptorReads
  <2>2. Len(dma.commands) \in Nat
    BY <2>1 DEF Queue
  <2>3. READ_CDC \in Nat /\ CMD_DEPTH \in Nat
    BY DEF ClusterAssumption, DmaAssumption
  <2>4. QED
    BY <2>1, <2>2, <2>3, ReadsOfQueue
<1>5. /\ Queue(q) /\ \A i \in 1 .. Len(q) : Carried(q[i])
      /\ ReadsOf(q) = reads \o read
      /\ dma.commands # << >> => q # << >> /\ Head(q) = Head(dma.commands)
      /\ \E x : read = << >> \/ read = << x >>
  <2>1. ~Orders(dma, in) /\ dma.prefetch.state = "IDLE" /\ dma.state # "ISSUE_NETWORK_READ"
        /\ in.descriptor = fetcher.command
    BY DEF Orders, DescriptorReads, ReadsEdge
  <2>2. CASE fetcher.command # << >> /\ HasRoom(dma)
    <3> DEFINE c == DescriptorCommand(Head(fetcher.command), in.read_ready)
    <3>1. in.read_ready
      BY <2>1, <2>2 DEF Refuses
    <3>2. q = Append(dma.commands, c)
      BY <1>1, <2>1, <2>2 DEF Prepared, Pushed
    <3>3. read = << Head(fetcher.command).packet >>
      BY <2>1, <2>2, <3>1 DEF rx_read
    <3>4. c.RX_HANDLE = Head(fetcher.command).packet
          /\ c.FLAGS = {"NETWORK_CPU", IF Head(fetcher.command).system THEN "NETWORK_SYSTEM"
                                       ELSE "NETWORK_DISCARD"} \cup {"NETWORK_PREFETCHED"}
      BY <3>1 DEF DescriptorCommand, NoCommand
    <3>5. Carried(c)
      <4>1. /\ "NETWORK_CPU" \in c.FLAGS /\ "NETWORK_PREFETCHED" \in c.FLAGS
            /\ "NETWORK_SYSTEM" \in c.FLAGS \/ "NETWORK_DISCARD" \in c.FLAGS
            /\ "CACHE_ALLOCATE" \notin c.FLAGS
        BY <3>4
      <4> HIDE DEF c
      <4>2. QED
        BY <4>1 DEF Carried, IsNetwork, Straight, Prefetched
    <3> HIDE DEF c
    <3>6. ReadsOf(q) = reads \o read
      <4>1. ReadsOf(Append(dma.commands, c)) = ReadsOf(dma.commands) \o << c.RX_HANDLE >>
        BY <1>4, ReadsOfAppend
      <4>2. ReadsOf(q) = reads \o << c.RX_HANDLE >>
        BY <1>4, <3>2, <4>1
      <4>3. QED
        BY <3>3, <3>4, <4>2
    <3>7. /\ Queue(q) /\ q # << >>
          /\ dma.commands # << >> => Head(q) = Head(dma.commands)
      <4> DEFINE r == Append(dma.commands, c)
      <4>1. /\ Queue(r) /\ r # << >>
            /\ dma.commands # << >> => Head(r) = Head(dma.commands)
        BY <1>4, AppendElements
      <4>2. q = r
        BY <3>2
      <4> HIDE DEF q, r
      <4>3. QED
        BY <4>1, <4>2
    <3>8. \A i \in 1 .. Len(q) : Carried(q[i])
      <4>1. SUFFICES ASSUME NEW i \in 1 .. Len(q) PROVE Carried(q[i])
        OBVIOUS
      <4>2. (i \in 1 .. Len(dma.commands) /\ q[i] = dma.commands[i]) \/ q[i] = c
        BY <1>4, <3>2, OldOrNew
      <4>3. QED
        BY <3>5, <4>2 DEF DescriptorReads
    <3>9. QED
      BY <3>3, <3>6, <3>7, <3>8
  <2>3. CASE ~(fetcher.command # << >> /\ HasRoom(dma))
    <3>1. q = dma.commands /\ read = << >>
      BY <1>1, <2>1, <2>3 DEF Prepared, Pushed, rx_read
    <3>2. PICK R : reads \in Seq(R)
      BY <1>4 DEF Queue
    <3>3. reads \o read = reads
      BY <3>1, <3>2, ConcatEmptySeq
    <3>4. QED
      BY <1>4, <3>1, <3>3 DEF DescriptorReads
  <2>4. QED
    BY <2>2, <2>3
<1>6. /\ reads' = (IF taken /\ in.rx.eop THEN Tail(reads) ELSE reads) \o read
      /\ read_line' = IF ~taken THEN read_line ELSE IF in.rx.eop THEN 0 ELSE read_line + 1
  BY DEF ReadsEdge
<1> HIDE DEF q, read, e
<1>7. CASE dma.state = "IDLE"
  <2>1. in.rx = NoBeat /\ read_line = 0
    BY <1>7 DEF ReadsEdge, DescriptorReads
  <2>2. reads' = ReadsOf(q) /\ read_line' = 0
    BY <1>5, <1>6, <2>1
  <2>3. CASE q = << >>
    <3>1. e.state = "IDLE" /\ e.commands = q
      BY <1>2, <1>7, <2>3 DEF EngineResult, Working, q
    <3>2. QED
      BY <1>1, <1>3, <1>5, <2>2, <3>1 DEF DescriptorReads, e
  <2>4. CASE q # << >>
    <3>1. Started(dma, p, e)
      BY <1>2, <1>7, <2>4 DEF EngineResult, q
    <3>2. Carried(Head(q))
      BY <1>5, <2>4, TailElements
    <3>3. e.state = "WAIT_INPUT" /\ e.commands = q /\ e.moved = 0
      BY <3>1, <3>2 DEF Started, StartState, Carried, IsNetwork, Prefetched, DescriptorReads, q
    <3>4. QED
      BY <1>1, <1>3, <1>5, <2>2, <3>3 DEF DescriptorReads, e
  <2>5. QED
    BY <2>3, <2>4
<1>8. CASE dma.state = "WAIT_INPUT"
  <2>1. dma.commands # << >> /\ Carried(dma.active) /\ read_line = dma.moved
    BY <1>4, <1>8, TailElements DEF EngineTypes, DescriptorReads
  <2>2. /\ Is(dma, "NETWORK_CPU") /\ StraightInput(dma) /\ ~Flag(dma, "CACHE_ALLOCATE")
    BY <2>1 DEF Carried, IsNetwork, Straight, Is, StraightInput, Flag
  <2>3. EngineInput(dma, in) = in.rx /\ PassesOn(dma)
        /\ (TakesInput(dma, in) <=> rx_ready(dma, in))
    BY <1>8, <2>2 DEF EngineInput, PassesOn, TakesInput, rx_ready, DescriptorReads
  <2>4. CASE ~taken
    <3>1. e.state = "WAIT_INPUT" /\ e.commands = q /\ e.moved = dma.moved
      BY <1>2, <1>8, <2>3, <2>4 DEF EngineResult, Working, q
    <3>2. reads' = ReadsOf(q) /\ read_line' = dma.moved
      BY <1>5, <1>6, <2>1, <2>4
    <3>3. QED
      BY <1>1, <1>3, <1>5, <3>1, <3>2 DEF DescriptorReads, e
  <2>5. CASE taken /\ ~in.rx.eop
    <3>1. e.state = "WAIT_INPUT" /\ e.commands = q /\ e.moved = dma.moved + 1
      BY <1>2, <1>8, <2>3, <2>5 DEF EngineResult, Working, q
    <3>2. reads' = ReadsOf(q) /\ read_line' = dma.moved + 1
      BY <1>5, <1>6, <2>1, <2>5
    <3>3. QED
      BY <1>1, <1>3, <1>5, <3>1, <3>2 DEF DescriptorReads, e
  <2>6. CASE taken /\ in.rx.eop
    <3>1. e.state = "IDLE" /\ e.commands = Tail(q)
      BY <1>2, <1>8, <2>3, <2>6 DEF EngineResult, Ended, q
    <3>2. q # << >> /\ reads # << >>
      BY <1>5, <2>1, <2>6 DEF ReadsEdge
    <3>3. reads' = Tail(reads) \o read /\ read_line' = 0
      BY <1>6, <2>6
    <3>4. reads' = ReadsOf(Tail(q))
      <4>1. Tail(reads) \o read = Tail(reads \o read)
        <5>1. PICK x : read = << >> \/ read = << x >>
          BY <1>5
        <5>2. Queue(reads) /\ reads # << >>
          BY <1>4, <3>2
        <5> HIDE DEF read, taken
        <5>3. QED
          BY <5>1, <5>2, TailGrown
      <4>2. Tail(ReadsOf(q)) = ReadsOf(Tail(q))
        BY <1>5, <3>2, ReadsOfTail
      <4>3. QED
        BY <1>5, <3>3, <4>1, <4>2
    <3>5. \A i \in 1 .. Len(Tail(q)) : Carried(Tail(q)[i])
      BY <1>5, <3>2, TailElements
    <3>6. QED
      BY <1>1, <1>3, <3>1, <3>3, <3>4, <3>5 DEF DescriptorReads, e
  <2> HIDE DEF taken
  <2>7. QED
    BY <2>4, <2>5, <2>6
<1>9. QED
  BY <1>7, <1>8 DEF DescriptorReads

(* The states of the engine. *)
EngineStates == {"IDLE", "ISSUE_NETWORK_READ", "WAIT_INPUT", "WRITE_ADDRESS", "WRITE_DATA",
                 "WRITE_RESPONSE", "READ_ADDRESS", "READ_DATA", "SEND_OUTPUT", "POST_TX_CLEAR"}
WriteStates == {"WRITE_ADDRESS", "WRITE_DATA", "WRITE_RESPONSE"}
SendStates == {"READ_ADDRESS", "READ_DATA", "SEND_OUTPUT", "POST_TX_CLEAR"}

(* A command as firmware may order it. *)
Plain(c) == ~Straight(c) /\ ~Prefetched(c)

(* The packet the command at work still has lines to come of, and how many came. *)
ComesWith(state, active, moved, beat, r, line) ==
  /\ state = "ISSUE_NETWORK_READ" => IsNetwork(active) /\ moved = 0
  /\ state \in SendStates => ~IsNetwork(active)
  /\ state \in WriteStates /\ IsNetwork(active) => beat = LineBeat(active.RX_HANDLE, moved)
  /\ IF IsNetwork(active) /\ state = "WAIT_INPUT"
     THEN r = << active.RX_HANDLE >> /\ line = moved
     ELSE IF IsNetwork(active) /\ state \in WriteStates /\ ~beat.eop
     THEN r = << active.RX_HANDLE >> /\ line = moved + 1
     ELSE r = << >> /\ line = 0

(* Only the command at work asks for a packet. *)
CommandReads ==
  /\ dma.prefetch.state = "IDLE"
  /\ Plain(dma.stage) /\ Plain(dma.active)
  /\ \A i \in 1 .. Len(dma.commands) : Plain(dma.commands[i])
  /\ dma.state \in EngineStates
  /\ ComesWith(dma.state, dma.active, dma.moved, dma.beat, reads, read_line)

(* The commands stay as firmware orders them. *)
LEMMA CommandsStayPlain ==
  ASSUME EngineTypes, CommandReads, DmaAssumption, NEW in, NEW p, Prepared(dma, p, in),
         in.descriptor = << >>,
         in.store.register = "FLAGS" =>
           in.store.value \cap {"NETWORK_DISCARD", "NETWORK_SYSTEM", "NETWORK_PREFETCHED"} = {}
  PROVE  LET e == Engine(dma, p, in)
         IN  /\ LoaderAfter(dma, in).state = "IDLE"
             /\ Plain(StageAfter(dma, in)) /\ Plain(e.active)
             /\ \A i \in 1 .. Len(e.commands) : Plain(e.commands[i])
             /\ p.commands # << >> => Plain(Head(p.commands))
<1> DEFINE e == Engine(dma, p, in)
           q == p.commands
<1>1. EngineResult(dma, p, e, in)
  BY EngineGoes
<1>2. LoaderAfter(dma, in).state = "IDLE"
  BY DEF LoaderAfter, LoaderTakes, TakesPacket, CommandReads
<1>3. Plain(StageAfter(dma, in))
  BY StagedFlags DEF EngineTypes, CommandReads, Plain, Straight, Prefetched
<1>4. /\ Queue(q) /\ \A i \in 1 .. Len(q) : Plain(q[i])
      /\ dma.state # "IDLE" => q # << >>
  <2>1. q \in {dma.commands, Append(dma.commands, dma.stage)}
    BY DEF Prepared, Pushed
  <2>2. Queue(dma.commands) /\ Plain(dma.stage)
        /\ \A i \in 1 .. Len(dma.commands) : Plain(dma.commands[i])
    BY DEF EngineTypes, CommandReads
  <2> HIDE DEF q
  <2>3. \A i \in 1 .. Len(q) : Plain(q[i])
    <3>1. CASE q = dma.commands
      BY <2>2, <3>1
    <3>2. CASE q = Append(dma.commands, dma.stage)
      <4>1. SUFFICES ASSUME NEW i \in 1 .. Len(q) PROVE Plain(q[i])
        OBVIOUS
      <4>2. (i \in 1 .. Len(dma.commands) /\ q[i] = dma.commands[i]) \/ q[i] = dma.stage
        BY <2>2, <3>2, OldOrNew
      <4>3. QED
        BY <2>2, <4>2
    <3>3. QED
      BY <2>1, <3>1, <3>2
  <2>4. QED
    BY <2>2, <2>3, PushedQueue DEF Prepared, EngineTypes, q
<1>5. q # << >> => Plain(Head(q))
  BY <1>4, TailElements
<1>6. Plain(p.active)
  BY DEF Prepared, CommandReads
<1>7. Plain(e.active) /\ (e.commands = q \/ (e.commands = Tail(q) /\ q # << >>))
  <2> SUFFICES Plain(e.active) /\ (e.commands = q \/ (e.commands = Tail(q) /\ q # << >>))
    OBVIOUS
  <2> HIDE DEF e
  <2>1. CASE dma.state = "IDLE"
    BY <1>1, <1>5, <1>6, <2>1 DEF EngineResult, Working, Started, q
  <2>2. CASE dma.state # "IDLE"
    BY <1>4, <1>6, <2>2, EngineOutcome DEF e, q
  <2>3. QED
    BY <2>1, <2>2
<1>8. \A i \in 1 .. Len(e.commands) : Plain(e.commands[i])
  <2> SUFFICES \A i \in 1 .. Len(e.commands) : Plain(e.commands[i])
    OBVIOUS
  <2> HIDE DEF e, q
  <2>1. CASE e.commands = q
    BY <1>4, <2>1
  <2>2. CASE e.commands = Tail(q) /\ q # << >>
    BY <1>4, <2>2, TailElements
  <2>3. QED
    BY <1>7, <2>1, <2>2
<1>9. QED
  BY <1>2, <1>3, <1>5, <1>7, <1>8

(* The lines that come go with the command at work. *)
LEMMA ReadsFollow ==
  ASSUME EngineTypes, CommandReads, ClusterAssumption, DmaAssumption,
         NEW in, ReadsEdge(in), NEW p, Prepared(dma, p, in),
         fetcher.command = << >>,
         p.commands # << >> => Plain(Head(p.commands))
  PROVE  LET e == Engine(dma, p, in)
         IN  e.state \in EngineStates
             /\ ComesWith(e.state, e.active, e.moved, e.beat, reads', read_line')
<1> DEFINE e == Engine(dma, p, in)
           Goal == e.state \in EngineStates
                   /\ ComesWith(e.state, e.active, e.moved, e.beat, reads', read_line')
           read == IF in.read_ready THEN rx_read(dma, fetcher.command) ELSE << >>
           taken == in.rx # NoBeat /\ rx_ready(dma, in)
<1>1. EngineResult(dma, p, e, in)
  BY EngineGoes
<1>2. p.state = dma.state /\ p.active = dma.active /\ p.moved = dma.moved /\ p.beat = dma.beat
  BY DEF Prepared
<1>3. /\ dma.prefetch.state = "IDLE" /\ Plain(dma.active) /\ dma.state \in EngineStates
      /\ ComesWith(dma.state, dma.active, dma.moved, dma.beat, reads, read_line)
  BY DEF CommandReads
<1>4. /\ in.read_ready <=> Len(reads) < READ_CDC
      /\ in.rx # NoBeat =>
           /\ dma.state = "WAIT_INPUT" /\ IsNetwork(dma.active)
           /\ in.rx = LineBeat(Head(reads), read_line)
      /\ reads' = (IF taken /\ in.rx.eop THEN Tail(reads) ELSE reads) \o read
      /\ read_line' = IF ~taken THEN read_line ELSE IF in.rx.eop THEN 0 ELSE read_line + 1
      /\ READ_CDC \in Nat \ {0}
  BY <1>3 DEF ReadsEdge, ClusterAssumption, IsNetwork, Is
<1>5. /\ ~StraightInput(dma)
      /\ IsNetwork(dma.active) <=> Is(dma, "NETWORK_CPU")
  BY <1>3 DEF StraightInput, Plain, Straight, Flag, IsNetwork, Is
<1>6. dma.state # "ISSUE_NETWORK_READ" => read = << >>
  BY <1>3 DEF rx_read
<1>7. ASSUME dma.state # "WAIT_INPUT" \/ ~IsNetwork(dma.active), dma.state # "ISSUE_NETWORK_READ"
      PROVE  reads' = reads /\ read_line' = read_line
  <2>1. in.rx = NoBeat
    BY <1>4, <1>7
  <2>2. read = << >>
    BY <1>6, <1>7
  <2>3. reads = << >> \/ reads = << dma.active.RX_HANDLE >>
    BY <1>3 DEF ComesWith
  <2>4. reads' = reads \o << >> /\ read_line' = read_line
    BY <1>4, <2>1, <2>2
  <2>5. QED
    BY <2>3, <2>4, OneElement
<1> SUFFICES Goal
  OBVIOUS
<1> HIDE DEF e, read
<1>8. CASE dma.state = "IDLE"
  <2>1. reads' = << >> /\ read_line' = 0
    BY <1>3, <1>7, <1>8 DEF ComesWith, WriteStates
  <2>2. CASE p.commands = << >>
    BY <1>1, <1>8, <2>1, <2>2 DEF EngineResult, Working, ComesWith, WriteStates, SendStates, EngineStates
  <2>3. CASE p.commands # << >>
    <3>1. Started(dma, p, e) /\ ~Prefetched(Head(p.commands))
      BY <1>1, <1>8, <2>3 DEF EngineResult, Plain
    <3>2. QED
      BY <1>3, <2>1, <3>1
         DEF Started, StartState, Prefetched, ComesWith, WriteStates, SendStates, EngineStates
  <2>4. QED
    BY <2>2, <2>3
<1>9. CASE dma.state = "ISSUE_NETWORK_READ"
  <2>1. in.rx = NoBeat /\ reads = << >> /\ read_line = 0 /\ dma.moved = 0
        /\ IsNetwork(dma.active) /\ Head(dma.commands) = dma.active
    BY <1>3, <1>4, <1>9 DEF ComesWith, WriteStates, EngineTypes
  <2>2. in.read_ready
    BY <1>4, <2>1
  <2>3. read = << dma.active.RX_HANDLE >>
    BY <1>3, <1>9, <2>1, <2>2 DEF rx_read, read
  <2>4. reads' = << dma.active.RX_HANDLE >> /\ read_line' = 0
    BY <1>4, <2>1, <2>3, OneElement
  <2>5. Working(p, e, "WAIT_INPUT", 0, dma.beat, FALSE)
    BY <1>1, <1>9, <2>1, <2>2 DEF EngineResult
  <2>6. QED
    BY <1>2, <2>1, <2>4, <2>5 DEF Working, ComesWith, WriteStates, SendStates, EngineStates
<1>10. CASE dma.state = "WAIT_INPUT" /\ IsNetwork(dma.active)
  <2>1. reads = << dma.active.RX_HANDLE >> /\ read_line = dma.moved
    BY <1>3, <1>10 DEF ComesWith
  <2>2. /\ EngineInput(dma, in) = in.rx
        /\ PassesOn(dma) <=> Flag(dma, "CACHE_ALLOCATE")
        /\ PassesOn(dma) /\ in.rx # NoBeat => (TakesInput(dma, in) <=> rx_ready(dma, in))
        /\ ~PassesOn(dma) => rx_ready(dma, in)
    <3>1. EngineInput(dma, in) = in.rx /\ (PassesOn(dma) <=> Flag(dma, "CACHE_ALLOCATE"))
      BY <1>5, <1>10 DEF EngineInput, PassesOn
    <3>2. ASSUME PassesOn(dma), in.rx # NoBeat
          PROVE  TakesInput(dma, in) <=> rx_ready(dma, in)
      BY <1>3, <1>5, <1>10, <3>1, <3>2
         DEF TakesInput, rx_ready, l2_line_valid, rx_l2_line_selected, ReadsL2
    <3>3. ~PassesOn(dma) => rx_ready(dma, in)
      BY <1>3, <1>5, <1>10, <3>1 DEF rx_ready, StraightInput
    <3>4. QED
      BY <3>1, <3>2, <3>3
  <2>3. reads' = (IF taken /\ in.rx.eop THEN << >> ELSE << dma.active.RX_HANDLE >>)
    <3>1. reads' = (IF taken /\ in.rx.eop THEN Tail(reads) ELSE reads) \o << >>
      BY <1>4, <1>6, <1>10
    <3>2. QED
      BY <2>1, <3>1, OneElement
  <2>4. CASE ~taken
    <3>1. Working(p, e, "WAIT_INPUT", dma.moved, dma.beat, FALSE)
      BY <1>1, <1>10, <2>2, <2>4 DEF EngineResult
    <3>2. reads' = << dma.active.RX_HANDLE >> /\ read_line' = dma.moved
      BY <1>4, <2>1, <2>3, <2>4
    <3>3. QED
      BY <1>2, <1>10, <3>1, <3>2 DEF Working, ComesWith, WriteStates, SendStates, EngineStates
  <2>5. CASE taken /\ PassesOn(dma)
    <3>1. CASE in.rx.eop
      <4>1. e.state = "IDLE"
        BY <1>1, <1>10, <2>2, <2>5, <3>1 DEF EngineResult, Ended
      <4>2. reads' = << >> /\ read_line' = 0
        BY <1>4, <2>3, <2>5, <3>1
      <4>3. QED
        BY <4>1, <4>2 DEF ComesWith, WriteStates, SendStates, EngineStates
    <3>2. CASE ~in.rx.eop
      <4>1. /\ e.state = "WAIT_INPUT" /\ e.moved = dma.moved + 1 /\ e.active = p.active
        BY <1>1, <1>10, <2>2, <2>5, <3>2 DEF EngineResult, Working
      <4>2. reads' = << dma.active.RX_HANDLE >> /\ read_line' = dma.moved + 1
        BY <1>4, <2>1, <2>3, <2>5, <3>2
      <4>3. QED
        BY <1>2, <1>10, <4>1, <4>2 DEF ComesWith, WriteStates, SendStates, EngineStates
    <3>3. QED
      BY <3>1, <3>2
  <2>6. CASE taken /\ ~PassesOn(dma)
    <3>1. /\ e.state = "WRITE_ADDRESS" /\ e.moved = dma.moved /\ e.beat = in.rx
          /\ e.active = p.active
      BY <1>1, <1>10, <2>2, <2>6 DEF EngineResult, Working
    <3>2. in.rx = LineBeat(dma.active.RX_HANDLE, dma.moved)
      BY <1>4, <2>1, <2>6, OneElement
    <3>3. IF in.rx.eop THEN reads' = << >> /\ read_line' = 0
          ELSE reads' = << dma.active.RX_HANDLE >> /\ read_line' = dma.moved + 1
      BY <1>4, <2>1, <2>3, <2>6
    <3>4. QED
      BY <1>2, <1>10, <3>1, <3>2, <3>3 DEF ComesWith, WriteStates, SendStates, EngineStates
  <2> HIDE DEF taken
  <2>7. QED
    BY <2>4, <2>5, <2>6
<1>11. CASE dma.state = "WAIT_INPUT" /\ ~IsNetwork(dma.active)
  <2>1. reads' = << >> /\ read_line' = 0
    BY <1>3, <1>7, <1>11 DEF ComesWith
  <2>2. e.state \in {"WAIT_INPUT", "WRITE_ADDRESS"} /\ e.active = p.active
    BY <1>1, <1>5, <1>11 DEF EngineResult, Working, PassesOn
  <2>3. QED
    BY <1>2, <1>11, <2>1, <2>2 DEF ComesWith, WriteStates, SendStates, EngineStates
<1>12. CASE dma.state \in WriteStates
  <2>1. reads' = reads /\ read_line' = read_line
    BY <1>7, <1>12 DEF WriteStates
  <2>2. CASE \E state \in WriteStates : Working(p, e, state, dma.moved, dma.beat, FALSE)
    BY <1>2, <1>3, <1>12, <2>1, <2>2 DEF Working, ComesWith, WriteStates, SendStates, EngineStates
  <2>3. CASE dma.beat.eop /\ e.state = "IDLE"
    BY <1>3, <1>12, <2>1, <2>3 DEF ComesWith, WriteStates, SendStates, EngineStates
  <2>4. CASE ~dma.beat.eop /\ e.state = "WAIT_INPUT" /\ e.moved = dma.moved + 1
             /\ e.active = p.active
    BY <1>2, <1>3, <1>12, <2>1, <2>4 DEF ComesWith, WriteStates, SendStates, EngineStates
  <2>5. \/ \E state \in WriteStates : Working(p, e, state, dma.moved, dma.beat, FALSE)
        \/ dma.beat.eop /\ e.state = "IDLE"
        \/ ~dma.beat.eop /\ e.state = "WAIT_INPUT" /\ e.moved = dma.moved + 1
           /\ e.active = p.active
    <3>1. CASE dma.state = "WRITE_ADDRESS"
      BY <1>1, <3>1 DEF EngineResult, WriteStates
    <3>2. CASE dma.state = "WRITE_DATA"
      BY <1>1, <3>2 DEF EngineResult, WriteStates
    <3>3. CASE dma.state = "WRITE_RESPONSE"
      <4>1. \/ Working(p, e, "WRITE_RESPONSE", dma.moved, dma.beat, FALSE)
            \/ dma.beat.eop /\ e.state = "IDLE"
            \/ ~dma.beat.eop /\ e.state = "WAIT_INPUT" /\ e.moved = dma.moved + 1
               /\ e.active = p.active
        <5> DEFINE stored == BeatError(dma.moved, dma.active.LENGTH, dma.beat)
        <5>1. \/ Working(p, e, "WRITE_RESPONSE", dma.moved, dma.beat, FALSE)
              \/ dma.beat.eop /\ Ended(p, e, stored)
              \/ ~dma.beat.eop /\ Working(p, e, "WAIT_INPUT", dma.moved + 1, dma.beat, stored)
          BY <1>1, <3>3 DEF EngineResult
        <5> HIDE DEF stored
        <5>2. QED
          BY <5>1 DEF Working, Ended
      <4>2. QED
        BY <4>1 DEF WriteStates
    <3>4. QED
      BY <1>12, <3>1, <3>2, <3>3 DEF WriteStates
  <2>6. QED
    BY <2>2, <2>3, <2>4, <2>5
<1>13. CASE dma.state \in SendStates
  <2>1. reads' = << >> /\ read_line' = 0 /\ ~IsNetwork(dma.active)
    BY <1>3, <1>7, <1>13 DEF ComesWith, SendStates, WriteStates
  <2>2. e.active = p.active /\ e.state \in SendStates \cup {"IDLE"}
    <3>1. CASE dma.state = "READ_ADDRESS"
      BY <1>1, <3>1 DEF EngineResult, Working, SendStates
    <3>2. CASE dma.state = "READ_DATA"
      BY <1>1, <3>2 DEF EngineResult, Working, SendStates
    <3>3. CASE dma.state = "SEND_OUTPUT"
      BY <1>1, <3>3 DEF EngineResult, Working, Ended, SendStates
    <3>4. CASE dma.state = "POST_TX_CLEAR"
      BY <1>1, <3>4 DEF EngineResult, Working, Ended, SendStates
    <3>5. QED
      BY <1>13, <3>1, <3>2, <3>3, <3>4 DEF SendStates
  <2>3. QED
    BY <1>2, <2>1, <2>2 DEF ComesWith, WriteStates, SendStates, EngineStates
<1>14. QED
  BY <1>3, <1>8, <1>9, <1>10, <1>11, <1>12, <1>13 DEF EngineStates, WriteStates, SendStates

(* An edge keeps the read that of the command at work. *)
LEMMA CommandNext ==
  ASSUME EngineTypes, CommandReads, ClusterAssumption, DmaAssumption,
         NEW in, ReadsEdge(in), fetcher.command = << >>,
         in.store.register = "FLAGS" =>
           in.store.value \cap {"NETWORK_DISCARD", "NETWORK_SYSTEM", "NETWORK_PREFETCHED"} = {}
  PROVE  CommandReads'
<1>1. PICK p : LET e == Engine(dma, p, in)
               IN  /\ Prepared(dma, p, in)
                   /\ dma'.state = e.state /\ dma'.active = e.active /\ dma'.moved = e.moved
                   /\ dma'.beat = e.beat /\ dma'.commands = e.commands
                   /\ dma'.stage = StageAfter(dma, in) /\ dma'.prefetch = LoaderAfter(dma, in)
  BY DMAParts DEF EngineTypes, ReadsEdge
<1> DEFINE e == Engine(dma, p, in)
<1>2. in.descriptor = << >>
  BY DEF ReadsEdge
<1>3. /\ LoaderAfter(dma, in).state = "IDLE"
      /\ Plain(StageAfter(dma, in)) /\ Plain(e.active)
      /\ \A i \in 1 .. Len(e.commands) : Plain(e.commands[i])
      /\ p.commands # << >> => Plain(Head(p.commands))
  BY <1>1, <1>2, CommandsStayPlain
<1>4. e.state \in EngineStates
      /\ ComesWith(e.state, e.active, e.moved, e.beat, reads', read_line')
  BY <1>1, <1>3, ReadsFollow
<1> HIDE DEF e
<1>5. QED
  BY <1>1, <1>3, <1>4 DEF CommandReads, e

(* The descriptor queue hands over only what its firmware may ask for. *)
FetcherAsks ==
  /\ DOMAIN fetcher = FetcherNames
  /\ firmware = "fast" => ~fetcher.auto_l2
  /\ firmware = "bridge" => ~fetcher.enabled /\ fetcher.command = << >>
  /\ fetcher.command # << >> =>
       IF firmware = "fast" THEN Head(fetcher.command).cache = FALSE
       ELSE Head(fetcher.command).cache = TRUE

(* And so it does after a store of that firmware. *)
LEMMA AsksNext ==
  ASSUME FetcherAsks, firmware \in {"ring", "fast", "forward", "bridge"},
         NEW store, StoreSound(store), NEW w, NEW ready, NEW done,
         fetcher' = FetcherEdge(fetcher, store, w, ready, done), firmware' = firmware
  PROVE  FetcherAsks'
<1> DEFINE f == fetcher
           g == FetcherEdge(f, store, w, ready, done)
<1>1. DOMAIN f = FetcherNames
  BY DEF FetcherAsks
<1>a. FetcherResult(f, g, store, w, ready)
  BY <1>1, FetcherParts
<1>2. /\ DOMAIN g = FetcherNames
      /\ g.enabled = IF store.register = "CONTROL" THEN "ENABLE" \in store.value ELSE f.enabled
      /\ g.auto_l2 = IF store.register = "CONTROL" THEN "AUTO_L2" \in store.value ELSE f.auto_l2
      /\ CommandAfter(f, g, store, w, ready)
  BY <1>a DEF FetcherResult
<1>3. fetcher' = g
  OBVIOUS
<1> HIDE DEF g
<1>5. firmware = "fast" => ~g.auto_l2
  BY <1>2 DEF StoreSound, FetcherAsks
<1>6. firmware = "bridge" => ~g.enabled /\ g.command = << >>
  <2>1. SUFFICES ASSUME firmware = "bridge" PROVE ~g.enabled /\ g.command = << >>
    OBVIOUS
  <2>2. ~f.enabled /\ f.command = << >> /\ store.register \notin {"CONTROL", "ACTION"}
    BY <2>1 DEF FetcherAsks, StoreSound
  <2>3. ~Enters(f, w) /\ ~Dispatches(f, store, ready)
    BY <2>2 DEF Enters, TakesWord, descriptor_ready, Dispatches
  <2>4. QED
    BY <1>2, <2>2, <2>3 DEF CommandAfter
<1>7. g.command # << >> => IF firmware = "fast" THEN Head(g.command).cache = FALSE
                           ELSE Head(g.command).cache = TRUE
  <2>1. CASE Enters(f, w) /\ f.auto_l2
    <3>1. PICK buffer : g.command = Command(w.packet, FALSE, TRUE, buffer)
      BY <1>2, <2>1 DEF CommandAfter
    <3>2. firmware # "fast"
      BY <2>1 DEF FetcherAsks
    <3> DEFINE r == [packet |-> w.packet, system |-> FALSE, cache |-> TRUE, buffer |-> buffer]
    <3>3. g.command = << r >> /\ r.cache = TRUE
      BY <3>1 DEF Command
    <3> HIDE DEF r
    <3>4. QED
      BY <3>2, <3>3, OneElement
  <2>2. CASE ~(Enters(f, w) /\ f.auto_l2) /\ Dispatches(f, store, ready)
    <3>1. g.command = Command(current_descriptor(f), "DMA_SYSTEM" \in store.value, FALSE, 0)
      BY <1>2, <2>2 DEF CommandAfter
    <3>2. firmware = "fast"
      BY <2>2 DEF Dispatches, StoreSound, Forwards
    <3> DEFINE r == [packet |-> current_descriptor(f), system |-> "DMA_SYSTEM" \in store.value,
                     cache |-> FALSE, buffer |-> 0]
    <3>3. g.command = << r >> /\ r.cache = FALSE
      BY <3>1 DEF Command
    <3> HIDE DEF r
    <3>4. QED
      BY <3>2, <3>3, OneElement
  <2>3. CASE ~(Enters(f, w) /\ f.auto_l2) /\ ~Dispatches(f, store, ready)
    <3>1. g.command = IF ready THEN << >> ELSE f.command
      BY <1>2, <2>3 DEF CommandAfter
    <3>2. g.command = << >> \/ g.command = f.command
      BY <3>1
    <3>3. QED
      BY <3>2 DEF FetcherAsks
  <2>4. QED
    BY <2>1, <2>2, <2>3
<1>8. QED
  BY <1>2, <1>3, <1>5, <1>6, <1>7 DEF FetcherAsks

(* The packets asked for, by firmware. *)
ReadsHold ==
  /\ HartsHold /\ FetcherAsks /\ EngineTypes
  /\ firmware \in {"ring", "forward"} => LoaderReads
  /\ firmware = "fast" => refused \/ DescriptorReads
  /\ firmware = "bridge" => CommandReads
  /\ refused => firmware = "fast" /\ READ_CDC < CMD_DEPTH

(* At the start nothing is asked for. *)
LEMMA ReadsInit ==
  ASSUME ClusterAssumption, DmaAssumption, ClusterInit
  PROVE  ReadsHold
<1>1. HartsHold
  BY StagingInit
<1>2. FetcherAsks
  BY DEF ClusterInit, FetcherAsks, FetcherNames, FetcherInit
<1>3. dma = DMAInit /\ reads = << >> /\ read_line = 0 /\ ~refused
  BY DEF ClusterInit
<1>4. /\ DOMAIN dma = Registers /\ DOMAIN dma.stage = StageRegisters
      /\ DOMAIN dma.prefetch = {"state", "packet", "buffer", "moved"}
      /\ dma.commands = << >> /\ dma.state = "IDLE" /\ dma.prefetch.state = "IDLE"
      /\ dma.stage.FLAGS = {"SYSTEM_CPU"} /\ dma.active.FLAGS = {"SYSTEM_CPU"}
  BY <1>3 DEF DMAInit, Registers, StageRegisters, NoCommand
<1>5. Queue(<< >>) /\ Len(<< >>) = 0 /\ ReadsOf(<< >>) = << >> /\ CMD_DEPTH \in Nat
  BY DEF Queue, ReadsOf, DmaAssumption
<1>6. EngineTypes
  BY <1>4, <1>5 DEF EngineTypes
<1>7. LoaderReads
  BY <1>3, <1>4, <1>5 DEF LoaderReads, IsNetwork
<1>8. DescriptorReads
  BY <1>3, <1>4, <1>5 DEF DescriptorReads
<1>9. CommandReads
  BY <1>3, <1>4, <1>5
     DEF CommandReads, Plain, Straight, Prefetched, EngineStates, ComesWith, WriteStates, SendStates
<1>10. QED
  BY <1>1, <1>2, <1>3, <1>6, <1>7, <1>8, <1>9 DEF ReadsHold

(* A read is refused to a command of the fast firmware alone, and only if  *)
(* the crossing is full while the queue has room: then it holds fewer.     *)
LEMMA RefusalIsFast ==
  ASSUME ClusterAssumption, DmaAssumption, ReadsHold, ~refused, NEW in, ReadsEdge(in),
         Refuses(dma, in)
  PROVE  firmware = "fast" /\ READ_CDC < CMD_DEPTH
<1>1. fetcher.command # << >> /\ ~Head(fetcher.command).cache
  BY DEF Refuses, ReadsEdge
<1>2. firmware = "fast"
  <2>1. firmware # "bridge" /\ (firmware # "fast" => Head(fetcher.command).cache = TRUE)
    BY <1>1 DEF ReadsHold, FetcherAsks
  <2>2. QED
    BY <1>1, <2>1
<1>3. reads = ReadsOf(dma.commands) /\ Queue(dma.commands)
  BY <1>2 DEF ReadsHold, DescriptorReads, EngineTypes
<1>4. Len(reads) = Len(dma.commands) /\ Len(dma.commands) \in Nat
  BY <1>3, ReadsOfQueue DEF Queue
<1>5. ~(Len(reads) < READ_CDC) /\ Len(dma.commands) < CMD_DEPTH
  BY DEF Refuses, ReadsEdge, HasRoom
<1>6. READ_CDC \in Nat /\ CMD_DEPTH \in Nat
  BY DEF ClusterAssumption, DmaAssumption
<1>7. QED
  BY <1>2, <1>4, <1>5, <1>6

(* What is asked for stays what the firmware's commands ask for. *)
LEMMA ReadsNext ==
  ASSUME ClusterAssumption, DmaAssumption, ReadsHold, [Next]_vars
  PROVE  ReadsHold'
<1>1. HartsHold'
  BY StagingNext DEF ReadsHold
<1>2. CASE UNCHANGED vars
  <2>1. /\ dma' = dma /\ fetcher' = fetcher /\ firmware' = firmware /\ reads' = reads
        /\ read_line' = read_line /\ refused' = refused
    BY <1>2 DEF vars
  <2>2. QED
    BY <1>1, <2>1 DEF ReadsHold, FetcherAsks, EngineTypes, LoaderReads, DescriptorReads,
                      CommandReads, ComesWith
<1>3. CASE ActiveEdge
  <2>1. PICK ev \in SUBSET Events : Edge(ev)
    BY <1>3 DEF ActiveEdge
  <2>2. /\ HartsHold /\ FetcherAsks /\ EngineTypes
        /\ Harts \subseteq {"hart1", "hart2"}
        /\ firmware \in {"ring", "fast", "forward", "bridge"}
    BY ProgramSound DEF ReadsHold, HartsHold, ClusterAssumption
  <2> DEFINE in == EdgeInput(ev)
  <2>3. /\ ReadsEdge(in) /\ in.store = StoreAt(ev)
        /\ fetcher' = FetcherEdge(fetcher, StoreAt(ev), WordAt(ev), DescriptorReady,
                                  dma.cache_completed)
        /\ firmware' = firmware
    BY <2>1, <2>2, EdgeReads
  <2>4. StoreSound(StoreAt(ev))
    BY <2>2, StoresAreSound
  <2>5. FetcherAsks'
    BY <2>2, <2>3, <2>4, AsksNext
  <2> HIDE DEF in
  <2>6. EngineTypes'
    BY <2>2, <2>3, TypesNext DEF ReadsEdge
  <2>7. firmware \in {"ring", "forward"} => LoaderReads'
    <3>1. SUFFICES ASSUME firmware \in {"ring", "forward"} PROVE LoaderReads'
      OBVIOUS
    <3>2. fetcher.command # << >> => Head(fetcher.command).cache
      BY <2>2, <3>1 DEF FetcherAsks
    <3>3. in.store.register = "FLAGS" => "NETWORK_CPU" \notin in.store.value
      BY <2>3, <2>4, <3>1 DEF StoreSound
    <3>4. QED
      BY <2>2, <2>3, <3>1, <3>2, <3>3, LoaderNext DEF ReadsHold
  <2>8. firmware = "fast" => refused' \/ DescriptorReads'
    <3>1. SUFFICES ASSUME firmware = "fast", ~refused' PROVE DescriptorReads'
      OBVIOUS
    <3>2. fetcher.command # << >> => ~Head(fetcher.command).cache
      BY <2>2, <3>1 DEF FetcherAsks
    <3>3. in.store.register # "COMMAND"
      BY <2>3, <2>4, <3>1 DEF StoreSound
    <3>4. ~refused /\ ~Refuses(dma, in)
      BY <2>3, <3>1 DEF ReadsEdge
    <3>5. QED
      BY <2>2, <2>3, <3>1, <3>2, <3>3, <3>4, DescriptorNext DEF ReadsHold
  <2>9. firmware = "bridge" => CommandReads'
    <3>1. SUFFICES ASSUME firmware = "bridge" PROVE CommandReads'
      OBVIOUS
    <3>2. fetcher.command = << >>
      BY <2>2, <3>1 DEF FetcherAsks
    <3>3. in.store.register = "FLAGS" =>
            in.store.value \cap {"NETWORK_DISCARD", "NETWORK_SYSTEM", "NETWORK_PREFETCHED"} = {}
      BY <2>3, <2>4, <3>1 DEF StoreSound
    <3>4. QED
      BY <2>2, <2>3, <3>1, <3>2, <3>3, CommandNext DEF ReadsHold
  <2>10. refused' => firmware = "fast" /\ READ_CDC < CMD_DEPTH
    <3>1. CASE refused
      BY <3>1 DEF ReadsHold
    <3>2. CASE ~refused /\ Refuses(dma, in)
      BY <2>3, <3>2, RefusalIsFast
    <3>3. QED
      BY <2>3, <3>1, <3>2 DEF ReadsEdge
  <2>11. QED
    BY <1>1, <2>3, <2>5, <2>6, <2>7, <2>8, <2>9, <2>10 DEF ReadsHold
<1>4. QED
  BY <1>2, <1>3 DEF Next, Rest

(* For every plan, every firmware and all sizes of the queues and of the   *)
(* crossing, the built ones among them: until the read of a descriptor's   *)
(* command is refused, the lines that arrive are those of the packet that  *)
(* the engine at work takes them for.                                      *)
THEOREM ReadsAreMatched ==
  ASSUME ClusterAssumption, DmaAssumption
  PROVE  Spec => []ReadsMatch
<1>1. ClusterInit => ReadsHold
  BY ReadsInit
<1>2. ReadsHold /\ [Next]_vars => ReadsHold'
  BY ReadsNext
<1>3. ReadsHold => ReadsMatch
  <2>1. SUFFICES ASSUME ReadsHold, reads # << >>, ~refused
                 PROVE  /\ dma.prefetch.state = "STREAM" => Head(reads) = dma.prefetch.packet
                        /\ dma.state = "WAIT_INPUT" /\ IsNetwork(dma.active) =>
                             Head(reads) = dma.active.RX_HANDLE
    BY DEF ReadsMatch, LinesMatch, Is, IsNetwork
  <2>2. CASE firmware \in {"ring", "forward"}
    BY <2>1, <2>2 DEF ReadsHold, LoaderReads
  <2>3. CASE firmware = "fast"
    <3>1. /\ dma.prefetch.state = "IDLE" /\ reads = ReadsOf(dma.commands)
          /\ dma.state # "IDLE" => dma.commands # << >> /\ dma.active = Head(dma.commands)
          /\ Queue(dma.commands)
      BY <2>1, <2>3 DEF ReadsHold, DescriptorReads, EngineTypes
    <3>2. dma.commands # << >> => Head(reads) = Head(dma.commands).RX_HANDLE
      BY <3>1, TailElements DEF ReadsOf
    <3>3. QED
      BY <3>1, <3>2
  <2>4. CASE firmware = "bridge"
    BY <2>1, <2>4 DEF ReadsHold, CommandReads, ComesWith
  <2>5. QED
    BY <2>1, <2>2, <2>3, <2>4 DEF ReadsHold, HartsHold, ClusterAssumption
<1>4. QED
  BY <1>1, <1>2, <1>3, PTL DEF Spec

(* For every plan and all sizes: a read is refused to the fast firmware    *)
(* alone, and only where the queue of commands is longer than the crossing *)
(* of reads.  Every other firmware, and a crossing as long as the queue,   *)
(* has its lines in order for ever.                                        *)
THEOREM RefusalNeedsShortCrossing ==
  ASSUME ClusterAssumption, DmaAssumption
  PROVE  Spec => []( /\ refused => firmware = "fast" /\ READ_CDC < CMD_DEPTH
                     /\ firmware # "fast" \/ READ_CDC >= CMD_DEPTH => LinesMatch )
<1> DEFINE Short == /\ refused => firmware = "fast" /\ READ_CDC < CMD_DEPTH
                    /\ firmware # "fast" \/ READ_CDC >= CMD_DEPTH => LinesMatch
<1>1. ClusterInit => ReadsHold
  BY ReadsInit
<1>2. ReadsHold /\ [Next]_vars => ReadsHold'
  BY ReadsNext
<1>3. ReadsHold /\ ReadsMatch => Short
  <2>1. READ_CDC \in Nat /\ CMD_DEPTH \in Nat
    BY DEF ClusterAssumption, DmaAssumption
  <2>2. QED
    BY <2>1 DEF ReadsHold, ReadsMatch
<1>4. Spec => []ReadsMatch
  BY ReadsAreMatched
<1> HIDE DEF Short
<1>5. Spec => []Short
  BY <1>1, <1>2, <1>3, <1>4, PTL DEF Spec
<1>6. QED
  BY <1>5 DEF Short
-----------------------------------------------------------------------------
(* No error is reported. *)

(* A packet of at least one line. *)
Whole(p) == p[2] \in Nat \ {0}

(* The word that comes next is the one the descriptor queue waits for. *)
WordsHold ==
  /\ incoming = << incoming[1], incoming[2] >>
  /\ incoming[2] \in 0 .. DESCRIPTOR_WORDS - 1
  /\ fetcher.assembly_word = incoming[2]
  /\ fetcher.assembly_active <=> incoming[2] # 0

(* Its descriptors and its command are of packets. *)
QueueHolds ==
  /\ fetcher.head \in 0 .. FETCH_DEPTH - 1 /\ fetcher.count \in 0 .. FETCH_DEPTH
  /\ DOMAIN fetcher.queue = 0 .. FETCH_DEPTH - 1
  /\ \A n \in 0 .. fetcher.count - 1 : Whole(fetcher.queue[(fetcher.head + n) % FETCH_DEPTH])
  /\ fetcher.command # << >> => Whole(Head(fetcher.command).packet)

(* An edge of the descriptor queue, with the word that comes at it. *)
FetcherStep(store, w, ready) ==
  /\ FetcherResult(fetcher, fetcher', store, w, ready)
  /\ \/ w = NoWord /\ incoming' = incoming
     \/ /\ w # NoWord /\ descriptor_ready(fetcher)
        /\ Whole(w.packet) /\ w.word = incoming[2]
        /\ w.sop <=> incoming[2] = 0
        /\ w.eop <=> incoming[2] + 1 = DESCRIPTOR_WORDS
        /\ incoming' = Advanced(incoming, DESCRIPTOR_WORDS)

(* The words stay in step, and none of them is out of its place. *)
LEMMA WordsNext ==
  ASSUME FetcherAssumption, WordsHold, NEW store, NEW w, NEW ready, FetcherStep(store, w, ready)
  PROVE  WordsHold' /\ ~(TakesWord(fetcher, w) /\ BadWord(fetcher, w))
<1> DEFINE n == incoming[2]
<1>1. /\ n \in 0 .. DESCRIPTOR_WORDS - 1 /\ DESCRIPTOR_WORDS \in Nat \ {0}
      /\ fetcher.assembly_word = n /\ (fetcher.assembly_active <=> n # 0)
  BY DEF WordsHold, FetcherAssumption
<1>2. /\ fetcher'.assembly_active = IF TakesWord(fetcher, w)
                                    THEN ~w.eop /\ (fetcher.assembly_active \/ w.sop)
                                    ELSE fetcher.assembly_active
      /\ fetcher'.assembly_word = IF TakesWord(fetcher, w) THEN (IF w.eop THEN 0 ELSE w.word + 1)
                                  ELSE fetcher.assembly_word
  BY DEF FetcherStep, FetcherResult
<1>3. CASE w = NoWord /\ incoming' = incoming
  BY <1>1, <1>2, <1>3 DEF TakesWord, WordsHold
<1>4. CASE /\ w # NoWord /\ descriptor_ready(fetcher)
           /\ Whole(w.packet) /\ w.word = n
           /\ w.sop <=> n = 0
           /\ w.eop <=> n + 1 = DESCRIPTOR_WORDS
           /\ incoming' = Advanced(incoming, DESCRIPTOR_WORDS)
  <2>1. TakesWord(fetcher, w)
    BY <1>4 DEF TakesWord
  <2>2. /\ fetcher'.assembly_active <=> ~w.eop
        /\ fetcher'.assembly_word = IF w.eop THEN 0 ELSE n + 1
    BY <1>1, <1>2, <1>4, <2>1
  <2>3. incoming' = IF n + 1 = DESCRIPTOR_WORDS THEN << incoming[1] + 1, 0 >>
                    ELSE << incoming[1], n + 1 >>
    BY <1>4 DEF Advanced
  <2>4. ~BadWord(fetcher, w)
    BY <1>1, <1>4 DEF BadWord
  <2>5. WordsHold'
    <3>1. CASE w.eop
      BY <1>1, <1>4, <2>2, <2>3, <3>1 DEF WordsHold
    <3>2. CASE ~w.eop
      BY <1>1, <1>4, <2>2, <2>3, <3>2 DEF WordsHold
    <3>3. QED
      BY <3>1, <3>2
  <2>6. QED
    BY <2>4, <2>5
<1>5. QED
  BY <1>3, <1>4 DEF FetcherStep

(* A place of the ring of descriptors, counted from one of them. *)
LEMMA RingPlace ==
  ASSUME NEW D \in Nat \ {0}, NEW i \in 0 .. D - 1, NEW n \in 0 .. D
  PROVE  /\ (i + n) % D = IF i + n < D THEN i + n ELSE i + n - D
         /\ (i + n) % D \in 0 .. D - 1
         /\ (i + 1) % D \in 0 .. D - 1
         /\ n < D => (((i + 1) % D) + n) % D = (i + (n + 1)) % D
<1>1. \A m \in 0 .. 2 * D - 1 : m % D = IF m < D THEN m ELSE m - D
  <2>1. SUFFICES ASSUME NEW m \in 0 .. 2 * D - 1 PROVE m % D = IF m < D THEN m ELSE m - D
    OBVIOUS
  <2>2. QED
    OBVIOUS
<1>2. /\ (i + n) % D = IF i + n < D THEN i + n ELSE i + n - D
      /\ (i + 1) % D = IF i + 1 < D THEN i + 1 ELSE i + 1 - D
  <2>1. i + n \in 0 .. 2 * D - 1 /\ i + 1 \in 0 .. 2 * D - 1
    OBVIOUS
  <2>2. QED
    BY <1>1, <2>1
<1>3. ASSUME n < D PROVE (((i + 1) % D) + n) % D = (i + (n + 1)) % D
  <2> DEFINE j == (i + 1) % D
  <2>1. j = IF i + 1 < D THEN i + 1 ELSE 0
    BY <1>2
  <2> HIDE DEF j
  <2> DEFINE x == j + n
             y == i + (n + 1)
  <2>2. x \in 0 .. 2 * D - 1 /\ y \in 0 .. 2 * D - 1 /\ (x = y \/ (x < D /\ x = y - D))
    BY <1>3, <2>1
  <2> HIDE DEF x, y
  <2>3. /\ x % D = IF x < D THEN x ELSE x - D
        /\ y % D = IF y < D THEN y ELSE y - D
    BY <1>1, <2>2
  <2>4. x % D = y % D
    BY <2>2, <2>3
  <2>5. QED
    BY <2>4 DEF j, x, y
<1>4. (i + n) % D \in 0 .. D - 1 /\ (i + 1) % D \in 0 .. D - 1
  BY <1>2
<1>5. QED
  BY <1>2, <1>3, <1>4

(* A descriptor that enters is of a packet, and the others keep theirs. *)
LEMMA QueueNext ==
  ASSUME FetcherAssumption, QueueHolds, NEW store, NEW w, NEW ready, FetcherStep(store, w, ready)
  PROVE  QueueHolds'
<1> DEFINE f == fetcher
           g == fetcher'
           D == FETCH_DEPTH
           left == IF Advances(f, store, ready) THEN f.count - 1 ELSE f.count
<1>1. /\ D \in Nat \ {0} /\ f.head \in 0 .. D - 1 /\ f.count \in 0 .. D
      /\ DOMAIN f.queue = 0 .. D - 1
      /\ \A n \in 0 .. f.count - 1 : Whole(f.queue[(f.head + n) % D])
      /\ f.command # << >> => Whole(Head(f.command).packet)
  BY DEF QueueHolds, FetcherAssumption
<1>2. /\ CommandAfter(f, g, store, w, ready)
      /\ g.head = IF Advances(f, store, ready) THEN Next_i(f.head) ELSE f.head
      /\ g.count = IF Enters(f, w) THEN left + 1 ELSE left
      /\ g.queue = IF Enters(f, w) THEN [f.queue EXCEPT ![tail(f)] = w.packet] ELSE f.queue
  BY DEF FetcherStep, FetcherResult
<1>3. Enters(f, w) => f.count < D /\ Whole(w.packet)
  BY DEF FetcherStep, Enters, TakesWord, descriptor_ready
<1>4. Advances(f, store, ready) => f.count \in 1 .. D
  BY <1>1 DEF Advances, Dispatches
<1>5. g.head \in 0 .. D - 1
  BY <1>1, <1>2, RingPlace DEF Next_i
<1>6. g.count \in 0 .. D
  BY <1>1, <1>2, <1>3, <1>4
<1>7. DOMAIN g.queue = 0 .. D - 1
  BY <1>1, <1>2
<1>8. \A n \in 0 .. left - 1 : Whole(f.queue[(g.head + n) % D])
  <2>1. SUFFICES ASSUME NEW n \in 0 .. left - 1 PROVE Whole(f.queue[(g.head + n) % D])
    OBVIOUS
  <2>2. CASE Advances(f, store, ready)
    <3>1. n + 1 \in 0 .. f.count - 1 /\ n \in 0 .. D /\ n < D
      BY <1>1, <1>4, <2>1, <2>2
    <3>2. g.head = (f.head + 1) % D
      BY <1>2, <2>2 DEF Next_i
    <3>3. (g.head + n) % D = (f.head + (n + 1)) % D
      <4>1. (((f.head + 1) % D) + n) % D = (f.head + (n + 1)) % D
        BY <1>1, <3>1, RingPlace
      <4>2. QED
        BY <3>2, <4>1
    <3>4. QED
      BY <1>1, <3>1, <3>3
  <2>3. CASE ~Advances(f, store, ready)
    BY <1>1, <1>2, <2>1, <2>3
  <2>4. QED
    BY <2>2, <2>3
<1>9. Enters(f, w) => (g.head + left) % D = tail(f)
  <2>1. SUFFICES ASSUME Enters(f, w) PROVE (g.head + left) % D = (f.head + f.count) % D
    BY DEF tail
  <2>2. CASE Advances(f, store, ready)
    <3>1. left \in 0 .. D /\ left < D /\ left + 1 = f.count
      BY <1>1, <1>4, <2>2
    <3>2. g.head = (f.head + 1) % D
      BY <1>2, <2>2 DEF Next_i
    <3>3. (g.head + left) % D = (f.head + (left + 1)) % D
      <4>1. (((f.head + 1) % D) + left) % D = (f.head + (left + 1)) % D
        <5> HIDE DEF left
        <5>1. QED
          BY <1>1, <3>1, RingPlace
      <4>2. QED
        BY <3>2, <4>1
    <3>4. QED
      BY <3>1, <3>3
  <2>3. CASE ~Advances(f, store, ready)
    BY <1>2, <2>3
  <2>4. QED
    BY <2>2, <2>3
<1>a. left \in Nat /\ left <= D
  BY <1>1, <1>4
<1> HIDE DEF left
<1>10. ASSUME NEW n \in 0 .. g.count - 1 PROVE Whole(g.queue[(g.head + n) % D])
  <2>1. CASE ~Enters(f, w)
    BY <1>2, <1>8, <2>1, <1>10
  <2>2. CASE Enters(f, w)
    <3> DEFINE i == (g.head + n) % D
    <3>1. n \in 0 .. left /\ n \in 0 .. D
      BY <1>2, <1>6, <1>a, <2>2, <1>10
    <3>2. i \in 0 .. D - 1
      BY <1>1, <1>5, <3>1, RingPlace
    <3>3. CASE i = tail(f)
      <4>1. g.queue[i] = w.packet
        BY <1>1, <1>2, <2>2, <3>2, <3>3
      <4>2. QED
        BY <1>3, <2>2, <4>1
    <3>4. CASE i # tail(f)
      <4>1. n \in 0 .. left - 1
        BY <1>9, <1>a, <2>2, <3>1, <3>4
      <4>2. g.queue[i] = f.queue[i]
        BY <1>1, <1>2, <2>2, <3>2, <3>4
      <4>3. QED
        BY <1>8, <4>1, <4>2
    <3>5. QED
      BY <3>3, <3>4
  <2>3. QED
    BY <2>1, <2>2
<1>11. ASSUME g.command # << >> PROVE Whole(Head(g.command).packet)
  <2>1. CASE Enters(f, w) /\ f.auto_l2
    <3>1. PICK buffer : g.command = Command(w.packet, FALSE, TRUE, buffer)
      BY <1>2, <2>1 DEF CommandAfter
    <3> DEFINE r == [packet |-> w.packet, system |-> FALSE, cache |-> TRUE, buffer |-> buffer]
    <3>2. g.command = << r >> /\ r.packet = w.packet
      BY <3>1 DEF Command
    <3> HIDE DEF r
    <3>3. QED
      BY <1>3, <2>1, <3>2, OneElement
  <2>2. CASE ~(Enters(f, w) /\ f.auto_l2) /\ Dispatches(f, store, ready)
    <3>1. g.command = Command(current_descriptor(f), "DMA_SYSTEM" \in store.value, FALSE, 0)
      BY <1>2, <2>2 DEF CommandAfter
    <3> DEFINE r == [packet |-> current_descriptor(f), system |-> "DMA_SYSTEM" \in store.value,
                     cache |-> FALSE, buffer |-> 0]
    <3>2. g.command = << r >> /\ r.packet = current_descriptor(f)
      BY <3>1 DEF Command
    <3>3. current_descriptor(f) = f.queue[f.head] /\ Whole(f.queue[f.head])
      <4>1. f.count # 0 /\ 0 \in 0 .. f.count - 1
        BY <1>1, <2>2 DEF Dispatches
      <4>2. (f.head + 0) % D = f.head
        <5> DEFINE z == 0
        <5>1. z \in 0 .. D
          BY <1>1
        <5> HIDE DEF z
        <5>2. (f.head + z) % D = IF f.head + z < D THEN f.head + z ELSE f.head + z - D
          BY <1>1, <5>1, RingPlace
        <5>3. QED
          BY <1>1, <5>2 DEF z
      <4>3. QED
        BY <1>1, <4>1, <4>2 DEF current_descriptor
    <3> HIDE DEF r
    <3>4. QED
      BY <3>2, <3>3, OneElement
  <2>3. CASE ~(Enters(f, w) /\ f.auto_l2) /\ ~Dispatches(f, store, ready)
    BY <1>1, <1>2, <1>11, <2>3 DEF CommandAfter
  <2>4. QED
    BY <2>1, <2>2, <2>3
<1>12. QED
  BY <1>5, <1>6, <1>7, <1>10, <1>11 DEF QueueHolds

(* The line System offers at an edge. *)
HostBeat(ev) ==
  IF "host" \in ev THEN LineBeat(Packet(from_host[1]), from_host[2]) ELSE NoBeat

(* An edge as the errors see it. *)
ErrorsEdge(ev, in) ==
  /\ ReadsEdge(in) /\ in.store = StoreAt(ev) /\ wready(dma, in)
  /\ in.system_rx = HostBeat(ev)
  /\ from_host' = IF "host" \in ev THEN Advanced(from_host, Packet(from_host[1])[2]) ELSE from_host
  /\ response' = (in.store # NoStore)
  /\ harts' = [h \in Harts |-> IF h \in ev THEN HartAfter(h) ELSE harts[h]]
  /\ firmware' = firmware
  /\ FetcherStep(in.store, WordAt(ev), DescriptorReady)

(* An edge of the cluster is one. *)
LEMMA EdgeErrors ==
  ASSUME ClusterAssumption, HartsHold, FetcherAsks, NEW ev \in SUBSET Events, Edge(ev)
  PROVE  ErrorsEdge(ev, EdgeInput(ev))
<1> DEFINE in == EdgeInput(ev)
           w == WordAt(ev)
<1>1. /\ ReadsEdge(in) /\ in.store = StoreAt(ev)
      /\ fetcher' = FetcherEdge(fetcher, StoreAt(ev), w, DescriptorReady, dma.cache_completed)
      /\ firmware' = firmware
  BY EdgeReads, ProgramSound DEF HartsHold
<1>2. /\ wready(dma, in)
      /\ incoming' = IF "descriptor" \in ev THEN Advanced(incoming, DESCRIPTOR_WORDS) ELSE incoming
      /\ from_host' = IF "host" \in ev THEN Advanced(from_host, Packet(from_host[1])[2])
                      ELSE from_host
      /\ response' = (in.store # NoStore)
      /\ harts' = [h \in Harts |-> IF h \in ev THEN HartAfter(h) ELSE harts[h]]
  BY DEF Edge, EdgeInput
<1>3. in.system_rx = HostBeat(ev)
  BY DEF EdgeInput, Input, HostBeat
<1> HIDE DEF in
<1>4. FetcherResult(fetcher, fetcher', in.store, w, DescriptorReady)
  BY <1>1, FetcherParts DEF FetcherAsks
<1>5. CASE "descriptor" \notin ev
  BY <1>1, <1>2, <1>3, <1>4, <1>5 DEF ErrorsEdge, FetcherStep, WordAt, in
<1>6. CASE "descriptor" \in ev
  <2>1. "descriptor" \in Events
    BY <1>6
  <2>2. incoming[1] \in 1 .. Len(Lengths) /\ descriptor_ready(fetcher)
    BY <2>1, ProgramSound DEF Events, Packets, HartsHold
  <2>3. Lengths[incoming[1]] \in Nat \ {0}
    <3>1. Lengths \in Seq(Nat \ {0})
      BY DEF ClusterAssumption, HartsHold, Lengths
    <3>2. QED
      BY <2>2, <3>1
  <2>4. /\ w.packet = << incoming[1], Lengths[incoming[1]] >> /\ w.word = incoming[2]
        /\ w.sop = (incoming[2] = 0) /\ w.eop = (incoming[2] + 1 = DESCRIPTOR_WORDS)
    BY <1>6 DEF WordAt, Packet
  <2>5. w # NoWord
    <3>1. w.packet[1] # 0
      BY <2>2, <2>4
    <3>2. NoWord.packet[1] = 0
      BY DEF NoWord, NoPacket
    <3>3. QED
      BY <3>1, <3>2
  <2>6. Whole(w.packet)
    BY <2>3, <2>4 DEF Whole
  <2> HIDE DEF w
  <2>7. FetcherStep(in.store, w, DescriptorReady)
    BY <1>2, <1>4, <1>6, <2>2, <2>4, <2>5, <2>6 DEF FetcherStep
  <2>8. QED
    BY <1>1, <1>2, <1>3, <2>7 DEF ErrorsEdge, w, in
<1>7. QED
  BY <1>5, <1>6

(* The hart of an edge, its instruction and its store. *)
LEMMA HartOfEdge ==
  ASSUME Harts \subseteq {"hart1", "hart2"}, NEW ev \in SUBSET Events,
         Cardinality(HartEvent(ev)) <= 1
  PROVE  /\ (\A h \in Harts : h \notin ev) => StoreAt(ev) = NoStore
         /\ \A h \in Harts : h \in ev =>
              /\ StoreAt(ev) = StoreOf(h, Instruction(h)) /\ MayAct(h)
              /\ \A g \in Harts : g # h => g \notin ev
<1>1. \A g, h \in HartEvent(ev) : g = h
  BY OneHart
<1>2. ASSUME \A h \in Harts : h \notin ev PROVE StoreAt(ev) = NoStore
  BY <1>2 DEF StoreAt, HartEvent
<1>3. ASSUME NEW h \in Harts, h \in ev
      PROVE  /\ StoreAt(ev) = StoreOf(h, Instruction(h)) /\ MayAct(h)
             /\ \A g \in Harts : g # h => g \notin ev
  <2>1. h \in HartEvent(ev)
    BY <1>3 DEF HartEvent
  <2>2. StoreAt(ev) = StoreOf(h, Instruction(h))
    BY <1>1, <2>1 DEF StoreAt
  <2>3. h \in Events
    BY <1>3
  <2>4. MayAct(h)
    BY <2>3 DEF Events
  <2>5. QED
    BY <1>1, <2>1, <2>2, <2>4 DEF HartEvent
<1>4. QED
  BY <1>2, <1>3

(* A command that sends a packet. *)
Sends(flags) == FlagsAllowed(flags) /\ flags \cap {"NETWORK_CPU", "SYSTEM_CPU"} = {}

(* The doorbell of the two programs that send packets from the ring. *)
Doorbell == IF firmware = "ring" THEN 9 ELSE 8

(* The last of their instructions. *)
LastPc == IF firmware = "ring" THEN 11 ELSE 15

(* A program of that kind, its doorbell at c: it waits for a packet, stages *)
(* its length and its flags, rings and takes the next.                     *)
IsSender(p, c, last) ==
  /\ Len(p) = last /\ p[1] = "enable_auto" /\ p[2] = "await_loaded"
  /\ p[c - 3] = "LENGTH" /\ p[c - 1] \in {"FLAGS_TO_SYSTEM", "FLAGS_TO_NETWORK"}
  /\ p[c] = "COMMAND" /\ p[last] = "next"
  /\ \A pc \in 1 .. last :
       /\ p[pc] = "await_loaded" => pc = 2
       /\ p[pc] = "LENGTH" => pc = c - 3
       /\ p[pc] \in {"FLAGS_TO_SYSTEM", "FLAGS_TO_NETWORK"} => pc = c - 1
       /\ p[pc] = "COMMAND" => pc = c
       /\ p[pc] = "next" => pc = last
       /\ p[pc] = "check" => pc = c - 4
       /\ p[pc] = "await_ticket" => pc = 11 /\ last = 15
       /\ p[pc] \notin {"enable", "RX_HANDLE", "DESTINATION", "FLAGS_FROM_SYSTEM",
                        "FLAGS_FROM_NETWORK", "next_dma", "repeat"}

(* So they are. *)
LEMMA SenderProgram ==
  ASSUME firmware \in {"ring", "forward"}
  PROVE  Harts = {"hart1"} /\ IsSender(Program[firmware]["hart1"], Doorbell, LastPc)
<1> DEFINE p == Program[firmware]["hart1"]
<1>1. CASE firmware = "ring"
  <2>1. DOMAIN Program["ring"] = {"hart1"}
    BY DEF Program
  <2>2. p = << "enable_auto", "await_loaded", "await_ready", "lock", "check", "LENGTH", "SOURCE",
               "FLAGS_TO_SYSTEM", "COMMAND", "unlock", "next" >>
    BY <1>1 DEF Program
  <2> HIDE DEF p
  <2>3. IsSender(p, 9, 11)
    BY <2>2 DEF IsSender
  <2>4. QED
    BY <1>1, <2>1, <2>3 DEF Harts, Doorbell, LastPc, p
<1>2. CASE firmware = "forward"
  <2>1. DOMAIN Program["forward"] = {"hart1"}
    BY DEF Program
  <2>2. p = << "enable_auto", "await_loaded", "lock", "check", "LENGTH", "SOURCE", "FLAGS_TO_NETWORK",
         "COMMAND", "ticket", "unlock", "await_ticket", "CLEAR_ADDRESS", "CLEAR_NOTIFY",
         "await_cleared", "next" >>
    BY <1>2 DEF Program
  <2> HIDE DEF p
  <2>3. IsSender(p, 8, 15)
    BY <2>2 DEF IsSender
  <2>4. QED
    BY <1>2, <2>1, <2>3 DEF Harts, Doorbell, LastPc, p
<1>3. QED
  BY <1>1, <1>2

(* What the hart of such a program does at an edge. *)
SenderGoes(store, pc, next) ==
  LET c == Doorbell
  IN  /\ store.register = "LENGTH" <=> pc = c - 3
      /\ store.register = "LENGTH" => store.value = current_descriptor(fetcher)[2]
      /\ store.register = "FLAGS" <=> pc = c - 1
      /\ store.register = "FLAGS" => Sends(store.value)
      /\ store.register = "COMMAND" => pc = c
      /\ store.register = "ACTION" => pc = LastPc /\ store.value = {"NEXT"}
      /\ pc = LastPc => next = 2
      /\ pc = 1 => next = 2
      /\ pc = 2 => fetcher.count # 0
      /\ next \in c - 2 .. c => next = pc + 1

(* It does so. *)
LEMMA SenderStep ==
  ASSUME ClusterAssumption, HartsHold, firmware \in {"ring", "forward"}, MayAct("hart1")
  PROVE  SenderGoes(StoreOf("hart1", Instruction("hart1")), harts["hart1"].pc, NextPc("hart1"))
<1> DEFINE p == Program[firmware]["hart1"]
           c == Doorbell
           last == LastPc
           h == "hart1"
           i == Instruction(h)
           pc == harts[h].pc
           s == StoreOf(h, i)
           next == NextPc(h)
<1>1. /\ Harts = {"hart1"} /\ IsSender(p, c, last) /\ pc \in 1 .. last /\ i = p[pc]
      /\ (c = 9 /\ last = 11 /\ firmware = "ring") \/ (c = 8 /\ last = 15 /\ firmware = "forward")
      /\ Len(Program.ring.hart1) = 11
  <2>1. Harts = {"hart1"} /\ IsSender(p, c, last)
    BY SenderProgram
  <2>2. pc \in 1 .. Len(p)
    BY <2>1 DEF HartsHold
  <2>3. Len(Program.ring.hart1) = 11
    BY DEF Program
  <2>4. QED
    BY <2>1, <2>2, <2>3 DEF IsSender, Instruction, Doorbell, LastPc
<1>2. /\ i = "await_loaded" <=> pc = 2
      /\ i = "LENGTH" <=> pc = c - 3
      /\ i \in {"FLAGS_TO_SYSTEM", "FLAGS_TO_NETWORK"} <=> pc = c - 1
      /\ i = "COMMAND" => pc = c
      /\ i = "next" <=> pc = last
      /\ pc = 1 => i = "enable_auto"
      /\ i = "check" => pc = c - 4
      /\ i = "await_ticket" => pc = 11 /\ last = 15
      /\ i \notin {"enable", "RX_HANDLE", "DESTINATION", "FLAGS_FROM_SYSTEM",
                   "FLAGS_FROM_NETWORK", "next_dma", "repeat"}
  <2> HIDE DEF p, c, last, pc, i
  <2>1. QED
    BY <1>1 DEF IsSender
<1>3. \A j \in {"FLAGS_TO_SYSTEM", "FLAGS_TO_NETWORK"} : Sends(FlagsOf(h, j))
  <2>1. FlagsOf(h, "FLAGS_TO_SYSTEM") = {"CPU_SYSTEM"}
    BY DEF FlagsOf
  <2>2. CASE firmware = "forward"
    <3>1. FlagsOf(h, "FLAGS_TO_NETWORK") = {"CPU_NETWORK"} \cup {"RING_SOURCE"}
            \cup (IF ByFlag(h) THEN {"CLEAR_SOURCE_AFTER_TX"} ELSE {})
      BY <2>2 DEF FlagsOf
    <3>2. QED
      BY <2>1, <3>1 DEF Sends, FlagsAllowed
  <2>3. CASE firmware = "ring"
    <3>1. FlagsOf(h, "FLAGS_TO_NETWORK") \in {{"CPU_NETWORK"}, {"CPU_NETWORK", "RING_SOURCE"}}
      BY <2>3 DEF FlagsOf
    <3>2. QED
      BY <2>1, <3>1 DEF Sends, FlagsAllowed
  <2>4. QED
    BY <2>2, <2>3
<1>4. PacketOf(h) = current_descriptor(fetcher)
  BY DEF PacketOf
<1>5. pc = 2 => fetcher.count # 0
  <2>1. SUFFICES ASSUME i = "await_loaded" PROVE fetcher.count # 0
    BY <1>2
  <2>2. Proceeds(h, "await_loaded")
    BY <2>1 DEF MayAct
  <2>3. "AVAILABLE" \in FetcherStatus(fetcher, DescriptorReady)
    BY <2>2 DEF Proceeds
  <2>4. QED
    BY <2>3 DEF FetcherStatus
<1>6. /\ i = "next" => next = 2
      /\ pc = 1 => next = 2
      /\ \/ next = pc + 1
         \/ i = "await_loaded" /\ firmware = "ring" /\ next = 11
         \/ i = "check" /\ next = pc - 1
         \/ i = "await_ticket" /\ next = pc + 3
         \/ next = 2
  <2>1. next = CASE i = "await_loaded" /\ firmware = "ring" /\ ~SendsToSystem(h) -> 11
        [] i = "check" /\ ~Proceeds(h, i) -> pc - 1
        [] i = "await_ticket" /\ firmware = "forward" /\ ByFlag(h) -> pc + 3
        [] i \in {"next", "next_dma"} -> 2
        [] i = "repeat" -> 1
        [] OTHER -> pc + 1
    BY <1>1 DEF NextPc
  <2> HIDE DEF i, next, pc, last, c, h
  <2>2. CASE i \in {"await_loaded", "check", "await_ticket", "next"}
    BY <1>2, <2>1, <2>2
  <2>3. CASE i \notin {"await_loaded", "check", "await_ticket", "next"}
    BY <1>2, <2>1, <2>3
  <2>4. QED
    BY <2>2, <2>3
<1>7. next \in c - 2 .. c => next = pc + 1
  <2> HIDE DEF i, next, pc, last, c
  <2>1. QED
    BY <1>1, <1>2, <1>6
<1>8. /\ s.register = "LENGTH" <=> i = "LENGTH"
      /\ s.register = "LENGTH" => s.value = current_descriptor(fetcher)[2]
      /\ s.register = "FLAGS" <=> i \in {"FLAGS_TO_SYSTEM", "FLAGS_TO_NETWORK"}
      /\ s.register = "FLAGS" => s.value = FlagsOf(h, i)
      /\ s.register = "COMMAND" => i = "COMMAND"
      /\ s.register = "ACTION" => i = "next" /\ s.value = {"NEXT"}
  <2> HIDE DEF i, h
  <2>1. QED
    BY <1>2, <1>4 DEF StoreOf, NoStore
<1> HIDE DEF i, s, next, pc, last, c
<1>9. SenderGoes(s, pc, next)
  BY <1>2, <1>3, <1>5, <1>6, <1>7, <1>8 DEF SenderGoes, c, last
<1>10. QED
  BY <1>9 DEF s, pc, next, i

(* The length staged after a store. *)
LEMMA StagedLength ==
  ASSUME NEW d, NEW in, DOMAIN d.stage = StageRegisters
  PROVE  StageAfter(d, in).LENGTH = IF in.store.register = "LENGTH" THEN in.store.value
                                    ELSE d.stage.LENGTH
BY DEF StageAfter, StageRegisters, NoCommand

(* A line of the right place is no error. *)
LEMMA NextLine ==
  ASSUME NEW p, Whole(p), NEW i \in 0 .. p[2] - 1
  PROVE  /\ ~BeatError(i, p[2], LineBeat(p, i))
         /\ LineBeat(p, i).eop = (i + 1 = p[2]) /\ LineBeat(p, i).sop = (i = 0)
         /\ ~LineBeat(p, i).eop => i + 1 \in 0 .. p[2] - 1
<1> DEFINE n == p[2]
           b == LineBeat(p, i)
<1>1. b.sop = (i = 0) /\ b.eop = (i + 1 = n)
  BY DEF LineBeat
<1>2. n \in Nat \ {0} /\ i \in 0 .. n - 1
  BY DEF Whole
<1> SUFFICES /\ ~BeatError(i, n, b) /\ b.eop = (i + 1 = n) /\ b.sop = (i = 0)
             /\ ~b.eop => i + 1 \in 0 .. n - 1
  OBVIOUS
<1> HIDE DEF n, b
<1>3. ~BeatError(i, n, b)
  BY <1>1, <1>2 DEF BeatError
<1>4. ~b.eop => i + 1 \in 0 .. n - 1
  <2>1. SUFFICES ASSUME ~b.eop PROVE i + 1 \in 0 .. n - 1
    OBVIOUS
  <2>2. i + 1 # n
    BY <1>1, <2>1
  <2>3. QED
    BY <1>2, <2>2
<1>5. QED
  BY <1>1, <1>3, <1>4

(* The loading engine is at a line of a packet. *)
LoaderHolds ==
  dma.prefetch.state \in {"ISSUE", "STREAM"} =>
    /\ Whole(dma.prefetch.packet)
    /\ dma.prefetch.moved \in 0 .. dma.prefetch.packet[2] - 1

(* It stays at one, and complains of none. *)
LEMMA LoaderStays ==
  ASSUME EngineTypes, LoaderReads, LoaderHolds, QueueHolds, NEW in, ReadsEdge(in),
         dma'.prefetch = LoaderAfter(dma, in)
  PROVE  LoaderHolds' /\ ~LoaderError(dma, in)
<1> DEFINE r == dma.prefetch
           q == dma'.prefetch
<1>1. /\ DOMAIN r = {"state", "packet", "buffer", "moved"}
      /\ r.state \in {"IDLE", "ISSUE", "STREAM"}
      /\ r.state \in {"ISSUE", "STREAM"} => Whole(r.packet) /\ r.moved \in 0 .. r.packet[2] - 1
      /\ in.descriptor # << >> => Whole(Head(in.descriptor).packet)
  BY DEF EngineTypes, LoaderReads, LoaderHolds, QueueHolds, ReadsEdge
<1>2. SUFFICES /\ q.state \in {"ISSUE", "STREAM"} =>
                    Whole(q.packet) /\ q.moved \in 0 .. q.packet[2] - 1
               /\ ~LoaderError(dma, in)
  BY DEF LoaderHolds
<1>3. CASE LoaderTakes(dma, in)
  <2>1. /\ r.state = "STREAM" /\ in.rx = LineBeat(r.packet, r.moved)
        /\ q = [r EXCEPT !.state = IF in.rx.eop THEN "IDLE" ELSE @, !.moved = @ + 1]
    <3>1. r.state = "STREAM" /\ in.rx # NoBeat
      BY <1>3 DEF LoaderTakes
    <3>2. in.rx = LineBeat(Head(reads), read_line) /\ reads = << r.packet >> /\ read_line = r.moved
      BY <3>1 DEF ReadsEdge, LoaderReads
    <3>3. q = [r EXCEPT !.state = IF in.rx.eop THEN "IDLE" ELSE @, !.moved = @ + 1]
      BY <1>3, <3>1 DEF LoaderAfter, TakesPacket
    <3>4. QED
      BY <3>1, <3>2, <3>3, OneElement
  <2>2. /\ ~BeatError(r.moved, r.packet[2], in.rx)
        /\ ~in.rx.eop => r.moved + 1 \in 0 .. r.packet[2] - 1
    BY <1>1, <2>1, NextLine
  <2>3. /\ q.state = IF in.rx.eop THEN "IDLE" ELSE "STREAM"
        /\ q.moved = r.moved + 1 /\ q.packet = r.packet
    BY <1>1, <2>1
  <2>4. ~LoaderError(dma, in)
    BY <2>2 DEF LoaderError
  <2> HIDE DEF r, q
  <2>5. QED
    BY <1>1, <2>1, <2>2, <2>3, <2>4
<1>4. CASE ~LoaderTakes(dma, in) /\ TakesPacket(dma, in.descriptor)
  <2>1. in.descriptor # << >>
    BY <1>4 DEF TakesPacket
  <2>2. q.packet = Head(in.descriptor).packet /\ q.moved = 0
    BY <1>4 DEF LoaderAfter, TakesPacket, LoaderTakes
  <2>3. ~LoaderError(dma, in)
    BY <1>4 DEF LoaderError
  <2> HIDE DEF r, q
  <2>4. QED
    BY <1>1, <2>1, <2>2, <2>3 DEF Whole
<1>5. CASE ~LoaderTakes(dma, in) /\ ~TakesPacket(dma, in.descriptor)
  <2>1. q = r \/ (r.state = "ISSUE" /\ q = [r EXCEPT !.state = "STREAM"])
    BY <1>5 DEF LoaderAfter
  <2>2. ~LoaderError(dma, in)
    BY <1>5 DEF LoaderError
  <2> HIDE DEF r, q
  <2>3. QED
    BY <1>1, <2>1, <2>2
<1>6. QED
  BY <1>3, <1>4, <1>5

(* An engine that only sends takes no beat that could be out of its place. *)
LEMMA SendingEngine ==
  ASSUME NEW d, NEW p, NEW in, Prepared(d, p, in), d.state \in {"IDLE"} \cup SendStates,
         p.commands # << >> => Sends(Head(p.commands).FLAGS)
  PROVE  LET e == Engine(d, p, in)
         IN  /\ e.state \in {"IDLE"} \cup SendStates
             /\ e.protocol_error <=> p.protocol_error
             /\ e.commands = p.commands \/ (e.commands = Tail(p.commands) /\ d.state # "IDLE")
<1> DEFINE e == Engine(d, p, in)
<1>1. EngineResult(d, p, e, in)
  BY EngineGoes
<1> SUFFICES /\ e.state \in {"IDLE"} \cup SendStates
             /\ e.protocol_error <=> p.protocol_error
             /\ e.commands = p.commands \/ (e.commands = Tail(p.commands) /\ d.state # "IDLE")
  OBVIOUS
<1> HIDE DEF e
<1>2. CASE d.state = "IDLE"
  <2>1. CASE p.commands = << >>
    BY <1>1, <1>2, <2>1 DEF EngineResult, Working
  <2>2. CASE p.commands # << >>
    <3>1. Started(d, p, e)
      BY <1>1, <1>2, <2>2 DEF EngineResult
    <3>2. StartState(d, Head(p.commands)) = "READ_ADDRESS"
      BY <2>2 DEF Sends, StartState, IsNetwork
    <3>3. QED
      BY <3>1, <3>2 DEF Started, SendStates
  <2>3. QED
    BY <2>1, <2>2
<1>3. CASE d.state \in {"READ_ADDRESS", "READ_DATA"}
  BY <1>1, <1>3 DEF EngineResult, Working, SendStates
<1>4. CASE d.state \in {"SEND_OUTPUT", "POST_TX_CLEAR"}
  BY <1>1, <1>4 DEF EngineResult, Working, Ended, SendStates
<1>5. QED
  BY <1>2, <1>3, <1>4 DEF SendStates

(* The programs that send packets from the ring: they have a descriptor    *)
(* when they need one, stage a length and the flags before the doorbell,   *)
(* and order nothing but to send.                                          *)
SenderHolds ==
  LET c == Doorbell
      pc == harts["hart1"].pc
  IN  /\ pc > 2 => fetcher.count # 0
      /\ pc \in c - 2 .. c => dma.stage.LENGTH # 0
      /\ pc = c => Sends(dma.stage.FLAGS)
      /\ \A i \in 1 .. Len(dma.commands) : Sends(dma.commands[i].FLAGS)
      /\ dma.state \in {"IDLE"} \cup SendStates
      /\ LoaderHolds

(* The part of it that the hart moves. *)
LEMMA SenderStages ==
  ASSUME ClusterAssumption, FetcherAssumption, ReadsHold, QueueHolds, SenderHolds,
         firmware \in {"ring", "forward"},
         NEW ev \in SUBSET Events, Cardinality(HartEvent(ev)) <= 1, NEW in, ErrorsEdge(ev, in),
         dma'.stage = StageAfter(dma, in)
  PROVE  LET c == Doorbell
             pc == harts["hart1"].pc
             next == harts'["hart1"].pc
         IN  /\ next > 2 => fetcher'.count # 0
             /\ next \in c - 2 .. c => dma'.stage.LENGTH # 0
             /\ next = c => Sends(dma'.stage.FLAGS)
             /\ in.store.register = "COMMAND" => pc = c
             /\ ~Misuses(fetcher, in.store, DescriptorReady)
<1> DEFINE h == "hart1"
           c == Doorbell
           pc == harts[h].pc
           next == harts'[h].pc
           s == in.store
           f == fetcher
           g == fetcher'
<1>1. /\ Harts = {h} /\ pc \in Nat \ {0} /\ c \in {8, 9} /\ LastPc \in {11, 15}
      /\ HartsHold /\ EngineTypes
  <2>1. Harts = {h} /\ HartsHold /\ EngineTypes /\ c \in {8, 9} /\ LastPc \in {11, 15}
    BY SenderProgram DEF ReadsHold, Doorbell, LastPc
  <2>2. pc \in 1 .. Len(Program[firmware][h])
    BY <2>1 DEF HartsHold
  <2>3. QED
    BY <2>1, <2>2
<1>2. /\ harts' = [x \in Harts |-> IF x \in ev THEN HartAfter(x) ELSE harts[x]]
      /\ s = StoreAt(ev) /\ FetcherStep(s, WordAt(ev), DescriptorReady)
  BY DEF ErrorsEdge
<1>3. CASE h \in ev
  <2>1. MayAct(h) /\ s = StoreOf(h, Instruction(h))
    BY <1>1, <1>2, <1>3, HartOfEdge
  <2>2. SenderGoes(s, pc, NextPc(h))
    BY <1>1, <2>1, SenderStep
  <2>3. next = NextPc(h)
    BY <1>1, <1>2, <1>3 DEF HartAfter
  <2>4. /\ s.register = "LENGTH" <=> pc = c - 3
        /\ s.register = "LENGTH" => s.value = current_descriptor(f)[2]
        /\ s.register = "FLAGS" <=> pc = c - 1
        /\ s.register = "FLAGS" => Sends(s.value)
        /\ s.register = "COMMAND" => pc = c
        /\ s.register = "ACTION" => pc = LastPc /\ s.value = {"NEXT"}
        /\ pc = LastPc => next = 2
        /\ pc = 1 => next = 2
        /\ pc = 2 => f.count # 0
        /\ next \in c - 2 .. c => next = pc + 1
    BY <2>2, <2>3 DEF SenderGoes
  <2>5. /\ pc > 2 => f.count # 0
        /\ pc \in c - 2 .. c => dma.stage.LENGTH # 0
        /\ pc = c => Sends(dma.stage.FLAGS)
    BY DEF SenderHolds
  <2>6. pc > 2 => current_descriptor(f)[2] # 0
    <3>1. SUFFICES ASSUME f.count # 0 PROVE current_descriptor(f)[2] # 0
      BY <2>5
    <3>2. Whole(f.queue[f.head])
      <4> DEFINE z == 0
      <4>1. z \in 0 .. FETCH_DEPTH /\ z \in 0 .. f.count - 1 /\ f.head \in 0 .. FETCH_DEPTH - 1
            /\ FETCH_DEPTH \in Nat \ {0}
        BY <3>1 DEF QueueHolds, FetcherAssumption
      <4> HIDE DEF z
      <4>2. /\ (f.head + z) % FETCH_DEPTH = IF f.head + z < FETCH_DEPTH THEN f.head + z
                                            ELSE f.head + z - FETCH_DEPTH
            /\ Whole(f.queue[(f.head + z) % FETCH_DEPTH])
        BY <4>1, RingPlace DEF QueueHolds
      <4>3. QED
        BY <4>1, <4>2 DEF z
    <3>3. QED
      BY <3>1, <3>2 DEF current_descriptor, Whole
  <2>7. /\ dma'.stage.LENGTH = IF s.register = "LENGTH" THEN s.value ELSE dma.stage.LENGTH
        /\ dma'.stage.FLAGS = IF s.register = "FLAGS" THEN s.value ELSE dma.stage.FLAGS
    BY <1>1, StagedLength, StagedFlags DEF EngineTypes
  <2>8. ~Misuses(f, s, DescriptorReady)
    BY <2>4 DEF Misuses, Forwards
  <2>9. s.register # "ACTION" => (f.count # 0 => g.count # 0)
    <3>1. SUFFICES ASSUME s.register # "ACTION", f.count # 0 PROVE g.count # 0
      OBVIOUS
    <3>2. ~Advances(f, s, DescriptorReady)
      BY <3>1 DEF Advances, Dispatches
    <3>3. g.count \in {f.count, f.count + 1} /\ f.count \in Nat
      BY <1>2, <3>2 DEF FetcherStep, FetcherResult, QueueHolds
    <3>4. QED
      BY <3>1, <3>3
  <2> HIDE DEF c, pc, next, s, f, g
  <2>10. next > 2 => g.count # 0
    BY <1>1, <2>4, <2>5, <2>9
  <2>11. next \in c - 2 .. c => dma'.stage.LENGTH # 0
    <3>1. SUFFICES ASSUME next \in c - 2 .. c PROVE dma'.stage.LENGTH # 0
      OBVIOUS
    <3>2. next = pc + 1 /\ pc > 2
      BY <1>1, <2>4, <3>1
    <3>3. CASE pc = c - 3
      BY <1>1, <2>4, <2>6, <2>7, <3>2, <3>3
    <3>4. CASE pc # c - 3
      <4>1. pc \in c - 2 .. c
        BY <1>1, <3>1, <3>2, <3>4
      <4>2. QED
        BY <2>4, <2>5, <2>7, <3>4, <4>1
    <3>5. QED
      BY <3>3, <3>4
  <2>12. next = c => Sends(dma'.stage.FLAGS)
    BY <1>1, <2>4, <2>7
  <2>13. QED
    BY <2>4, <2>8, <2>10, <2>11, <2>12 DEF c, pc, next, s, f, g
<1>4. CASE h \notin ev
  <2>1. s = NoStore
    BY <1>1, <1>2, <1>4, HartOfEdge
  <2>2. s.register = "NONE"
    BY <2>1 DEF NoStore
  <2>3. next = pc
    BY <1>1, <1>2, <1>4
  <2>4. dma'.stage.LENGTH = dma.stage.LENGTH /\ dma'.stage.FLAGS = dma.stage.FLAGS
    BY <1>1, <2>2, StagedLength, StagedFlags DEF EngineTypes
  <2>5. ~Misuses(f, s, DescriptorReady) /\ ~Advances(f, s, DescriptorReady)
    BY <2>2 DEF Misuses, Advances, Dispatches
  <2>6. g.count \in {f.count, f.count + 1} /\ f.count \in Nat
    BY <1>2, <2>5 DEF FetcherStep, FetcherResult, QueueHolds
  <2>7. f.count # 0 => g.count # 0
    BY <2>6
  <2>8. QED
    BY <2>2, <2>3, <2>4, <2>5, <2>7 DEF SenderHolds
<1>5. QED
  BY <1>3, <1>4

(* An edge keeps it, and leads to no error. *)
LEMMA SenderNext ==
  ASSUME ClusterAssumption, DmaAssumption, FetcherAssumption, ReadsHold, QueueHolds, SenderHolds,
         firmware \in {"ring", "forward"},
         NEW ev \in SUBSET Events, Cardinality(HartEvent(ev)) <= 1, NEW in, ErrorsEdge(ev, in),
         ~dma.protocol_error
  PROVE  /\ SenderHolds' /\ ~dma'.protocol_error
         /\ ~Misuses(fetcher, in.store, DescriptorReady)
<1>1. EngineTypes /\ LoaderReads /\ ReadsEdge(in) /\ FetcherAsks /\ wready(dma, in)
  BY DEF ReadsHold, ErrorsEdge
<1>2. PICK p : LET e == Engine(dma, p, in)
               IN  /\ Prepared(dma, p, in)
                   /\ dma'.state = e.state /\ dma'.commands = e.commands
                   /\ dma'.protocol_error = e.protocol_error
                   /\ dma'.stage = StageAfter(dma, in) /\ dma'.prefetch = LoaderAfter(dma, in)
  BY <1>1, DMAParts DEF EngineTypes, ReadsEdge
<1> DEFINE e == Engine(dma, p, in)
           c == Doorbell
           pc == harts["hart1"].pc
           next == harts'["hart1"].pc
           q == p.commands
<1>3. /\ next > 2 => fetcher'.count # 0
      /\ next \in c - 2 .. c => dma'.stage.LENGTH # 0
      /\ next = c => Sends(dma'.stage.FLAGS)
      /\ in.store.register = "COMMAND" => pc = c
      /\ ~Misuses(fetcher, in.store, DescriptorReady)
  BY <1>2, SenderStages
<1>4. LoaderHolds' /\ ~LoaderError(dma, in)
  BY <1>1, <1>2, LoaderStays DEF SenderHolds
<1>5. in.store.register = "COMMAND" => Sends(dma.stage.FLAGS) /\ dma.stage.LENGTH # 0
  <2>1. c \in Nat
    BY DEF Doorbell
  <2>2. pc = c => Sends(dma.stage.FLAGS) /\ dma.stage.LENGTH # 0
    BY <2>1 DEF SenderHolds
  <2>3. QED
    BY <1>3, <2>2
<1>6. ~Refused(dma, in)
  BY <1>1, <1>5 DEF Refused, Orders, Sends, wready
<1>7. /\ Queue(q) /\ \A i \in 1 .. Len(q) : Sends(q[i].FLAGS)
      /\ dma.state # "IDLE" => q # << >>
      /\ q # << >> => Sends(Head(q).FLAGS)
  <2>1. q = dma.commands \/ (q = Append(dma.commands, dma.stage) /\ Sends(dma.stage.FLAGS))
    <3>1. in.descriptor # << >> => Head(in.descriptor).cache
      BY <1>1 DEF FetcherAsks, ReadsEdge
    <3>2. QED
      BY <1>2, <1>5, <3>1 DEF Prepared, Pushed, Orders
  <2>2. Queue(dma.commands) /\ \A i \in 1 .. Len(dma.commands) : Sends(dma.commands[i].FLAGS)
    BY <1>1 DEF EngineTypes, SenderHolds
  <2>3. \A i \in 1 .. Len(q) : Sends(q[i].FLAGS)
    <3>1. CASE q = dma.commands
      BY <2>2, <3>1
    <3>2. CASE q = Append(dma.commands, dma.stage) /\ Sends(dma.stage.FLAGS)
      <4>1. SUFFICES ASSUME NEW i \in 1 .. Len(q) PROVE Sends(q[i].FLAGS)
        OBVIOUS
      <4> HIDE DEF q
      <4>2. (i \in 1 .. Len(dma.commands) /\ q[i] = dma.commands[i]) \/ q[i] = dma.stage
        BY <2>2, <3>2, <4>1, OldOrNew
      <4>3. QED
        BY <2>2, <3>2, <4>2
    <3>3. QED
      BY <2>1, <3>1, <3>2
  <2>4. Queue(q) /\ (dma.state # "IDLE" => q # << >>)
    BY <1>1, <1>2, PushedQueue DEF Prepared, EngineTypes
  <2> HIDE DEF q
  <2>5. q # << >> => Sends(Head(q).FLAGS)
    BY <2>3, <2>4, TailElements
  <2>6. QED
    BY <2>3, <2>4, <2>5
<1>8. /\ e.state \in {"IDLE"} \cup SendStates
      /\ e.protocol_error <=> p.protocol_error
      /\ e.commands = q \/ (e.commands = Tail(q) /\ dma.state # "IDLE")
  BY <1>2, <1>7, SendingEngine DEF SenderHolds
<1>9. ~p.protocol_error
  BY <1>2, <1>4, <1>6 DEF Prepared
<1> HIDE DEF e, q
<1>10. \A i \in 1 .. Len(e.commands) : Sends(e.commands[i].FLAGS)
  <2>1. CASE e.commands = q
    BY <1>7, <2>1
  <2>2. CASE e.commands = Tail(q) /\ q # << >>
    BY <1>7, <2>2, TailElements
  <2>3. QED
    BY <1>7, <1>8, <2>1, <2>2
<1>11. Doorbell' = c
  BY DEF Doorbell, ErrorsEdge
<1>12. QED
  BY <1>2, <1>3, <1>4, <1>8, <1>9, <1>10, <1>11 DEF SenderHolds, e

(* A command for a whole packet of the network. *)
Sized(c) == c.LENGTH = c.RX_HANDLE[2] /\ Whole(c.RX_HANDLE)

(* The program that hands descriptors on: it finds one and room for its    *)
(* command, which leaves before the hart can act again.                    *)
FastHolds ==
  /\ harts["hart1"].pc = 3 => fetcher.count # 0 /\ fetcher.command = << >> /\ HasRoom(dma)
  /\ fetcher.command # << >> => response /\ HasRoom(dma)
  /\ \A i \in 1 .. Len(dma.commands) : Sized(dma.commands[i])
  /\ dma.state = "WAIT_INPUT" => dma.moved \in 0 .. dma.active.LENGTH - 1

(* What its hart does at an edge. *)
FastGoes(store, pc, next) ==
  /\ store.register = "ACTION" <=> pc = 3
  /\ pc = 3 => Forwards(store.value) \in {{"DMA_SYSTEM"}, {"DMA_DISCARD"}} /\ "NEXT" \in store.value
  /\ pc = 3 => store # NoStore
  /\ next = 3 => pc = 2
  /\ pc = 2 => fetcher.count # 0 /\ HasRoom(dma) /\ fetcher.command = << >>

(* It does so. *)
LEMMA FastStep ==
  ASSUME ClusterAssumption, HartsHold, FetcherAsks, FastHolds, firmware = "fast", MayAct("hart1")
  PROVE  FastGoes(StoreOf("hart1", Instruction("hart1")), harts["hart1"].pc, NextPc("hart1"))
<1> DEFINE p == Program[firmware]["hart1"]
           h == "hart1"
           i == Instruction(h)
           pc == harts[h].pc
           s == StoreOf(h, i)
           next == NextPc(h)
<1>1. /\ p = << "enable", "await_dma_ready", "next_dma" >> /\ pc \in 1 .. 3 /\ i = p[pc]
  <2>1. p = << "enable", "await_dma_ready", "next_dma" >> /\ h \in Harts
    BY DEF Program, Harts
  <2>2. pc \in 1 .. Len(p)
    BY <2>1 DEF HartsHold
  <2>3. QED
    BY <2>1, <2>2 DEF Instruction
<1>2. /\ pc = 1 => i = "enable"
      /\ pc = 2 => i = "await_dma_ready"
      /\ pc = 3 => i = "next_dma"
  <2> HIDE DEF p, pc, i
  <2>1. QED
    BY <1>1
<1>3. pc = 2 => fetcher.count # 0 /\ HasRoom(dma) /\ fetcher.command = << >>
  <2>1. SUFFICES ASSUME i = "await_dma_ready"
                 PROVE  fetcher.count # 0 /\ HasRoom(dma) /\ fetcher.command = << >>
    BY <1>2
  <2>2. Proceeds(h, "await_dma_ready") /\ ~response
    BY <2>1 DEF MayAct
  <2>3. /\ "AVAILABLE" \in FetcherStatus(fetcher, DescriptorReady)
        /\ "DMA_READY" \in FetcherStatus(fetcher, DescriptorReady)
    BY <2>2 DEF Proceeds
  <2>4. fetcher.count # 0 /\ DescriptorReady
    BY <2>3 DEF FetcherStatus
  <2>5. fetcher.command = << >>
    BY <2>2 DEF FastHolds
  <2>6. HasRoom(dma)
    BY <2>4, <2>5 DEF DescriptorReady, descriptor_command_ready
  <2>7. QED
    BY <2>4, <2>5, <2>6
<1>4. next = CASE i = "next_dma" -> 2 [] i # "next_dma" -> pc + 1
  <2>1. i \in {"enable", "await_dma_ready", "next_dma"}
    BY <1>1, <1>2
  <2> HIDE DEF i
  <2>2. next = CASE i = "await_loaded" /\ firmware = "ring" /\ ~SendsToSystem(h) ->
                  Len(Program.ring.hart1)
        [] i = "check" /\ ~Proceeds(h, i) -> pc - 1
        [] i = "await_ticket" /\ firmware = "forward" /\ ByFlag(h) -> pc + 3
        [] i \in {"next", "next_dma"} -> 2
        [] i = "repeat" -> 1
        [] OTHER -> pc + 1
    BY DEF NextPc, i
  <2> HIDE DEF next, h
  <2>3. QED
    BY <2>1, <2>2
<1>5. CASE pc \in {1, 2}
  <2>1. s.register \in {"CONTROL", "NONE"}
    <3>1. i \in {"enable", "await_dma_ready"}
      BY <1>2, <1>5
    <3> HIDE DEF i
    <3>2. QED
      BY <3>1 DEF StoreOf, NoStore
  <2>2. next = 3 => pc = 2
    BY <1>2, <1>4, <1>5
  <2> HIDE DEF s, next, pc
  <2>3. FastGoes(s, pc, next)
    BY <1>3, <1>5, <2>1, <2>2 DEF FastGoes
  <2>4. QED
    BY <2>3 DEF s, next, pc
<1>6. CASE pc = 3
  <2>1. \E x \in {"DMA_SYSTEM", "DMA_DISCARD"} :
          s = [register |-> "ACTION", value |-> {"NEXT", x}]
    <3>1. i = "next_dma"
      BY <1>2, <1>6
    <3> HIDE DEF i
    <3>2. QED
      BY <3>1 DEF StoreOf
  <2>2. next = 2
    BY <1>2, <1>4, <1>6
  <2> HIDE DEF s, next, pc
  <2>3. PICK x \in {"DMA_SYSTEM", "DMA_DISCARD"} : s = [register |-> "ACTION", value |-> {"NEXT", x}]
    BY <2>1
  <2>4. s.register = "ACTION" /\ s.value = {"NEXT", x} /\ Forwards(s.value) = {x} /\ s # NoStore
    <3>1. s.register = "ACTION" /\ s.value = {"NEXT", x}
      BY <2>3
    <3>2. NoStore.register = "NONE"
      BY DEF NoStore
    <3>3. QED
      BY <3>1, <3>2 DEF Forwards
  <2>5. Forwards(s.value) \in {{"DMA_SYSTEM"}, {"DMA_DISCARD"}}
    <3>1. Forwards(s.value) = {x}
      BY <2>4
    <3>2. x = "DMA_SYSTEM" \/ x = "DMA_DISCARD"
      BY <2>3
    <3>3. CASE x = "DMA_SYSTEM"
      <4>1. Forwards(s.value) = {"DMA_SYSTEM"}
        BY <3>1, <3>3
      <4>2. QED
        BY <4>1
    <3>4. CASE x = "DMA_DISCARD"
      <4>1. Forwards(s.value) = {"DMA_DISCARD"}
        BY <3>1, <3>4
      <4>2. QED
        BY <4>1
    <3>5. QED
      BY <3>2, <3>3, <3>4
  <2>6. "NEXT" \in s.value
    BY <2>4
  <2>7. s.register = "ACTION" /\ s # NoStore
    BY <2>4
  <2>8. FastGoes(s, pc, next)
    BY <1>6, <2>2, <2>5, <2>6, <2>7 DEF FastGoes
  <2>9. QED
    BY <2>8 DEF s, next, pc
<1>7. QED
  BY <1>1, <1>5, <1>6

(* The command of a descriptor is for a whole packet. *)
LEMMA CommandSized ==
  ASSUME NEW r, NEW ready, Whole(r.packet)
  PROVE  Sized(DescriptorCommand(r, ready))
<1> DEFINE c == DescriptorCommand(r, ready)
<1>1. c.RX_HANDLE = r.packet /\ c.LENGTH = r.packet[2]
  BY DEF DescriptorCommand, NoCommand
<1> HIDE DEF c
<1>2. Sized(c)
  BY <1>1 DEF Sized
<1>3. QED
  BY <1>2 DEF c

(* Every line that comes is the next one of the command at work. *)
LEMMA DescriptorLines ==
  ASSUME EngineTypes, DescriptorReads, FastHolds, QueueHolds, ClusterAssumption, DmaAssumption,
         NEW in, ReadsEdge(in), NEW p, Prepared(dma, p, in),
         fetcher.command # << >> => ~Head(fetcher.command).cache,
         in.store.register # "COMMAND"
  PROVE  LET e == Engine(dma, p, in)
         IN  /\ e.protocol_error <=> p.protocol_error
             /\ \A i \in 1 .. Len(e.commands) : Sized(e.commands[i])
             /\ e.state = "WAIT_INPUT" => e.moved \in 0 .. e.active.LENGTH - 1
             /\ fetcher.command = << >> => Len(e.commands) <= Len(dma.commands)
<1> DEFINE e == Engine(dma, p, in)
           q == p.commands
           r == Head(in.descriptor)
           c == DescriptorCommand(r, in.read_ready)
<1>1. EngineResult(dma, p, e, in)
  BY EngineGoes
<1>2. /\ Queue(dma.commands) /\ \A i \in 1 .. Len(dma.commands) : Sized(dma.commands[i])
      /\ \A i \in 1 .. Len(dma.commands) : Carried(dma.commands[i])
      /\ dma.state # "IDLE" => dma.commands # << >> /\ dma.active = Head(dma.commands)
      /\ dma.state \in {"IDLE", "WAIT_INPUT"} /\ dma.prefetch.state = "IDLE"
      /\ reads = ReadsOf(dma.commands)
      /\ read_line = IF dma.state = "WAIT_INPUT" THEN dma.moved ELSE 0
      /\ dma.state = "WAIT_INPUT" => dma.moved \in 0 .. dma.active.LENGTH - 1
      /\ p.active = dma.active /\ p.moved = dma.moved
      /\ in.descriptor = fetcher.command
  BY DEF EngineTypes, FastHolds, DescriptorReads, Prepared, ReadsEdge
<1>3. \/ q = dma.commands
      \/ in.descriptor # << >> /\ q = Append(dma.commands, c) /\ Sized(c) /\ Len(dma.commands) \in Nat
  <2>1. ~Orders(dma, in)
    BY DEF Orders
  <2>2. q = dma.commands \/ (in.descriptor # << >> /\ q = Append(dma.commands, c))
    BY <2>1 DEF Prepared, Pushed
  <2>3. in.descriptor # << >> => Sized(c)
    BY <1>2, CommandSized DEF QueueHolds
  <2>4. QED
    BY <1>2, <2>2, <2>3 DEF Queue
<1>4. /\ Queue(q) /\ \A i \in 1 .. Len(q) : Sized(q[i])
      /\ dma.commands # << >> => q # << >> /\ Head(q) = Head(dma.commands)
      /\ in.descriptor = << >> => q = dma.commands
  <2> HIDE DEF q, c
  <2>1. CASE q = dma.commands
    BY <1>2, <2>1
  <2>2. CASE in.descriptor # << >> /\ q = Append(dma.commands, c) /\ Sized(c)
    <3>1. Queue(q) /\ (dma.commands # << >> => q # << >> /\ Head(q) = Head(dma.commands))
      BY <1>2, <2>2, AppendElements
    <3>2. SUFFICES ASSUME NEW i \in 1 .. Len(q) PROVE Sized(q[i])
      BY <2>2, <3>1
    <3>3. (i \in 1 .. Len(dma.commands) /\ q[i] = dma.commands[i]) \/ q[i] = c
      BY <1>2, <2>2, <3>2, OldOrNew
    <3>4. QED
      BY <1>2, <2>2, <3>3
  <2>3. QED
    BY <1>3, <2>1, <2>2
<1>5. /\ e.protocol_error <=> p.protocol_error
      /\ e.commands = q \/ (e.commands = Tail(q) /\ q # << >>)
      /\ e.state = "WAIT_INPUT" => e.moved \in 0 .. e.active.LENGTH - 1
  <2> SUFFICES /\ e.protocol_error <=> p.protocol_error
               /\ e.commands = q \/ (e.commands = Tail(q) /\ q # << >>)
               /\ e.state = "WAIT_INPUT" => e.moved \in 0 .. e.active.LENGTH - 1
    OBVIOUS
  <2>1. CASE dma.state = "IDLE" /\ q = << >>
    <3>1. Working(p, e, "IDLE", dma.moved, dma.beat, FALSE)
      BY <1>1, <2>1 DEF EngineResult
    <3> HIDE DEF e
    <3>2. QED
      BY <3>1 DEF Working
  <2>2. CASE dma.state = "IDLE" /\ q # << >>
    <3>1. Started(dma, p, e)
      BY <1>1, <2>2 DEF EngineResult
    <3>2. Sized(Head(q))
      BY <1>4, <2>2, TailElements
    <3>3. 0 \in 0 .. Head(q).LENGTH - 1
      BY <3>2 DEF Sized, Whole
    <3> HIDE DEF e
    <3>4. QED
      BY <3>1, <3>3 DEF Started
  <2>3. CASE dma.state = "WAIT_INPUT"
    <3> DEFINE a == dma.active
    <3>1. Sized(a) /\ Carried(a) /\ q # << >> /\ a = Head(dma.commands)
          /\ Head(reads) = a.RX_HANDLE
      <4>1. dma.commands # << >> /\ 1 \in 1 .. Len(dma.commands) /\ a = dma.commands[1]
            /\ a = Head(dma.commands)
        BY <1>2, <2>3, TailElements
      <4>2. Head(reads) = a.RX_HANDLE
        BY <1>2, <4>1 DEF ReadsOf
      <4>3. QED
        BY <1>2, <1>4, <4>1, <4>2
    <3>2. Is(dma, "NETWORK_CPU") /\ PassesOn(dma) /\ EngineInput(dma, in) = in.rx
      BY <3>1 DEF Carried, IsNetwork, Straight, Is, Flag, PassesOn, StraightInput, EngineInput
    <3>3. in.rx # NoBeat => in.rx = LineBeat(a.RX_HANDLE, dma.moved)
      BY <1>2, <2>3, <3>1 DEF ReadsEdge
    <3>4. in.rx # NoBeat =>
            /\ ~BeatError(dma.moved, a.LENGTH, in.rx)
            /\ ~in.rx.eop => dma.moved + 1 \in 0 .. a.LENGTH - 1
      <4>1. Whole(a.RX_HANDLE) /\ a.LENGTH = a.RX_HANDLE[2]
            /\ dma.moved \in 0 .. a.RX_HANDLE[2] - 1
        BY <1>2, <2>3, <3>1 DEF Sized
      <4>2. /\ ~BeatError(dma.moved, a.RX_HANDLE[2], LineBeat(a.RX_HANDLE, dma.moved))
            /\ ~LineBeat(a.RX_HANDLE, dma.moved).eop =>
                  dma.moved + 1 \in 0 .. a.RX_HANDLE[2] - 1
        BY <4>1, NextLine
      <4>3. QED
        BY <3>3, <4>1, <4>2
    <3>5. IF in.rx = NoBeat \/ ~TakesInput(dma, in)
          THEN Working(p, e, "WAIT_INPUT", dma.moved, dma.beat, FALSE)
          ELSE IF in.rx.eop THEN Ended(p, e, BeatError(dma.moved, a.LENGTH, in.rx))
          ELSE Working(p, e, "WAIT_INPUT", dma.moved + 1, dma.beat,
                       BeatError(dma.moved, a.LENGTH, in.rx))
      BY <1>1, <2>3, <3>2 DEF EngineResult
    <3> HIDE DEF e
    <3>6. CASE in.rx = NoBeat \/ ~TakesInput(dma, in)
      BY <1>2, <2>3, <3>5, <3>6 DEF Working
    <3>7. CASE ~(in.rx = NoBeat \/ ~TakesInput(dma, in)) /\ in.rx.eop
      BY <3>1, <3>4, <3>5, <3>7 DEF Ended
    <3>8. CASE ~(in.rx = NoBeat \/ ~TakesInput(dma, in)) /\ ~in.rx.eop
      BY <1>2, <3>4, <3>5, <3>8 DEF Working
    <3>9. QED
      BY <3>6, <3>7, <3>8
  <2>4. QED
    BY <1>2, <2>1, <2>2, <2>3
<1> SUFFICES /\ e.protocol_error <=> p.protocol_error
             /\ \A i \in 1 .. Len(e.commands) : Sized(e.commands[i])
             /\ e.state = "WAIT_INPUT" => e.moved \in 0 .. e.active.LENGTH - 1
             /\ fetcher.command = << >> => Len(e.commands) <= Len(dma.commands)
  OBVIOUS
<1> HIDE DEF e, q
<1>6. \A i \in 1 .. Len(e.commands) : Sized(e.commands[i])
  <2>1. CASE e.commands = q
    BY <1>4, <2>1
  <2>2. CASE e.commands = Tail(q) /\ q # << >>
    BY <1>4, <2>2, TailElements
  <2>3. QED
    BY <1>5, <2>1, <2>2
<1>7. fetcher.command = << >> => Len(e.commands) <= Len(dma.commands)
  <2>1. SUFFICES ASSUME fetcher.command = << >> PROVE Len(e.commands) <= Len(q)
    BY <1>2, <1>4
  <2>2. CASE e.commands = q
    <3>1. Len(q) \in Nat
      BY <1>4 DEF Queue
    <3>2. QED
      BY <2>2, <3>1
  <2>3. CASE e.commands = Tail(q) /\ q # << >>
    <3>1. Len(Tail(q)) = Len(q) - 1 /\ Len(q) \in Nat
      BY <1>4, <2>3, TailElements
    <3>2. QED
      BY <2>3, <3>1
  <2>4. QED
    BY <1>5, <2>2, <2>3
<1>8. QED
  BY <1>5, <1>6, <1>7

(* An edge keeps it, and leads to no error. *)
LEMMA FastNext ==
  ASSUME ClusterAssumption, DmaAssumption, FetcherAssumption, ReadsHold, QueueHolds, FastHolds,
         firmware = "fast", ~refused,
         NEW ev \in SUBSET Events, Cardinality(HartEvent(ev)) <= 1, NEW in, ErrorsEdge(ev, in),
         ~dma.protocol_error
  PROVE  /\ FastHolds' /\ ~dma'.protocol_error
         /\ ~Misuses(fetcher, in.store, DescriptorReady)
<1> DEFINE h == "hart1"
           pc == harts[h].pc
           next == harts'[h].pc
           s == in.store
           f == fetcher
           g == fetcher'
           ready == DescriptorReady
<1>1. /\ EngineTypes /\ DescriptorReads /\ ReadsEdge(in) /\ FetcherAsks /\ HartsHold
      /\ f.command # << >> => ~Head(f.command).cache
      /\ Harts = {h}
  <2>1. DOMAIN Program["fast"] = {h}
    BY DEF Program
  <2>2. QED
    BY <2>1 DEF ReadsHold, ErrorsEdge, FetcherAsks, Harts
<1>2. PICK p : LET e == Engine(dma, p, in)
               IN  /\ Prepared(dma, p, in)
                   /\ dma'.state = e.state /\ dma'.active = e.active /\ dma'.moved = e.moved
                   /\ dma'.commands = e.commands
                   /\ dma'.protocol_error = e.protocol_error
  BY <1>1, DMAParts DEF EngineTypes, ReadsEdge
<1>3. /\ s = StoreAt(ev) /\ FetcherStep(s, WordAt(ev), ready)
      /\ response' = (s # NoStore)
      /\ harts' = [x \in Harts |-> IF x \in ev THEN HartAfter(x) ELSE harts[x]]
  BY DEF ErrorsEdge
<1>4. StoreSound(s)
  BY <1>1, <1>3, StoresAreSound
<1>5. s.register # "COMMAND"
  BY <1>4 DEF StoreSound
<1>6. IF h \in ev THEN FastGoes(s, pc, next)
      ELSE s.register = "NONE" /\ next = pc
  <2>1. CASE h \in ev
    <3>1. MayAct(h) /\ s = StoreOf(h, Instruction(h))
      BY <1>1, <1>3, <2>1, HartOfEdge
    <3>2. FastGoes(s, pc, NextPc(h))
      BY <1>1, <3>1, FastStep
    <3>3. next = NextPc(h)
      BY <1>1, <1>3, <2>1 DEF HartAfter
    <3>4. QED
      BY <2>1, <3>2, <3>3
  <2>2. CASE h \notin ev
    <3>1. s = NoStore
      BY <1>1, <1>3, <2>2, HartOfEdge
    <3>2. next = pc
      BY <1>1, <1>3, <2>2
    <3>3. QED
      BY <2>2, <3>1, <3>2 DEF NoStore
  <2>3. QED
    BY <2>1, <2>2
<1>7. HasRoom(dma) => ready
  <2>1. dma.prefetch.state # "ISSUE" /\ dma.state # "ISSUE_NETWORK_READ"
    BY <1>1 DEF DescriptorReads
  <2>2. QED
    BY <1>1, <2>1 DEF DescriptorReady, descriptor_command_ready
<1>8. /\ pc = 3 => f.count # 0 /\ f.command = << >> /\ HasRoom(dma)
      /\ f.command # << >> => response /\ HasRoom(dma)
  BY DEF FastHolds
<1> HIDE DEF ready
<1>9. Dispatches(f, s, ready) => pc = 3 /\ s # NoStore
  <2>1. Dispatches(f, s, ready) => s.register = "ACTION"
    BY DEF Dispatches
  <2>2. QED
    BY <1>6, <2>1 DEF FastGoes
<1>10. ~Misuses(f, s, ready)
  <2>1. CASE s.register = "ACTION"
    <3>1. /\ pc = 3 /\ Forwards(s.value) \in {{"DMA_SYSTEM"}, {"DMA_DISCARD"}}
          /\ "NEXT" \in s.value
      BY <1>6, <2>1 DEF FastGoes
    <3>2. Forwards(s.value) # {} /\ Forwards(s.value) # {"DMA_DISCARD", "DMA_SYSTEM"}
      <4> DEFINE b == Forwards(s.value)
      <4>1. b \in {{"DMA_SYSTEM"}, {"DMA_DISCARD"}}
        BY <3>1
      <4> HIDE DEF b
      <4>2. b # {} /\ b # {"DMA_DISCARD", "DMA_SYSTEM"}
        <5>1. CASE b = {"DMA_SYSTEM"}
          <6>1. "DMA_SYSTEM" \in b /\ "DMA_DISCARD" \notin b
            BY <5>1
          <6>2. QED
            BY <6>1
        <5>2. CASE b = {"DMA_DISCARD"}
          <6>1. "DMA_DISCARD" \in b /\ "DMA_SYSTEM" \notin b
            BY <5>2
          <6>2. QED
            BY <6>1
        <5>3. QED
          BY <4>1, <5>1, <5>2
      <4>3. QED
        BY <4>2 DEF b
    <3>3. f.count # 0 /\ ready
      BY <1>7, <1>8, <3>1
    <3>4. Dispatches(f, s, ready)
      BY <2>1, <3>1, <3>2, <3>3 DEF Dispatches
    <3>5. QED
      BY <3>4 DEF Misuses
  <2>2. CASE s.register # "ACTION"
    BY <2>2 DEF Misuses
  <2>3. QED
    BY <2>1, <2>2
<1>11. g.command # << >> => pc = 3 /\ response' /\ f.command = << >> /\ HasRoom(dma) /\ h \in ev
  <2>1. ~(Enters(f, WordAt(ev)) /\ f.auto_l2)
    BY <1>1 DEF FetcherAsks
  <2>2. g.command = IF Dispatches(f, s, ready)
                    THEN Command(current_descriptor(f), "DMA_SYSTEM" \in s.value, FALSE, 0)
                    ELSE IF ready THEN << >> ELSE f.command
    BY <1>3, <2>1 DEF FetcherStep, FetcherResult, CommandAfter
  <2>3. f.command # << >> => ready
    BY <1>7, <1>8
  <2>4. g.command # << >> => Dispatches(f, s, ready)
    BY <2>2, <2>3
  <2>5. Dispatches(f, s, ready) => h \in ev
    BY <1>6 DEF Dispatches
  <2>6. QED
    BY <1>3, <1>8, <1>9, <2>4, <2>5
<1>12. next = 3 => (pc = 2 \/ (pc = 3 /\ h \notin ev)) /\ f.count # 0 /\ f.command = << >> /\ HasRoom(dma)
  BY <1>6, <1>8 DEF FastGoes
<1>13. next = 3 => g.count # 0 /\ g.command = << >>
  <2>1. SUFFICES ASSUME next = 3 PROVE g.count # 0 /\ g.command = << >>
    OBVIOUS
  <2>2. s.register # "ACTION"
    BY <1>6, <1>12, <2>1 DEF FastGoes
  <2>3. ~Advances(f, s, ready)
    BY <2>2 DEF Advances, Dispatches
  <2>4. g.count \in {f.count, f.count + 1} /\ f.count \in Nat
    BY <1>3, <2>3 DEF FetcherStep, FetcherResult, QueueHolds
  <2>5. g.command = << >>
    BY <1>11, <1>12, <2>1
  <2>6. QED
    BY <1>12, <2>1, <2>4, <2>5
<1> DEFINE e == Engine(dma, p, in)
<1>14. /\ e.protocol_error <=> p.protocol_error
       /\ \A i \in 1 .. Len(e.commands) : Sized(e.commands[i])
       /\ e.state = "WAIT_INPUT" => e.moved \in 0 .. e.active.LENGTH - 1
       /\ f.command = << >> => Len(e.commands) <= Len(dma.commands)
  BY <1>1, <1>2, <1>5, DescriptorLines
<1>15. ~p.protocol_error
  <2>1. ~LoaderError(dma, in)
    BY <1>1 DEF LoaderError, LoaderTakes, DescriptorReads
  <2>2. ~Refused(dma, in)
    BY <1>5 DEF Refused
  <2>3. QED
    BY <1>2, <2>1, <2>2 DEF Prepared
<1> HIDE DEF e, pc, next
<1>16. f.command = << >> /\ HasRoom(dma) => HasRoom(dma')
  <2>1. Len(dma.commands) \in Nat /\ CMD_DEPTH \in Nat
    BY <1>1 DEF EngineTypes, Queue, DmaAssumption
  <2>2. Queue(dma.commands) /\ Len(e.commands) \in Nat
    <3>1. EngineTypes'
      BY <1>1, TypesNext DEF ReadsEdge
    <3>2. Queue(dma'.commands)
      BY <3>1 DEF EngineTypes
    <3>3. QED
      BY <1>1, <1>2, <3>2 DEF Queue, e, EngineTypes
  <2>3. dma'.commands = e.commands
    BY <1>2 DEF e
  <2>4. QED
    BY <1>14, <2>1, <2>2, <2>3 DEF HasRoom
<1>17. FastHolds'
  <2>1. next = 3 => g.count # 0 /\ g.command = << >> /\ HasRoom(dma')
    BY <1>12, <1>13, <1>16
  <2>2. g.command # << >> => response' /\ HasRoom(dma')
    BY <1>11, <1>16
  <2>3. \A i \in 1 .. Len(dma'.commands) : Sized(dma'.commands[i])
    BY <1>2, <1>14 DEF e
  <2>4. dma'.state = "WAIT_INPUT" => dma'.moved \in 0 .. dma'.active.LENGTH - 1
    BY <1>2, <1>14 DEF e
  <2>5. QED
    BY <2>1, <2>2, <2>3, <2>4 DEF FastHolds, next
<1>18. QED
  BY <1>2, <1>10, <1>14, <1>15, <1>17 DEF ready, e

(* A command ordered by a doorbell counts, and the next one has to be      *)
(* staged anew.                                                            *)
LEMMA OrderCounts ==
  ASSUME NEW d, NEW in, DOMAIN d = Registers, in.descriptor = << >>
  PROVE  /\ DMAEdge(d, in).issued = IF Orders(d, in) THEN d.issued + 1 ELSE d.issued
         /\ DMAEdge(d, in).armed <=>
              ~Orders(d, in) /\ (in.store.register \in StageRegisters \/ d.armed)
<1> DEFINE a == BackingPush(d, d, in)
           b == BackingWrite(d, a, in)
           c == Prefetch(d, b, in)
           s == DMAStore(d, c, in)
           p == Push(d, s, in)
           e == Engine(d, p, in)
           f == PairCommits(e, in.commit)
<1>1. DOMAIN a = Registers /\ a.issued = d.issued /\ a.armed = d.armed
  BY BackingPushKeeps, RegisterNames DEF Keeps
<1>2. DOMAIN b = Registers /\ b.issued = d.issued /\ b.armed = d.armed
  <2> HIDE DEF a
  <2>1. QED
    BY <1>1, BackingWriteKeeps, RegisterNames DEF Keeps
<1>3. DOMAIN c = Registers /\ c.issued = d.issued /\ c.armed = d.armed
  <2> HIDE DEF b
  <2>1. QED
    BY <1>2, PrefetchKeeps, RegisterNames DEF Keeps
<1>4. /\ DOMAIN s = Registers /\ s.issued = d.issued
      /\ s.armed <=> in.store.register \in StageRegisters \/ d.armed
  <2> HIDE DEF c
  <2>1. DOMAIN s = Registers /\ s.issued = d.issued
    BY <1>3, DMAStoreKeeps, RegisterNames DEF Keeps
  <2>2. \A r \in {"COMMAND_LOCK", "CLEAR_ADDRESS", "CLEAR_NOTIFY", "COMMAND"} : r \notin StageRegisters
    BY DEF StageRegisters, NoCommand
  <2>3. s.armed <=> in.store.register \in StageRegisters \/ d.armed
    <3>1. CASE in.store.register \in StageRegisters
      <4>1. s = [c EXCEPT !.stage[in.store.register] = in.store.value, !.armed = TRUE]
        BY <2>2, <3>1 DEF DMAStore
      <4> HIDE DEF s
      <4>2. s.armed = TRUE
        BY <1>3, <4>1, RegisterNames
      <4>3. QED
        BY <3>1, <4>2
    <3>2. CASE in.store.register \notin StageRegisters
      <4>1. s.armed = c.armed
        BY <1>3, <2>2, <3>2, RegisterNames DEF DMAStore, Noted
      <4>2. QED
        BY <1>3, <3>2, <4>1
    <3>3. QED
      BY <3>1, <3>2
  <2>4. QED
    BY <2>1, <2>3
<1>5. /\ DOMAIN p = Registers
      /\ p.issued = IF Orders(d, in) THEN d.issued + 1 ELSE d.issued
      /\ p.armed <=> ~Orders(d, in) /\ (in.store.register \in StageRegisters \/ d.armed)
  <2> HIDE DEF s
  <2>1. CASE Orders(d, in)
    <3>1. p = [s EXCEPT !.commands = Append(@, d.stage), !.armed = FALSE, !.issued = @ + 1]
      BY <2>1 DEF Push
    <3> HIDE DEF p
    <3>2. QED
      BY <1>4, <2>1, <3>1, RegisterNames
  <2>2. CASE ~Orders(d, in)
    <3>1. p = s
      BY <2>2 DEF Push
    <3> HIDE DEF p
    <3>2. QED
      BY <1>4, <2>2, <3>1
  <2>3. QED
    BY <2>1, <2>2
<1>6. DOMAIN e = Registers /\ e.issued = p.issued /\ e.armed = p.armed
  <2> HIDE DEF p
  <2>1. QED
    BY <1>5, EngineKeeps, RegisterNames DEF Keeps, EngineRegisters
<1>7. f.issued = p.issued /\ f.armed = p.armed
  <2> HIDE DEF e
  <2>1. QED
    BY <1>6, PairCommitsKeeps, RegisterNames DEF Keeps
<1>8. f = DMAEdge(d, in)
  BY DEF DMAEdge
<1> HIDE DEF f, p
<1>9. QED
  BY <1>5, <1>7, <1>8

(* A command of "bridge" that loads a packet: hart1 loads from Network,    *)
(* hart2 from System.                                                      *)
Loads(h, flags) ==
  /\ FlagsAllowed(flags)
  /\ "NETWORK_CPU" \in flags <=> h = "hart1"
  /\ "SYSTEM_CPU" \in flags <=> h = "hart2"

(* The pcs of "bridge" at which the registers belong to the hart. *)
Owned == (3 .. 9) \cup (13 .. 18)

(* A hart at one of them has the lock. *)
LEMMA BridgeOwns ==
  ASSUME ClusterAssumption, HartsHold, firmware = "bridge", NEW h \in Harts
  PROVE  harts[h].pc \in 1 .. 20 /\ (harts[h].pc \in Owned => dma.lock = Token(h))
<1> DEFINE p == Program[firmware][h]
           pc == harts[h].pc
           load == IF h = "hart1" THEN "FLAGS_FROM_NETWORK" ELSE "FLAGS_FROM_SYSTEM"
           send == IF h = "hart1" THEN "FLAGS_TO_NETWORK" ELSE "FLAGS_TO_SYSTEM"
<1>1. h \in {"hart1", "hart2"} /\ IsBridge(p, h) /\ pc \in 1 .. 20
  <2>1. h \in {"hart1", "hart2"} /\ p = Program["bridge"][h] /\ pc \in 1 .. Len(p)
    BY ProgramSound DEF HartsHold
  <2>2. IsBridge(p, h)
    BY <2>1, BridgeProgram
  <2>3. QED
    BY <2>1, <2>2 DEF IsBridge
<1>2. pc \in Owned => dma.lock = Token(h)
  <2>1. p[2] = "check" /\ p[12] = "check"
        /\ \A j \in (2 .. 8) \cup (12 .. 17) : p[j] # "unlock"
    <3>1. /\ p[2] = "check" /\ p[12] = "check"
          /\ p[3] = "RX_HANDLE" /\ p[4] = "LENGTH" /\ p[5] = "DESTINATION" /\ p[6] = load
          /\ p[7] = "COMMAND" /\ p[8] = "ticket"
          /\ p[13] = "LENGTH" /\ p[14] = "SOURCE" /\ p[15] = send
          /\ p[16] = "COMMAND" /\ p[17] = "ticket"
          /\ load # "unlock" /\ send # "unlock"
      BY <1>1 DEF IsBridge
    <3> HIDE DEF p, load, send
    <3>2. SUFFICES ASSUME NEW j \in (2 .. 8) \cup (12 .. 17) PROVE p[j] # "unlock"
      BY <3>1
    <3>3. j = 2 \/ j = 3 \/ j = 4 \/ j = 5 \/ j = 6 \/ j = 7 \/ j = 8 \/ j = 12 \/ j = 13
          \/ j = 14 \/ j = 15 \/ j = 16 \/ j = 17
      BY <3>2
    <3>4. QED
      BY <3>1, <3>3
  <2>2. pc \in Owned => Owning(p, pc)
    <3> HIDE DEF p, pc
    <3>1. CASE pc \in 3 .. 9
      <4>1. 2 \in 1 .. pc - 1 /\ \A j \in 2 .. pc - 1 : j \in 2 .. 8
        BY <3>1
      <4>2. QED
        BY <2>1, <4>1 DEF Owning
    <3>2. CASE pc \in 13 .. 18
      <4>1. 12 \in 1 .. pc - 1 /\ \A j \in 12 .. pc - 1 : j \in 12 .. 17
        BY <3>2
      <4>2. QED
        BY <2>1, <4>1 DEF Owning
    <3>3. QED
      BY <3>1, <3>2 DEF Owned
  <2>3. QED
    BY <2>2, OwnsIsOwning DEF HartsHold, StagingExclusive
<1>3. QED
  BY <1>1, <1>2

(* What a hart of "bridge" does at an edge. *)
BridgeGoes(h, store, pc, next, k) ==
  /\ store.register = "RX_HANDLE" <=> pc = 3
  /\ store.register = "RX_HANDLE" => store.value = Packet(k)
  /\ store.register = "LENGTH" <=> pc \in {4, 13}
  /\ store.register = "LENGTH" => store.value = Lengths[k]
  /\ store.register = "FLAGS" <=> pc \in {6, 15}
  /\ store.register = "FLAGS" => IF pc = 6 THEN Loads(h, store.value) ELSE Sends(store.value)
  /\ store.register \in StageRegisters => pc \in (3 .. 6) \cup (13 .. 15)
  /\ store.register = "COMMAND" <=> pc \in {7, 16}
  /\ store.register # "ACTION"
  /\ \/ next = pc + 1 /\ pc < 20
     \/ pc \in {2, 12} /\ next = pc - 1
     \/ pc = 20 /\ next = 1
  /\ pc = 10 /\ h = "hart2" => dma.completed >= harts[h].ticket
  /\ k \in Packets

(* It does so. *)
LEMMA BridgeStep ==
  ASSUME ClusterAssumption, HartsHold, firmware = "bridge", NEW h \in Harts, MayAct(h),
         harts[h].packets \in Nat
  PROVE  /\ BridgeGoes(h, StoreOf(h, Instruction(h)), harts[h].pc, NextPc(h), harts[h].packets + 1)
         /\ harts[h].pc \in 1 .. 20
         /\ Instruction(h) = "ticket" <=> harts[h].pc \in {8, 17}
         /\ Instruction(h) \in {"next", "next_dma", "repeat"} <=> harts[h].pc = 20
<1> DEFINE p == Program[firmware][h]
           i == Instruction(h)
           pc == harts[h].pc
           s == StoreOf(h, i)
           next == NextPc(h)
           k == harts[h].packets + 1
           load == IF h = "hart1" THEN "FLAGS_FROM_NETWORK" ELSE "FLAGS_FROM_SYSTEM"
           send == IF h = "hart1" THEN "FLAGS_TO_NETWORK" ELSE "FLAGS_TO_SYSTEM"
<1>1. /\ h \in {"hart1", "hart2"} /\ IsBridge(p, h) /\ pc \in 1 .. 20 /\ i = p[pc]
  <2>1. h \in {"hart1", "hart2"} /\ p = Program["bridge"][h] /\ pc \in 1 .. Len(p)
    BY ProgramSound DEF HartsHold
  <2>2. IsBridge(p, h)
    BY <2>1, BridgeProgram
  <2>3. Len(p) = 20
    BY <2>2 DEF IsBridge
  <2>4. QED
    BY <2>1, <2>2, <2>3 DEF Instruction
<1>2. /\ i = "RX_HANDLE" <=> pc = 3
      /\ i = "LENGTH" <=> pc \in {4, 13}
      /\ i \in {"FLAGS_FROM_NETWORK", "FLAGS_FROM_SYSTEM"} <=> pc = 6
      /\ i \in {"FLAGS_TO_NETWORK", "FLAGS_TO_SYSTEM"} <=> pc = 15
      /\ pc = 6 => i = load
      /\ pc = 15 => i = send
      /\ i = "COMMAND" <=> pc \in {7, 16}
      /\ i = "ticket" <=> pc \in {8, 17}
      /\ i = "await_ticket" <=> pc \in {10, 19}
      /\ i = "check" <=> pc \in {2, 12}
      /\ i = "repeat" <=> pc = 20
      /\ i = "SOURCE" <=> pc = 14
      /\ i = "DESTINATION" <=> pc = 5
      /\ i \in {"RX_HANDLE", "LENGTH", "DESTINATION", "FLAGS_FROM_NETWORK", "FLAGS_FROM_SYSTEM",
                "COMMAND", "SOURCE", "FLAGS_TO_NETWORK", "FLAGS_TO_SYSTEM", "check", "ticket",
                "await_ticket", "repeat", "lock", "unlock"}
  <2>1. load \in {"FLAGS_FROM_NETWORK", "FLAGS_FROM_SYSTEM"}
        /\ send \in {"FLAGS_TO_NETWORK", "FLAGS_TO_SYSTEM"}
    OBVIOUS
  <2>2. p[6] = load /\ p[15] = send
    BY <1>1 DEF IsBridge
  <2> HIDE DEF p, pc, i, load, send
  <2>3. pc \in 1 .. 20
    BY <1>1
  <2>4. /\ pc = 1 => i = "lock"
        /\ pc = 2 => i = "check"
        /\ pc = 3 => i = "RX_HANDLE"
        /\ pc = 4 => i = "LENGTH"
        /\ pc = 5 => i = "DESTINATION"
        /\ pc = 6 => i = load
        /\ pc = 7 => i = "COMMAND"
        /\ pc = 8 => i = "ticket"
        /\ pc = 9 => i = "unlock"
        /\ pc = 10 => i = "await_ticket"
        /\ pc = 11 => i = "lock"
        /\ pc = 12 => i = "check"
        /\ pc = 13 => i = "LENGTH"
        /\ pc = 14 => i = "SOURCE"
        /\ pc = 15 => i = send
        /\ pc = 16 => i = "COMMAND"
        /\ pc = 17 => i = "ticket"
        /\ pc = 18 => i = "unlock"
        /\ pc = 19 => i = "await_ticket"
        /\ pc = 20 => i = "repeat"
    BY <1>1, <2>2 DEF IsBridge
  <2>5. \/ pc = 1 \/ pc = 2 \/ pc = 3 \/ pc = 4 \/ pc = 5 \/ pc = 6 \/ pc = 7 \/ pc = 8
        \/ pc = 9 \/ pc = 10 \/ pc = 11 \/ pc = 12 \/ pc = 13 \/ pc = 14 \/ pc = 15
        \/ pc = 16 \/ pc = 17 \/ pc = 18 \/ pc = 19 \/ pc = 20
    BY <2>3
  <2>6. QED
    BY <2>1, <2>4, <2>5
<1>3. Loads(h, FlagsOf(h, load)) /\ Sends(FlagsOf(h, send))
  <2>1. CASE h = "hart1"
    <3>1. FlagsOf(h, load) \in {{"NETWORK_CPU"}, {"NETWORK_CPU", "CACHE_ALLOCATE"}}
      <4>1. FlagsOf(h, load) = {"NETWORK_CPU"} \cup (IF ByFlag(h) THEN {} ELSE {"CACHE_ALLOCATE"})
        BY <2>1 DEF FlagsOf
      <4>2. QED
        BY <4>1
    <3>2. FlagsOf(h, send) \in {{"CPU_NETWORK"}, {"CPU_NETWORK", "RING_SOURCE"}}
      <4>1. FlagsOf(h, send) = {"CPU_NETWORK"} \cup (IF ~ByFlag(h) THEN {"RING_SOURCE"} ELSE {})
        BY <2>1 DEF FlagsOf
      <4>2. QED
        BY <4>1
    <3> DEFINE x == FlagsOf(h, load)
               y == FlagsOf(h, send)
    <3>3. x \in {{"NETWORK_CPU"}, {"NETWORK_CPU", "CACHE_ALLOCATE"}}
          /\ y \in {{"CPU_NETWORK"}, {"CPU_NETWORK", "RING_SOURCE"}}
      BY <3>1, <3>2
    <3> HIDE DEF x, y
    <3>4. Loads(h, x)
      BY <2>1, <3>3 DEF Loads, FlagsAllowed
    <3>5. Sends(y)
      BY <3>3 DEF Sends, FlagsAllowed
    <3>6. QED
      BY <3>4, <3>5 DEF x, y
  <2>2. CASE h = "hart2"
    <3> DEFINE x == FlagsOf(h, load)
               y == FlagsOf(h, send)
    <3>1. x = {"SYSTEM_CPU"} /\ y = {"CPU_SYSTEM"}
      BY <2>2 DEF FlagsOf
    <3> HIDE DEF x, y
    <3>2. Loads(h, x) /\ Sends(y)
      BY <2>2, <3>1 DEF Loads, Sends, FlagsAllowed
    <3>3. QED
      BY <3>2 DEF x, y
  <2>3. QED
    BY <1>1, <2>1, <2>2
<1>4. PacketOf(h) = Packet(k) /\ Packet(k)[2] = Lengths[k]
  BY DEF PacketOf, Packet
<1>5. k \in Packets
  <2>1. harts[h].packets < Len(Lengths) /\ Len(Lengths) \in Nat
    BY DEF MayAct, ClusterAssumption, HartsHold, Lengths
  <2>2. QED
    BY <2>1 DEF Packets
<1>6. pc = 10 /\ h = "hart2" => dma.completed >= harts[h].ticket
  <2>1. SUFFICES ASSUME i = "await_ticket", h = "hart2" PROVE dma.completed >= harts[h].ticket
    BY <1>2
  <2>2. Proceeds(h, "await_ticket")
    BY <2>1 DEF MayAct
  <2>3. TicketRetired(h)
    BY <2>2 DEF Proceeds
  <2>4. QED
    BY <2>1, <2>3 DEF TicketRetired
<1>7. /\ i \notin {"check", "repeat"} => next = pc + 1
      /\ i = "check" => next \in {pc - 1, pc + 1}
      /\ i = "repeat" => next = 1
  <2>1. next = CASE i = "await_loaded" /\ firmware = "ring" /\ ~SendsToSystem(h) ->
                  Len(Program.ring.hart1)
        [] i = "check" /\ ~Proceeds(h, i) -> pc - 1
        [] i = "await_ticket" /\ firmware = "forward" /\ ByFlag(h) -> pc + 3
        [] i \in {"next", "next_dma"} -> 2
        [] i = "repeat" -> 1
        [] OTHER -> pc + 1
    BY DEF NextPc
  <2> HIDE DEF i, next, pc
  <2>2. QED
    BY <1>2, <2>1
<1>8. \/ next = pc + 1 /\ pc < 20
      \/ pc \in {2, 12} /\ next = pc - 1
      \/ pc = 20 /\ next = 1
  <2> HIDE DEF i, next, pc
  <2>1. QED
    BY <1>1, <1>2, <1>7
<1>9. /\ s.register = "RX_HANDLE" <=> i = "RX_HANDLE"
      /\ s.register = "RX_HANDLE" => s.value = PacketOf(h)
      /\ s.register = "LENGTH" <=> i = "LENGTH"
      /\ s.register = "LENGTH" => s.value = PacketOf(h)[2]
      /\ s.register = "FLAGS" <=> i \in {"FLAGS_FROM_NETWORK", "FLAGS_FROM_SYSTEM",
                                         "FLAGS_TO_NETWORK", "FLAGS_TO_SYSTEM"}
      /\ s.register = "FLAGS" => s.value = FlagsOf(h, i)
      /\ s.register = "SOURCE" => i = "SOURCE"
      /\ s.register = "DESTINATION" => i = "DESTINATION"
      /\ s.register = "COMMAND" <=> i = "COMMAND"
      /\ s.register # "ACTION"
  <2> HIDE DEF i
  <2>1. /\ i = "RX_HANDLE" => s = [register |-> "RX_HANDLE", value |-> PacketOf(h)]
        /\ i = "LENGTH" => s = [register |-> "LENGTH", value |-> PacketOf(h)[2]]
        /\ i = "COMMAND" => s.register = "COMMAND"
        /\ i = "SOURCE" => s.register = "SOURCE"
        /\ i = "DESTINATION" => s.register = "DESTINATION"
    BY DEF StoreOf
  <2>2. i \in {"FLAGS_FROM_NETWORK", "FLAGS_FROM_SYSTEM", "FLAGS_TO_NETWORK", "FLAGS_TO_SYSTEM"} =>
          s = [register |-> "FLAGS", value |-> FlagsOf(h, i)]
    BY DEF StoreOf
  <2>3. i \in {"lock", "unlock"} => s.register = "COMMAND_LOCK"
    BY DEF StoreOf
  <2>4. i \in {"check", "ticket", "await_ticket", "repeat"} => s.register = "NONE"
    BY DEF StoreOf, NoStore
  <2> HIDE DEF s
  <2>5. CASE i \in {"lock", "unlock"}
    BY <2>3, <2>5
  <2>6. CASE i \in {"check", "ticket", "await_ticket", "repeat"}
    BY <2>4, <2>6
  <2>7. CASE i \in {"FLAGS_FROM_NETWORK", "FLAGS_FROM_SYSTEM", "FLAGS_TO_NETWORK", "FLAGS_TO_SYSTEM"}
    BY <2>2, <2>7
  <2>8. CASE i \in {"RX_HANDLE", "LENGTH"}
    BY <2>1, <2>8
  <2>9. CASE i \in {"COMMAND", "SOURCE", "DESTINATION"}
    BY <2>1, <2>9
  <2>10. QED
    BY <1>2, <2>5, <2>6, <2>7, <2>8, <2>9
<1>10. StageRegisters = {"RX_HANDLE", "LENGTH", "SOURCE", "DESTINATION", "FLAGS"}
  BY DEF StageRegisters, NoCommand
<1> HIDE DEF p, s, next, k, load, send
<1>12. BridgeGoes(h, s, pc, next, k)
  <2> HIDE DEF pc, i
  <2>1. s.register = "FLAGS" => IF pc = 6 THEN Loads(h, s.value) ELSE Sends(s.value)
    BY <1>2, <1>3, <1>9
  <2>2. s.register \in StageRegisters => pc \in (3 .. 6) \cup (13 .. 15)
    BY <1>2, <1>9, <1>10
  <2>3. pc = 10 /\ h = "hart2" => dma.completed >= harts[h].ticket
    BY <1>6 DEF pc
  <2>4. /\ s.register = "RX_HANDLE" <=> pc = 3
        /\ s.register = "RX_HANDLE" => s.value = Packet(k)
        /\ s.register = "LENGTH" <=> pc \in {4, 13}
        /\ s.register = "LENGTH" => s.value = Lengths[k]
        /\ s.register = "FLAGS" <=> pc \in {6, 15}
        /\ s.register = "COMMAND" <=> pc \in {7, 16}
        /\ s.register # "ACTION"
    BY <1>2, <1>4, <1>9
  <2>5. QED
    BY <1>5, <1>8, <2>1, <2>2, <2>3, <2>4 DEF BridgeGoes
<1>13. i \in {"next", "next_dma", "repeat"} <=> pc = 20
  <2> HIDE DEF i, pc
  <2>1. QED
    BY <1>2
<1>14. QED
  BY <1>1, <1>2, <1>12, <1>13 DEF s, next, k

(* What an edge does to the harts of "bridge". *)
LEMMA BridgeActs ==
  ASSUME ClusterAssumption, HartsHold, firmware = "bridge", \A x \in Harts : harts[x].packets \in Nat,
         NEW ev \in SUBSET Events, Cardinality(HartEvent(ev)) <= 1, NEW in, ErrorsEdge(ev, in)
  PROVE  /\ Harts = {"hart1", "hart2"}
         /\ (\A h \in Harts : h \notin ev) => in.store.register = "NONE"
         /\ \A h \in Harts : h \notin ev => harts'[h] = harts[h]
         /\ \A h \in Harts : h \in ev =>
              /\ BridgeGoes(h, in.store, harts[h].pc, harts'[h].pc, harts[h].packets + 1)
              /\ harts'[h].packets = IF harts[h].pc = 20 THEN harts[h].packets + 1
                                     ELSE harts[h].packets
              /\ harts'[h].ticket = IF harts[h].pc \in {8, 17} THEN dma.issued
                                    ELSE harts[h].ticket
              /\ \A g \in Harts : g # h =>
                   g \notin ev /\ (harts[g].pc \in Owned => harts[h].pc \notin Owned)
<1>1. Harts = {"hart1", "hart2"}
  BY DEF Program, Harts
<1>2. /\ in.store = StoreAt(ev)
      /\ harts' = [h \in Harts |-> IF h \in ev THEN HartAfter(h) ELSE harts[h]]
  BY DEF ErrorsEdge
<1>3. (\A h \in Harts : h \notin ev) => in.store.register = "NONE"
  BY <1>1, <1>2, HartOfEdge DEF NoStore
<1>4. \A h \in Harts : h \notin ev => harts'[h] = harts[h]
  BY <1>2
<1>5. ASSUME NEW h \in Harts, h \in ev
      PROVE  /\ BridgeGoes(h, in.store, harts[h].pc, harts'[h].pc, harts[h].packets + 1)
             /\ harts'[h].packets = IF harts[h].pc = 20 THEN harts[h].packets + 1
                                    ELSE harts[h].packets
             /\ harts'[h].ticket = IF harts[h].pc \in {8, 17} THEN dma.issued
                                   ELSE harts[h].ticket
             /\ \A g \in Harts : g # h =>
                  g \notin ev /\ (harts[g].pc \in Owned => harts[h].pc \notin Owned)
  <2>1. /\ StoreAt(ev) = StoreOf(h, Instruction(h)) /\ MayAct(h)
        /\ \A g \in Harts : g # h => g \notin ev
    BY <1>1, <1>5, HartOfEdge
  <2>2. /\ BridgeGoes(h, StoreOf(h, Instruction(h)), harts[h].pc, NextPc(h), harts[h].packets + 1)
        /\ Instruction(h) = "ticket" <=> harts[h].pc \in {8, 17}
        /\ Instruction(h) \in {"next", "next_dma", "repeat"} <=> harts[h].pc = 20
    BY <2>1, BridgeStep
  <2>3. harts'[h] = HartAfter(h)
    BY <1>2, <1>5
  <2>4. /\ harts'[h].pc = NextPc(h)
        /\ harts'[h].ticket = IF Instruction(h) = "ticket" THEN dma.issued ELSE harts[h].ticket
        /\ harts'[h].packets = IF Instruction(h) \in {"next", "next_dma", "repeat"}
                               THEN harts[h].packets + 1 ELSE harts[h].packets
    BY <2>3 DEF HartAfter
  <2>5. ASSUME NEW g \in Harts, g # h, harts[g].pc \in Owned PROVE harts[h].pc \notin Owned
    <3>1. dma.lock = Token(g) /\ (harts[h].pc \in Owned => dma.lock = Token(h))
      BY <2>5, BridgeOwns
    <3>2. Token(g) # Token(h)
      BY <1>1, <2>5 DEF Token
    <3>3. QED
      BY <3>1, <3>2
  <2>6. BridgeGoes(h, in.store, harts[h].pc, harts'[h].pc, harts[h].packets + 1)
    BY <1>2, <2>1, <2>2, <2>4
  <2>7. QED
    BY <2>1, <2>2, <2>4, <2>5, <2>6
<1>6. QED
  BY <1>1, <1>3, <1>4, <1>5

(* The registers a hart of "bridge" has staged: those of its packet, and   *)
(* flags that load or send it.                                             *)
BridgeStaged(h) ==
  LET pc == harts[h].pc
      k == harts[h].packets + 1
  IN  /\ harts[h].packets \in Nat
      /\ pc # 1 => k \in Packets
      /\ pc \in (4 .. 7) \cup (14 .. 16) => dma.armed
      /\ pc \in 4 .. 7 => dma.stage.RX_HANDLE = Packet(k)
      /\ pc \in (5 .. 7) \cup (14 .. 16) => dma.stage.LENGTH = Lengths[k]
      /\ pc = 7 => Loads(h, dma.stage.FLAGS)
      /\ pc = 16 => Sends(dma.stage.FLAGS)

(* The handle staged after a store. *)
LEMMA StagedHandle ==
  ASSUME NEW d, NEW in, DOMAIN d.stage = StageRegisters
  PROVE  StageAfter(d, in).RX_HANDLE = IF in.store.register = "RX_HANDLE" THEN in.store.value
                                       ELSE d.stage.RX_HANDLE
BY DEF StageAfter, StageRegisters, NoCommand

(* They stay so: no other hart stores between the lock and the unlock. *)
LEMMA BridgeStages ==
  ASSUME ClusterAssumption, HartsHold, EngineTypes, firmware = "bridge",
         \A x \in Harts : BridgeStaged(x),
         NEW ev \in SUBSET Events, Cardinality(HartEvent(ev)) <= 1, NEW in, ErrorsEdge(ev, in),
         dma'.stage = StageAfter(dma, in),
         dma'.armed <=> ~Orders(dma, in) /\ (in.store.register \in StageRegisters \/ dma.armed),
         NEW h \in Harts
  PROVE  BridgeStaged(h)'
<1> DEFINE pc == harts[h].pc
           k == harts[h].packets + 1
           next == harts'[h].pc
           l == harts'[h].packets + 1
           s == in.store
           Goal == /\ harts'[h].packets \in Nat
                   /\ next # 1 => l \in Packets
                   /\ next \in (4 .. 7) \cup (14 .. 16) => dma'.armed
                   /\ next \in 4 .. 7 => dma'.stage.RX_HANDLE = Packet(l)
                   /\ next \in (5 .. 7) \cup (14 .. 16) => dma'.stage.LENGTH = Lengths[l]
                   /\ next = 7 => Loads(h, dma'.stage.FLAGS)
                   /\ next = 16 => Sends(dma'.stage.FLAGS)
<1>1. SUFFICES Goal
  <2>1. firmware' = firmware
    BY DEF ErrorsEdge
  <2>2. BridgeStaged(h)' <=> Goal
    BY <2>1 DEF BridgeStaged, Packets, Lengths, Packet
  <2>3. QED
    BY <2>2
<1>2. /\ harts[h].packets \in Nat
      /\ pc # 1 => k \in Packets
      /\ pc \in (4 .. 7) \cup (14 .. 16) => dma.armed
      /\ pc \in 4 .. 7 => dma.stage.RX_HANDLE = Packet(k)
      /\ pc \in (5 .. 7) \cup (14 .. 16) => dma.stage.LENGTH = Lengths[k]
      /\ pc = 7 => Loads(h, dma.stage.FLAGS)
      /\ pc = 16 => Sends(dma.stage.FLAGS)
      /\ \A x \in Harts : harts[x].packets \in Nat
      /\ pc \in 1 .. 20
  BY BridgeOwns DEF BridgeStaged
<1>3. /\ dma'.stage.RX_HANDLE = IF s.register = "RX_HANDLE" THEN s.value ELSE dma.stage.RX_HANDLE
      /\ dma'.stage.LENGTH = IF s.register = "LENGTH" THEN s.value ELSE dma.stage.LENGTH
      /\ dma'.stage.FLAGS = IF s.register = "FLAGS" THEN s.value ELSE dma.stage.FLAGS
      /\ {"RX_HANDLE", "LENGTH", "FLAGS"} \subseteq StageRegisters
      /\ "NONE" \notin StageRegisters /\ "COMMAND" \notin StageRegisters
  <2>1. StageRegisters = {"RX_HANDLE", "LENGTH", "SOURCE", "DESTINATION", "FLAGS"}
    BY DEF StageRegisters, NoCommand
  <2>2. QED
    BY <2>1, StagedHandle, StagedLength, StagedFlags DEF EngineTypes
<1>4. Orders(dma, in) => s.register = "COMMAND"
  BY DEF Orders
<1>5. ASSUME pc \notin Owned \/ s.register \notin StageRegisters \cup {"COMMAND"}, harts'[h] = harts[h]
      PROVE  Goal
  <2>1. CASE pc \notin Owned
    BY <1>2, <1>5, <2>1 DEF Owned
  <2>2. CASE s.register \notin StageRegisters \cup {"COMMAND"}
    <3>1. /\ dma'.armed <=> dma.armed
          /\ dma'.stage.RX_HANDLE = dma.stage.RX_HANDLE
          /\ dma'.stage.LENGTH = dma.stage.LENGTH
          /\ dma'.stage.FLAGS = dma.stage.FLAGS
      BY <1>3, <1>4, <2>2
    <3>2. QED
      BY <1>2, <1>5, <3>1
  <2>3. QED
    BY <1>5, <2>1, <2>2
<1>6. CASE \A x \in Harts : x \notin ev
  <2>1. s.register = "NONE" /\ harts'[h] = harts[h]
    BY <1>2, <1>6, BridgeActs
  <2>2. QED
    BY <1>3, <1>5, <2>1
<1>7. ASSUME NEW g \in Harts, g # h, g \in ev PROVE Goal
  <2>1. /\ harts'[h] = harts[h]
        /\ pc \in Owned => harts[g].pc \notin Owned
        /\ BridgeGoes(g, s, harts[g].pc, harts'[g].pc, harts[g].packets + 1)
    BY <1>2, <1>7, BridgeActs
  <2>2. s.register \in StageRegisters \cup {"COMMAND"} => harts[g].pc \in Owned
    BY <2>1 DEF BridgeGoes, Owned
  <2>3. QED
    BY <1>5, <2>1, <2>2
<1>8. CASE h \in ev
  <2>1. /\ BridgeGoes(h, s, pc, next, k)
        /\ harts'[h].packets = IF pc = 20 THEN harts[h].packets + 1 ELSE harts[h].packets
    BY <1>2, <1>8, BridgeActs
  <2>2. /\ s.register = "RX_HANDLE" <=> pc = 3
        /\ s.register = "RX_HANDLE" => s.value = Packet(k)
        /\ s.register = "LENGTH" <=> pc \in {4, 13}
        /\ s.register = "LENGTH" => s.value = Lengths[k]
        /\ s.register = "FLAGS" <=> pc \in {6, 15}
        /\ s.register = "FLAGS" => IF pc = 6 THEN Loads(h, s.value) ELSE Sends(s.value)
        /\ s.register = "COMMAND" <=> pc \in {7, 16}
        /\ \/ next = pc + 1 /\ pc < 20
           \/ pc \in {2, 12} /\ next = pc - 1
           \/ pc = 20 /\ next = 1
        /\ k \in Packets
    BY <2>1 DEF BridgeGoes
  <2> HIDE DEF s, next, pc
  <2>3. /\ harts'[h].packets \in Nat
        /\ next # 1 => l = k /\ pc # 20
    BY <1>2, <2>1, <2>2
  <2>4. CASE next \in {5, 6, 7, 15, 16}
    <3>a. pc = next - 1 /\ l = k /\ pc \in {4, 5, 6, 14, 15}
      <4>1. pc \in 1 .. 20
        BY <1>2
      <4>2. \/ next = pc + 1 /\ pc < 20
            \/ pc \in {2, 12} /\ next = pc - 1
            \/ pc = 20 /\ next = 1
        BY <2>2
      <4>3. pc = next - 1 /\ pc \in {4, 5, 6, 14, 15}
        BY ONLY <2>4, <4>1, <4>2
      <4>4. QED
        BY ONLY <2>3, <2>4, <4>3
    <3>1. pc = next - 1 /\ l = k /\ pc \in {4, 5, 6, 14, 15} /\ ~Orders(dma, in) /\ dma.armed
      <4>1. pc \notin {7, 16} /\ pc \in (4 .. 7) \cup (14 .. 16)
        BY <3>a
      <4>2. QED
        BY <1>2, <1>4, <2>2, <3>a, <4>1
    <3>2. dma'.armed
      BY <3>1
    <3>3. next \in 4 .. 7 => dma'.stage.RX_HANDLE = Packet(l)
      BY <1>2, <1>3, <2>2, <2>4, <3>1
    <3>4. dma'.stage.LENGTH = Lengths[l]
      <4>1. CASE pc = 4
        <5>1. s.register = "LENGTH" /\ s.value = Lengths[k]
          BY <2>2, <4>1
        <5>2. QED
          BY <1>3, <3>1, <5>1
      <4>2. CASE pc # 4
        <5>1. pc \in (5 .. 7) \cup (14 .. 16) /\ pc \notin {4, 13}
          BY <3>1, <4>2
        <5>2. QED
          BY <1>2, <1>3, <2>2, <3>1, <5>1
      <4>3. QED
        BY <4>1, <4>2
    <3>5. next = 7 => Loads(h, dma'.stage.FLAGS)
      BY <1>3, <2>2, <3>1
    <3>6. next = 16 => Sends(dma'.stage.FLAGS)
      BY <1>3, <2>2, <3>1
    <3>7. QED
      BY <2>2, <2>3, <3>1, <3>2, <3>3, <3>4, <3>5, <3>6
  <2>5. CASE next = 4
    <3>1. pc = 3 /\ l = k /\ s.register = "RX_HANDLE" /\ ~Orders(dma, in)
      BY <1>2, <1>4, <2>2, <2>3, <2>5
    <3>2. dma'.armed /\ dma'.stage.RX_HANDLE = Packet(l)
      BY <1>3, <2>2, <3>1 DEF s
    <3>3. QED
      BY <2>2, <2>3, <2>5, <3>1, <3>2
  <2>6. CASE next = 14
    <3>1. pc = 13 /\ l = k /\ s.register = "LENGTH" /\ ~Orders(dma, in)
      BY <1>2, <1>4, <2>2, <2>3, <2>6
    <3>2. dma'.armed /\ dma'.stage.LENGTH = Lengths[l]
      BY <1>3, <2>2, <3>1 DEF s
    <3>3. QED
      BY <2>2, <2>3, <2>6, <3>1, <3>2
  <2>7. CASE next \notin {4, 5, 6, 7, 14, 15, 16}
    <3>1. next \notin (4 .. 7) \cup (14 .. 16) /\ next # 7 /\ next # 16
          /\ next \notin 4 .. 7 /\ next \notin (5 .. 7) \cup (14 .. 16)
      BY <1>2, <2>2, <2>7
    <3>2. QED
      BY <2>2, <2>3, <3>1
  <2>8. QED
    BY <2>4, <2>5, <2>6, <2>7
<1>9. QED
  BY <1>6, <1>7, <1>8

(* A command that takes a packet of System. *)
IsSystem(c) == "SYSTEM_CPU" \in c.FLAGS

(* The commands of "bridge".  Those from Network are for whole packets;    *)
(* there is one from System at most, for the k-th packet, ordered by hart2 *)
(* and not retired as long as hart2 waits for it.                          *)
BridgeQueue(q, completed, pc, ticket, k) ==
  \A i \in 1 .. Len(q) :
    /\ IsNetwork(q[i]) => Sized(q[i]) /\ ~IsSystem(q[i])
    /\ IsSystem(q[i]) =>
         /\ q[i].LENGTH = Lengths[k] /\ pc \in 8 .. 10
         /\ IF pc = 8 THEN i = Len(q) ELSE completed + i = ticket

(* One of them is queued. *)
Pending(q) == \E i \in 1 .. Len(q) : IsSystem(q[i])

(* The packet System sends next while no command takes one. *)
NextOf(q, pc, k) == IF Pending(q) \/ pc <= 7 THEN k ELSE k + 1

(* The packet a command of "bridge" loads. *)
LoadOf(c, k) == IF IsNetwork(c) THEN c.RX_HANDLE ELSE Packet(k)

(* The command at work is at a line of its packet, and System at the next  *)
(* line it is to send.                                                     *)
LinesHold(state, active, moved, beat, host, next, k) ==
  LET p == LoadOf(active, k)
  IN  /\ state \in {"WAIT_INPUT"} \cup WriteStates =>
           (IsNetwork(active) \/ IsSystem(active)) /\ moved \in 0 .. p[2] - 1
      /\ state \in WriteStates => beat = LineBeat(p, moved)
      /\ state \in SendStates => ~IsSystem(active)
      /\ host = IF state = "WAIT_INPUT" /\ ~IsNetwork(active) THEN << k, moved >>
                ELSE IF state \in WriteStates /\ ~IsNetwork(active)
                THEN Advanced(<< k, moved >>, Lengths[k])
                ELSE << next, 0 >>

(* What is true of "bridge" at every edge: what its harts have staged, its *)
(* commands, and the line of the packet the engine is at.                  *)
BridgeHolds ==
  LET hart2 == harts["hart2"]
      k == hart2.packets + 1
      q == dma.commands
  IN  /\ \A h \in Harts : BridgeStaged(h)
      /\ dma.completed \in Nat /\ dma.issued = dma.completed + Len(q)
      /\ BridgeQueue(q, dma.completed, hart2.pc, hart2.ticket, k)
      /\ LinesHold(dma.state, dma.active, dma.moved, dma.beat, from_host,
                   NextOf(q, hart2.pc, k), k)

(* Every doorbell of "bridge" is taken; what it orders. *)
Ordered(ev) ==
  LET pc == harts["hart2"].pc
      c == dma.stage
  IN  /\ IsNetwork(c) => Sized(c) /\ ~IsSystem(c)
      /\ IF IsSystem(c)
         THEN "hart2" \in ev /\ pc = 7 /\ c.LENGTH = Lengths[harts["hart2"].packets + 1]
         ELSE IF "hart2" \in ev THEN pc = 16 ELSE pc \notin Owned

(* So it is. *)
LEMMA BridgeOrders ==
  ASSUME ClusterAssumption, HartsHold, EngineTypes, firmware = "bridge",
         \A x \in Harts : BridgeStaged(x),
         NEW ev \in SUBSET Events, Cardinality(HartEvent(ev)) <= 1, NEW in, ErrorsEdge(ev, in)
  PROVE  /\ in.store.register = "COMMAND" => Orders(dma, in) /\ Ordered(ev)
         /\ "hart2" \in ev => (in.store.register = "COMMAND" <=> harts["hart2"].pc \in {7, 16})
<1>1. /\ Harts = {"hart1", "hart2"} /\ \A x \in Harts : harts[x].packets \in Nat
      /\ Lengths \in Seq(Nat \ {0})
  BY DEF Program, Harts, BridgeStaged, ClusterAssumption, HartsHold, Lengths
<1>2. ASSUME NEW h \in Harts, h \in ev
      PROVE  /\ BridgeGoes(h, in.store, harts[h].pc, harts'[h].pc, harts[h].packets + 1)
             /\ \A g \in Harts : g # h =>
                  g \notin ev /\ (harts[g].pc \in Owned => harts[h].pc \notin Owned)
  BY <1>1, <1>2, BridgeActs
<1>3. ASSUME NEW h \in Harts, h \in ev
      PROVE  in.store.register = "COMMAND" <=> harts[h].pc \in {7, 16}
  BY <1>2, <1>3 DEF BridgeGoes
<1>4. ASSUME in.store.register = "COMMAND", NEW h \in Harts, h \in ev
      PROVE  Orders(dma, in) /\ Ordered(ev)
  <2> DEFINE k == harts[h].packets + 1
             pc == harts[h].pc
             c == dma.stage
  <2>1. /\ pc \in {7, 16} /\ k \in Packets
        /\ pc = 7 => Loads(h, c.FLAGS) /\ c.RX_HANDLE = Packet(k)
        /\ pc = 16 => Sends(c.FLAGS)
        /\ dma.armed /\ c.LENGTH = Lengths[k]
    <3>1. pc \in {7, 16} /\ pc # 1 /\ pc \in (4 .. 7) \cup (14 .. 16) /\ pc \in (5 .. 7) \cup (14 .. 16)
          /\ (pc = 7 => pc \in 4 .. 7)
      BY <1>3, <1>4
    <3>2. BridgeStaged(h)
      BY <1>4
    <3>3. QED
      BY <3>1, <3>2 DEF BridgeStaged
  <2>2. c.LENGTH \in Nat \ {0} /\ c.LENGTH = Packet(k)[2]
    <3>1. k \in 1 .. Len(Lengths) /\ Packet(k)[2] = Lengths[k]
      BY <2>1 DEF Packets, Packet
    <3>2. QED
      BY <1>1, <2>1, <3>1
  <2>3. FlagsAllowed(c.FLAGS)
    BY <2>1 DEF Loads, Sends
  <2>4. HasRoom(dma)
    BY <1>4 DEF ErrorsEdge, wready
  <2>5. Orders(dma, in)
    BY <1>4, <2>1, <2>2, <2>3, <2>4 DEF Orders
  <2>6. /\ pc = 7 => (IsNetwork(c) <=> h = "hart1") /\ (IsSystem(c) <=> h = "hart2")
        /\ pc = 16 => ~IsNetwork(c) /\ ~IsSystem(c)
    BY <2>1 DEF Loads, Sends, IsNetwork, IsSystem
  <2>7. IsNetwork(c) => Sized(c) /\ ~IsSystem(c)
    BY <2>1, <2>2, <2>6 DEF Sized, Whole
  <2>8. CASE h = "hart2"
    <3>1. IsSystem(c) <=> pc = 7
      BY <2>1, <2>6, <2>8
    <3>2. QED
      BY <1>4, <2>1, <2>5, <2>7, <2>8, <3>1 DEF Ordered
  <2>9. CASE h = "hart1"
    <3>1. "hart2" \notin ev /\ harts["hart2"].pc \notin Owned
      <4>1. pc \in Owned
        BY <2>1 DEF Owned
      <4>2. QED
        BY <1>1, <1>2, <1>4, <2>9, <4>1
    <3>2. ~IsSystem(c)
      BY <2>1, <2>6, <2>9
    <3>3. QED
      BY <2>5, <2>7, <3>1, <3>2 DEF Ordered
  <2>10. QED
    BY <1>1, <2>8, <2>9
<1>5. in.store.register = "COMMAND" => \E h \in Harts : h \in ev
  <2>1. (\A h \in Harts : h \notin ev) => in.store.register = "NONE"
    BY <1>1, BridgeActs
  <2>2. QED
    BY <2>1
<1>6. QED
  BY <1>1, <1>3, <1>4, <1>5

(* What the harts order enters the queue, and hart2 goes on with it. *)
LEMMA BridgePush ==
  ASSUME ClusterAssumption, HartsHold, EngineTypes, firmware = "bridge", BridgeHolds,
         NEW ev \in SUBSET Events, Cardinality(HartEvent(ev)) <= 1, NEW in, ErrorsEdge(ev, in),
         in.descriptor = << >>
  PROVE  LET q == Pushed(dma, in)
             old == harts["hart2"]
             new == harts'["hart2"]
         IN  /\ BridgeQueue(q, dma.completed, new.pc, new.ticket, new.packets + 1)
             /\ NextOf(q, new.pc, new.packets + 1) = NextOf(dma.commands, old.pc, old.packets + 1)
             /\ Pending(dma.commands) => new.packets = old.packets
             /\ Queue(q) /\ Len(q) = Len(dma.commands) + (IF Orders(dma, in) THEN 1 ELSE 0)
<1> DEFINE r == dma.commands
           c == dma.stage
           q == Pushed(dma, in)
           done == dma.completed
           pc == harts["hart2"].pc
           t == harts["hart2"].ticket
           k == harts["hart2"].packets + 1
           next == harts'["hart2"].pc
           u == harts'["hart2"].ticket
           l == harts'["hart2"].packets + 1
           order == in.store.register = "COMMAND"
<1>1. /\ Harts = {"hart1", "hart2"} /\ \A x \in Harts : BridgeStaged(x) /\ harts[x].packets \in Nat
      /\ done \in Nat /\ dma.issued = done + Len(r) /\ BridgeQueue(r, done, pc, t, k)
      /\ Queue(r) /\ Len(r) \in Nat
  <2>1. Harts = {"hart1", "hart2"}
    BY DEF Program, Harts
  <2>2. /\ \A x \in Harts : BridgeStaged(x)
        /\ done \in Nat /\ dma.issued = done + Len(r) /\ BridgeQueue(r, done, pc, t, k)
    BY DEF BridgeHolds
  <2>3. ASSUME NEW x \in Harts PROVE harts[x].packets \in Nat
    BY <2>2 DEF BridgeStaged
  <2>4. Queue(r)
    BY DEF EngineTypes
  <2>5. Len(r) \in Nat
    BY <2>4 DEF Queue
  <2>6. QED
    BY <2>1, <2>2, <2>3, <2>4, <2>5
<1>2. pc \in 1 .. 20
  BY <1>1, BridgeOwns
<1>3. /\ order => Orders(dma, in) /\ Ordered(ev)
      /\ "hart2" \in ev => (order <=> pc \in {7, 16})
  BY <1>1, BridgeOrders
<1>4. /\ Orders(dma, in) <=> order
      /\ q = IF order THEN Append(r, c) ELSE r
  BY <1>3 DEF Orders, Pushed
<1>5. /\ Queue(q) /\ Len(q) = Len(r) + (IF order THEN 1 ELSE 0)
      /\ \A i \in 1 .. Len(r) : i \in 1 .. Len(q) /\ q[i] = r[i]
      /\ \A i \in 1 .. Len(q) : (i \in 1 .. Len(r) /\ q[i] = r[i])
                                \/ (order /\ i = Len(q) /\ q[i] = c)
  <2>1. CASE order
    <3>1. /\ q = Append(r, c) /\ Len(q) = Len(r) + 1 /\ Queue(q)
          /\ \A i \in 1 .. Len(r) : q[i] = r[i]
          /\ q[Len(r) + 1] = c
      BY <1>1, <1>4, <2>1, AppendElements
    <3> HIDE DEF q, r, c, order
    <3>0. Len(r) \in Nat /\ Len(q) = Len(r) + 1
      BY <1>1, <3>1
    <3>2. \A i \in 1 .. Len(q) : i \in 1 .. Len(r) \/ i = Len(r) + 1
      BY <3>0
    <3>3. \A i \in 1 .. Len(r) : i \in 1 .. Len(q)
      BY <3>0
    <3>4. QED
      BY <2>1, <3>1, <3>2, <3>3
  <2>2. CASE ~order
    BY <1>1, <1>4, <2>2
  <2>3. QED
    BY <2>1, <2>2
<1>6. \A i \in 1 .. Len(r) :
        /\ IsNetwork(r[i]) => Sized(r[i]) /\ ~IsSystem(r[i])
        /\ IsSystem(r[i]) =>
             /\ r[i].LENGTH = Lengths[k] /\ pc \in 8 .. 10
             /\ IF pc = 8 THEN i = Len(r) ELSE done + i = t
  BY <1>1 DEF BridgeQueue
<1>7. IF "hart2" \in ev
      THEN /\ BridgeGoes("hart2", in.store, pc, next, k)
           /\ l = (IF pc = 20 THEN k + 1 ELSE k)
           /\ u = (IF pc \in {8, 17} THEN dma.issued ELSE t)
      ELSE next = pc /\ l = k /\ u = t
  <2>1. \A x \in Harts : harts[x].packets \in Nat
    BY <1>1
  <2>2. CASE "hart2" \in ev
    <3>1. /\ BridgeGoes("hart2", in.store, pc, next, k)
          /\ harts'["hart2"].packets = IF pc = 20 THEN harts["hart2"].packets + 1
                                       ELSE harts["hart2"].packets
          /\ u = IF pc \in {8, 17} THEN dma.issued ELSE t
      BY <1>1, <2>1, <2>2, BridgeActs
    <3>2. QED
      BY <2>2, <3>1
  <2>3. CASE "hart2" \notin ev
    <3>1. harts'["hart2"] = harts["hart2"]
      BY <1>1, <2>1, <2>3, BridgeActs
    <3>2. QED
      BY <2>3, <3>1
  <2>4. QED
    BY <2>2, <2>3
<1>8. "hart2" \in ev =>
        /\ \/ next = pc + 1 /\ pc < 20
           \/ pc \in {2, 12} /\ next = pc - 1
           \/ pc = 20 /\ next = 1
        /\ pc = 10 => done >= t
  BY <1>7 DEF BridgeGoes
<1>9. /\ order /\ IsSystem(c) => "hart2" \in ev /\ pc = 7 /\ c.LENGTH = Lengths[k]
      /\ order /\ ~IsSystem(c) => IF "hart2" \in ev THEN pc = 16 ELSE pc \notin Owned
      /\ order => (IsNetwork(c) => Sized(c) /\ ~IsSystem(c))
  BY <1>3 DEF Ordered
<1>10. Pending(q) <=> Pending(r) \/ (order /\ IsSystem(c))
  <2>1. order => q[Len(q)] = c /\ Len(q) \in 1 .. Len(q)
    <3>1. SUFFICES ASSUME order PROVE q[Len(q)] = c /\ Len(q) \in 1 .. Len(q)
      OBVIOUS
    <3> HIDE DEF q, r
    <3>2. Len(q) = Len(r) + 1 /\ Len(q) \in 1 .. Len(q) /\ Len(q) \notin 1 .. Len(r)
      BY <1>1, <1>5, <3>1
    <3>3. QED
      BY <1>5, <3>2
  <2> HIDE DEF q, r, c, order
  <2>2. QED
    BY <1>5, <2>1 DEF Pending
<1>11. Pending(r) => pc \in 8 .. 10
  BY <1>6 DEF Pending
<1> HIDE DEF q, r, c, order, pc, t, k, next, u, l, done
<1>12. BridgeQueue(q, done, next, u, l)
  <2>1. SUFFICES ASSUME NEW i \in 1 .. Len(q)
                 PROVE  /\ IsNetwork(q[i]) => Sized(q[i]) /\ ~IsSystem(q[i])
                        /\ IsSystem(q[i]) =>
                             /\ q[i].LENGTH = Lengths[l] /\ next \in 8 .. 10
                             /\ IF next = 8 THEN i = Len(q) ELSE done + i = u
    BY DEF BridgeQueue
  <2>2. CASE order /\ i = Len(q) /\ q[i] = c
    <3>1. IsNetwork(c) => Sized(c) /\ ~IsSystem(c)
      BY <1>9, <2>2
    <3>2. IsSystem(c) => c.LENGTH = Lengths[l] /\ next = 8
      BY <1>7, <1>8, <1>9, <2>2
    <3>3. QED
      BY <2>2, <3>1, <3>2
  <2>3. CASE i \in 1 .. Len(r) /\ q[i] = r[i]
    <3>1. IsNetwork(q[i]) => Sized(q[i]) /\ ~IsSystem(q[i])
      BY <1>6, <2>3
    <3>2. SUFFICES ASSUME IsSystem(r[i])
                   PROVE  /\ r[i].LENGTH = Lengths[l] /\ next \in 8 .. 10
                          /\ IF next = 8 THEN i = Len(q) ELSE done + i = u
      BY <2>3, <3>1
    <3>3. /\ r[i].LENGTH = Lengths[k] /\ pc \in 8 .. 10
          /\ IF pc = 8 THEN i = Len(r) ELSE done + i = t
      BY <1>6, <2>3, <3>2
    <3>4. CASE "hart2" \in ev
      <4>1. ~order /\ Len(q) = Len(r) /\ l = k
        BY <1>1, <1>3, <1>5, <1>7, <3>3, <3>4
      <4>2. pc # 10
        BY <1>1, <1>8, <2>3, <3>3, <3>4
      <4>3. next = pc + 1 /\ next \in {9, 10}
        BY <1>8, <3>3, <3>4, <4>2
      <4>4. done + i = u
        <5>1. CASE pc = 8
          BY <1>1, <1>7, <3>3, <3>4, <5>1
        <5>2. CASE pc = 9
          BY <1>7, <3>3, <3>4, <5>2
        <5>3. QED
          BY <3>3, <4>2, <5>1, <5>2
      <4>5. QED
        BY <3>3, <4>1, <4>3, <4>4
    <3>5. CASE "hart2" \notin ev
      <4>1. next = pc /\ l = k /\ u = t
        BY <1>7, <3>5
      <4>2. order => pc = 10
        BY <1>9, <3>3, <3>5 DEF Owned
      <4>3. ~order => Len(q) = Len(r)
        BY <1>1, <1>5
      <4>4. QED
        BY <3>3, <4>1, <4>2, <4>3
    <3>6. QED
      BY <3>4, <3>5
  <2>4. QED
    BY <1>5, <2>1, <2>2, <2>3
<1>13. NextOf(q, next, l) = NextOf(r, pc, k)
  <2>1. CASE order /\ IsSystem(c)
    <3>1. pc = 7 /\ l = k /\ Pending(q)
      BY <1>7, <1>9, <1>10, <2>1
    <3>2. QED
      BY <3>1 DEF NextOf
  <2>2. CASE ~(order /\ IsSystem(c))
    <3>1. Pending(q) <=> Pending(r)
      BY <1>10, <2>2
    <3>2. CASE "hart2" \notin ev
      BY <1>7, <3>1, <3>2 DEF NextOf
    <3>3. CASE "hart2" \in ev /\ pc = 20
      <4>1. ~Pending(r) /\ next = 1 /\ l = k + 1
        BY <1>7, <1>8, <1>11, <3>3
      <4>2. QED
        BY <3>1, <3>3, <4>1 DEF NextOf
    <3>4. CASE "hart2" \in ev /\ pc # 20
      <4>1. l = k /\ pc # 7
        BY <1>3, <1>7, <1>9, <2>2, <3>4
      <4>2. next <= 7 <=> pc <= 7
        BY <1>2, <1>8, <3>4, <4>1
      <4>3. QED
        BY <3>1, <4>1, <4>2 DEF NextOf
    <3>5. QED
      BY <3>2, <3>3, <3>4
  <2>3. QED
    BY <2>1, <2>2
<1>14. Pending(r) => l = k
  BY <1>7, <1>11
<1>15. Pending(r) => harts'["hart2"].packets = harts["hart2"].packets
  <2>1. SUFFICES ASSUME Pending(r) PROVE harts'["hart2"].packets = harts["hart2"].packets
    OBVIOUS
  <2>2. IF "hart2" \in ev
        THEN harts'["hart2"].packets = IF pc = 20 THEN harts["hart2"].packets + 1
                                       ELSE harts["hart2"].packets
        ELSE harts'["hart2"] = harts["hart2"]
    BY <1>1, BridgeActs DEF pc
  <2>3. pc # 20
    BY <1>11, <2>1
  <2>4. QED
    BY <2>2, <2>3
<1>16. QED
  BY <1>4, <1>5, <1>12, <1>13, <1>15 DEF q, r, order, pc, k, next, u, l, done

(* The engine stays at its command. *)
Same(p, e) == e.active = p.active /\ e.commands = p.commands /\ e.completed = p.completed

(* It retires it. *)
Done(p, e) ==
  /\ e.state = "IDLE" /\ e.active = p.active
  /\ e.commands = Tail(p.commands) /\ e.completed = p.completed + 1

(* What an engine leaves that is at a line of a packet of n lines. *)
LineGoes(d, p, e, in, n) ==
  LET input == EngineInput(d, in)
      next == Same(p, e) /\ e.state = "WAIT_INPUT" /\ e.moved = d.moved + 1
              /\ d.moved + 1 \in 0 .. n - 1
  IN  /\ e.protocol_error <=> p.protocol_error
      /\ d.state = "IDLE" =>
           IF p.commands # << >> THEN Started(d, p, e) ELSE Same(p, e) /\ e.state = "IDLE"
      /\ d.state = "ISSUE_NETWORK_READ" =>
           Same(p, e) /\ e.moved = d.moved /\ e.state \in {"ISSUE_NETWORK_READ", "WAIT_INPUT"}
      /\ d.state = "WAIT_INPUT" /\ ~PassesOn(d) =>
           /\ Same(p, e) /\ e.moved = d.moved
           /\ IF input = NoBeat THEN e.state = "WAIT_INPUT"
              ELSE e.state = "WRITE_ADDRESS" /\ e.beat = input
      /\ d.state = "WAIT_INPUT" /\ PassesOn(d) =>
           Done(p, e) \/ next \/ (Same(p, e) /\ e.moved = d.moved /\ e.state = "WAIT_INPUT")
      /\ d.state \in WriteStates =>
           \/ Same(p, e) /\ e.moved = d.moved /\ e.beat = d.beat /\ e.state \in WriteStates
           \/ next
           \/ Done(p, e) /\ d.moved + 1 = n
      /\ d.state \in SendStates => Done(p, e) \/ (Same(p, e) /\ e.state \in SendStates)

(* So it does when the lines come in their order. *)
LEMMA LoadingEngine ==
  ASSUME NEW d, NEW p, NEW in, NEW k, Prepared(d, p, in),
         d.state \in {"WAIT_INPUT"} \cup WriteStates =>
           Whole(k) /\ d.active.LENGTH = k[2] /\ d.moved \in 0 .. k[2] - 1,
         d.state \in WriteStates => d.beat = LineBeat(k, d.moved),
         d.state = "WAIT_INPUT" /\ EngineInput(d, in) # NoBeat =>
           EngineInput(d, in) = LineBeat(k, d.moved)
  PROVE  LineGoes(d, p, Engine(d, p, in), in, k[2])
<1> DEFINE e == Engine(d, p, in)
           n == k[2]
           input == EngineInput(d, in)
           error == BeatError(d.moved, d.active.LENGTH, input)
           stored == BeatError(d.moved, d.active.LENGTH, d.beat)
           next == Same(p, e) /\ e.state = "WAIT_INPUT" /\ e.moved = d.moved + 1
                   /\ d.moved + 1 \in 0 .. n - 1
<1>1. EngineResult(d, p, e, in)
  BY EngineGoes
<1>2. d.state = "WAIT_INPUT" /\ input # NoBeat =>
        /\ ~error /\ input.sop = (d.moved = 0)
        /\ ~input.eop => d.moved + 1 \in 0 .. n - 1
  BY NextLine
<1>3. d.state \in WriteStates =>
        /\ ~stored /\ d.beat.eop = (d.moved + 1 = n)
        /\ ~d.beat.eop => d.moved + 1 \in 0 .. n - 1
  BY NextLine
<1> SUFFICES LineGoes(d, p, e, in, n)
  OBVIOUS
<1> HIDE DEF e, n, error, stored
<1>a. /\ ~error /\ Ended(p, e, error) => Ended(p, e, FALSE)
      /\ ~stored /\ Ended(p, e, stored) => Ended(p, e, FALSE)
  BY DEF Ended
<1>b. /\ ~error /\ Working(p, e, "WAIT_INPUT", d.moved + 1, d.beat, error) =>
           Working(p, e, "WAIT_INPUT", d.moved + 1, d.beat, FALSE)
      /\ ~stored /\ Working(p, e, "WAIT_INPUT", d.moved + 1, d.beat, stored) =>
           Working(p, e, "WAIT_INPUT", d.moved + 1, d.beat, FALSE)
  BY DEF Working
<1>4. CASE d.state = "IDLE"
  BY <1>1, <1>4 DEF EngineResult, Working, Started, LineGoes, Same, WriteStates, SendStates
<1>5. CASE d.state = "ISSUE_NETWORK_READ"
  BY <1>1, <1>5 DEF EngineResult, Working, LineGoes, Same, WriteStates, SendStates
<1>6. CASE d.state = "WAIT_INPUT"
  <2>1. IF input = NoBeat \/ (PassesOn(d) /\ ~TakesInput(d, in))
        THEN Working(p, e, d.state, d.moved, d.beat, FALSE)
        ELSE IF ~PassesOn(d)
        THEN Working(p, e, "WRITE_ADDRESS", d.moved, input, input.sop # (d.moved = 0))
        ELSE IF input.eop THEN Ended(p, e, error)
        ELSE Working(p, e, "WAIT_INPUT", d.moved + 1, d.beat, error)
    BY <1>1, <1>6 DEF EngineResult, error
  <2> HIDE DEF input
  <2>2. CASE input = NoBeat \/ (PassesOn(d) /\ ~TakesInput(d, in))
    BY <1>6, <2>1, <2>2 DEF Working, LineGoes, Same, WriteStates, SendStates, input
  <2>3. CASE input # NoBeat /\ ~PassesOn(d)
    <3>1. Working(p, e, "WRITE_ADDRESS", d.moved, input, FALSE)
      BY <1>2, <1>6, <2>1, <2>3
    <3>2. QED
      BY <1>6, <2>3, <3>1 DEF Working, LineGoes, Same, WriteStates, SendStates, input
  <2>4. CASE input # NoBeat /\ PassesOn(d) /\ TakesInput(d, in)
    <3>1. IF input.eop THEN Ended(p, e, FALSE)
          ELSE Working(p, e, "WAIT_INPUT", d.moved + 1, d.beat, FALSE)
               /\ d.moved + 1 \in 0 .. n - 1
      BY <1>2, <1>a, <1>b, <1>6, <2>1, <2>4
    <3>2. QED
      BY <1>6, <2>4, <3>1 DEF Working, Ended, LineGoes, Same, Done, WriteStates, SendStates
  <2>5. QED
    BY <2>2, <2>3, <2>4
<1>7. CASE d.state \in {"WRITE_ADDRESS", "WRITE_DATA"}
  <2>1. \E state \in WriteStates : Working(p, e, state, d.moved, d.beat, FALSE)
    BY <1>1, <1>7 DEF EngineResult, WriteStates
  <2>2. QED
    BY <1>7, <2>1 DEF Working, LineGoes, Same, WriteStates, SendStates
<1>8. CASE d.state = "WRITE_RESPONSE"
  <2>1. \/ Working(p, e, "WRITE_RESPONSE", d.moved, d.beat, FALSE)
        \/ IF d.beat.eop THEN Ended(p, e, stored)
           ELSE Working(p, e, "WAIT_INPUT", d.moved + 1, d.beat, stored)
    BY <1>1, <1>8 DEF EngineResult, stored
  <2>2. \/ Working(p, e, "WRITE_RESPONSE", d.moved, d.beat, FALSE)
        \/ d.moved + 1 = n /\ Ended(p, e, FALSE)
        \/ Working(p, e, "WAIT_INPUT", d.moved + 1, d.beat, FALSE) /\ d.moved + 1 \in 0 .. n - 1
    BY <1>3, <1>a, <1>b, <1>8, <2>1 DEF WriteStates
  <2>3. QED
    BY <1>8, <2>2 DEF Working, Ended, LineGoes, Same, Done, WriteStates, SendStates
<1>9. CASE d.state \in {"READ_ADDRESS", "READ_DATA"}
  BY <1>1, <1>9 DEF EngineResult, Working, LineGoes, Same, WriteStates, SendStates
<1>10. CASE d.state \in {"SEND_OUTPUT", "POST_TX_CLEAR"}
  BY <1>1, <1>10 DEF EngineResult, Working, Ended, LineGoes, Same, Done, WriteStates, SendStates
<1>11. CASE d.state \notin EngineStates
  <2>1. e = p /\ p.state = d.state
    BY <1>11 DEF e, Engine, Prepared, EngineStates
  <2>2. QED
    BY <1>11, <2>1 DEF LineGoes, EngineStates, WriteStates, SendStates
<1>12. QED
  BY <1>4, <1>5, <1>6, <1>7, <1>8, <1>9, <1>10, <1>11 DEF EngineStates

(* What a retired command leaves of the queue. *)
LEMMA BridgePop ==
  ASSUME NEW q, Queue(q), q # << >>, NEW done \in Nat, NEW pc, NEW t, NEW k,
         BridgeQueue(q, done, pc, t, k)
  PROVE  /\ BridgeQueue(Tail(q), done + 1, pc, t, k)
         /\ IsSystem(Head(q)) => ~Pending(Tail(q))
         /\ ~IsSystem(Head(q)) => (Pending(Tail(q)) <=> Pending(q))
         /\ Pending(q) => pc \in 8 .. 10
<1> DEFINE r == Tail(q)
<1>1. /\ Len(r) = Len(q) - 1 /\ Len(q) \in Nat \ {0}
      /\ \A i \in 1 .. Len(r) : i + 1 \in 1 .. Len(q) /\ r[i] = q[i + 1]
      /\ 1 \in 1 .. Len(q) /\ Head(q) = q[1]
  BY TailElements
<1>2. \A i \in 1 .. Len(q) :
        /\ IsNetwork(q[i]) => Sized(q[i]) /\ ~IsSystem(q[i])
        /\ IsSystem(q[i]) =>
             /\ q[i].LENGTH = Lengths[k] /\ pc \in 8 .. 10
             /\ IF pc = 8 THEN i = Len(q) ELSE done + i = t
  BY DEF BridgeQueue
<1> SUFFICES /\ BridgeQueue(r, done + 1, pc, t, k)
             /\ IsSystem(Head(q)) => ~Pending(r)
             /\ ~IsSystem(Head(q)) => (Pending(r) <=> Pending(q))
             /\ Pending(q) => pc \in 8 .. 10
  OBVIOUS
<1> HIDE DEF r
<1>3. BridgeQueue(r, done + 1, pc, t, k)
  <2>1. SUFFICES ASSUME NEW i \in 1 .. Len(r)
                 PROVE  /\ IsNetwork(r[i]) => Sized(r[i]) /\ ~IsSystem(r[i])
                        /\ IsSystem(r[i]) =>
                             /\ r[i].LENGTH = Lengths[k] /\ pc \in 8 .. 10
                             /\ IF pc = 8 THEN i = Len(r) ELSE (done + 1) + i = t
    BY DEF BridgeQueue
  <2>2. i + 1 \in 1 .. Len(q) /\ r[i] = q[i + 1]
    BY <1>1
  <2>3. /\ IsNetwork(r[i]) => Sized(r[i]) /\ ~IsSystem(r[i])
        /\ IsSystem(r[i]) =>
             /\ r[i].LENGTH = Lengths[k] /\ pc \in 8 .. 10
             /\ IF pc = 8 THEN i + 1 = Len(q) ELSE done + (i + 1) = t
    BY <1>2, <2>2
  <2>4. /\ i + 1 = Len(q) => i = Len(r)
        /\ (done + 1) + i = done + (i + 1)
    BY <1>1
  <2>5. QED
    BY <2>3, <2>4
<1>4. \A i, j \in 1 .. Len(q) : IsSystem(q[i]) /\ IsSystem(q[j]) => i = j
  <2>1. SUFFICES ASSUME NEW i \in 1 .. Len(q), NEW j \in 1 .. Len(q),
                        IsSystem(q[i]), IsSystem(q[j])
                 PROVE  i = j
    OBVIOUS
  <2>2. /\ IF pc = 8 THEN i = Len(q) ELSE done + i = t
        /\ IF pc = 8 THEN j = Len(q) ELSE done + j = t
    BY <1>2, <2>1
  <2>3. done + i = done + j => i = j
    BY <1>1
  <2>4. QED
    BY <2>2, <2>3
<1>5. IsSystem(Head(q)) => ~Pending(r)
  <2>1. SUFFICES ASSUME IsSystem(q[1]), NEW i \in 1 .. Len(r), IsSystem(r[i]) PROVE FALSE
    BY <1>1 DEF Pending
  <2>2. i + 1 \in 1 .. Len(q) /\ IsSystem(q[i + 1]) /\ i + 1 # 1
    BY <1>1, <2>1
  <2>3. QED
    BY <1>1, <1>4, <2>1, <2>2
<1>6. Pending(r) => Pending(q)
  BY <1>1 DEF Pending
<1>7. ~IsSystem(Head(q)) /\ Pending(q) => Pending(r)
  <2>1. SUFFICES ASSUME ~IsSystem(q[1]), NEW i \in 1 .. Len(q), IsSystem(q[i]) PROVE Pending(r)
    BY <1>1 DEF Pending
  <2>2. i # 1 /\ i - 1 \in 1 .. Len(r) /\ (i - 1) + 1 = i
    BY <1>1, <2>1
  <2>3. r[i - 1] = q[i]
    BY <1>1, <2>2
  <2>4. QED
    BY <2>1, <2>2, <2>3 DEF Pending
<1>8. Pending(q) => pc \in 8 .. 10
  BY <1>2 DEF Pending
<1>9. QED
  BY <1>3, <1>5, <1>6, <1>7, <1>8

(* The line that comes to an engine of "bridge" is the next one of the     *)
(* packet that its command loads.                                          *)
LEMMA BridgeInput ==
  ASSUME ClusterAssumption, HartsHold, EngineTypes, CommandReads, BridgeHolds, firmware = "bridge",
         NEW ev \in SUBSET Events, NEW in, ErrorsEdge(ev, in)
  PROVE  LET k == harts["hart2"].packets + 1
             a == dma.active
             p == LoadOf(a, k)
             input == EngineInput(dma, in)
         IN  /\ dma.state # "IDLE" =>
                  /\ IsNetwork(a) => Sized(a) /\ ~IsSystem(a)
                  /\ IsSystem(a) => k \in Packets /\ Pending(dma.commands)
             /\ dma.state \in {"WAIT_INPUT"} \cup WriteStates =>
                  Whole(p) /\ a.LENGTH = p[2] /\ dma.moved \in 0 .. p[2] - 1
             /\ dma.state \in WriteStates => dma.beat = LineBeat(p, dma.moved)
             /\ dma.state = "WAIT_INPUT" /\ input # NoBeat => input = LineBeat(p, dma.moved)
             /\ IF "host" \in ev
                THEN /\ dma.state = "WAIT_INPUT" /\ ~IsNetwork(a) /\ input # NoBeat
                     /\ from_host' = Advanced(<< k, dma.moved >>, Lengths[k])
                ELSE /\ from_host' = from_host
                     /\ dma.state = "WAIT_INPUT" /\ ~IsNetwork(a) => input = NoBeat
<1> DEFINE k == harts["hart2"].packets + 1
           pc == harts["hart2"].pc
           a == dma.active
           p == LoadOf(a, k)
           input == EngineInput(dma, in)
           next == NextOf(dma.commands, pc, k)
<1>1. /\ "hart2" \in Harts /\ BridgeStaged("hart2")
      /\ BridgeQueue(dma.commands, dma.completed, pc, harts["hart2"].ticket, k)
      /\ LinesHold(dma.state, a, dma.moved, dma.beat, from_host, next, k)
      /\ Lengths \in Seq(Nat \ {0})
  <2>1. "hart2" \in Harts
    BY DEF Program, Harts
  <2>2. QED
    BY <2>1 DEF BridgeHolds, ClusterAssumption, HartsHold, Lengths
<1>2. dma.state # "IDLE" =>
        /\ IsNetwork(a) => Sized(a) /\ ~IsSystem(a)
        /\ IsSystem(a) => a.LENGTH = Lengths[k] /\ k \in Packets /\ Pending(dma.commands)
  <2>1. SUFFICES ASSUME dma.state # "IDLE"
                 PROVE  /\ IsNetwork(a) => Sized(a) /\ ~IsSystem(a)
                        /\ IsSystem(a) => /\ a.LENGTH = Lengths[k] /\ k \in Packets
                                          /\ Pending(dma.commands)
    OBVIOUS
  <2>2. 1 \in 1 .. Len(dma.commands) /\ a = dma.commands[1]
    BY <2>1, TailElements DEF EngineTypes
  <2>3. /\ IsNetwork(a) => Sized(a) /\ ~IsSystem(a)
        /\ IsSystem(a) => a.LENGTH = Lengths[k] /\ pc \in 8 .. 10
    BY <1>1, <2>2 DEF BridgeQueue
  <2>4. pc \in 8 .. 10 => k \in Packets
    <3>1. BridgeStaged("hart2")
      BY <1>1
    <3>2. pc # 1 => k \in Packets
      BY ONLY <3>1 DEF BridgeStaged
    <3>3. QED
      BY ONLY <3>2
  <2>5. QED
    BY <2>2, <2>3, <2>4 DEF Pending
<1>3. k \in Packets => Packet(k) = << k, Lengths[k] >> /\ Lengths[k] \in Nat \ {0} /\ k \in Nat
  <2>1. SUFFICES ASSUME k \in 1 .. Len(Lengths)
                 PROVE  Packet(k) = << k, Lengths[k] >> /\ Lengths[k] \in Nat \ {0} /\ k \in Nat
    BY DEF Packets
  <2>2. QED
    BY <1>1, <2>1 DEF Packet
<1>4. dma.state \in {"WAIT_INPUT"} \cup WriteStates =>
        /\ (IsNetwork(a) \/ IsSystem(a)) /\ dma.moved \in 0 .. p[2] - 1
        /\ p = IF IsNetwork(a) THEN a.RX_HANDLE ELSE Packet(k)
  BY <1>1 DEF LinesHold, LoadOf
<1>5. dma.state \in WriteStates => dma.beat = LineBeat(p, dma.moved)
  BY <1>1 DEF LinesHold
<1>6. dma.state \in {"WAIT_INPUT"} \cup WriteStates =>
        Whole(p) /\ a.LENGTH = p[2] /\ dma.moved \in 0 .. p[2] - 1
  <2>1. SUFFICES ASSUME dma.state \in {"WAIT_INPUT"} \cup WriteStates
                 PROVE  Whole(p) /\ a.LENGTH = p[2]
    BY <1>4
  <2>2. dma.state # "IDLE"
    BY <2>1 DEF WriteStates
  <2> HIDE DEF p, k
  <2>3. CASE IsNetwork(a)
    BY <1>2, <1>4, <2>1, <2>2, <2>3 DEF Sized
  <2>4. CASE ~IsNetwork(a)
    <3>1. p = << k, Lengths[k] >> /\ a.LENGTH = Lengths[k] /\ Lengths[k] \in Nat \ {0}
      BY <1>2, <1>3, <1>4, <2>1, <2>2, <2>4
    <3>2. QED
      BY <3>1 DEF Whole
  <2>5. QED
    BY <2>3, <2>4
<1>7. in.system_rx = HostBeat(ev)
      /\ from_host' = IF "host" \in ev THEN Advanced(from_host, Packet(from_host[1])[2])
                      ELSE from_host
  BY DEF ErrorsEdge
<1>8. "host" \in ev => dma.state = "WAIT_INPUT" /\ IsSystem(a)
  <2>1. SUFFICES ASSUME "host" \in ev PROVE dma.state = "WAIT_INPUT" /\ IsSystem(a)
    OBVIOUS
  <2>2. "host" \in Events
    BY <2>1
  <2>3. system_rx_ready(dma)
    <3>1. Harts = {"hart1", "hart2"}
      BY DEF Program, Harts
    <3>2. QED
      BY <2>2, <3>1 DEF Events
  <2>4. QED
    BY <2>3 DEF system_rx_ready, Is, IsSystem
<1>9. dma.state = "WAIT_INPUT" /\ IsNetwork(a) /\ input # NoBeat => input = LineBeat(p, dma.moved)
  <2>1. SUFFICES ASSUME dma.state = "WAIT_INPUT", IsNetwork(a), in.rx # NoBeat
                 PROVE  in.rx = LineBeat(p, dma.moved)
    BY DEF EngineInput, Is, IsNetwork
  <2>2. reads = << a.RX_HANDLE >> /\ read_line = dma.moved
    BY <2>1 DEF CommandReads, ComesWith
  <2>3. in.rx = LineBeat(Head(reads), read_line)
    BY <2>1 DEF ErrorsEdge, ReadsEdge
  <2>4. p = a.RX_HANDLE
    BY <2>1 DEF LoadOf
  <2>5. QED
    BY <2>2, <2>3, <2>4, OneElement
<1>10. dma.state = "WAIT_INPUT" /\ ~IsNetwork(a) =>
         /\ from_host = << k, dma.moved >> /\ p = Packet(k) /\ k \in Packets
         /\ input = IF "host" \in ev THEN LineBeat(p, dma.moved) ELSE NoBeat
  <2>1. SUFFICES ASSUME dma.state = "WAIT_INPUT", ~IsNetwork(a)
                 PROVE  /\ from_host = << k, dma.moved >> /\ p = Packet(k) /\ k \in Packets
                        /\ input = IF "host" \in ev THEN LineBeat(p, dma.moved) ELSE NoBeat
    OBVIOUS
  <2>2. from_host = << k, dma.moved >> /\ p = Packet(k) /\ k \in Packets
    BY <1>1, <1>2, <1>4, <2>1 DEF LinesHold
  <2>3. input = HostBeat(ev)
    BY <1>7, <2>1 DEF EngineInput, Is, IsNetwork
  <2>4. from_host[1] = k /\ from_host[2] = dma.moved
    BY <2>2
  <2> HIDE DEF input, p, k
  <2>5. QED
    BY <2>2, <2>3, <2>4 DEF HostBeat
<1>11. IF "host" \in ev
       THEN /\ dma.state = "WAIT_INPUT" /\ ~IsNetwork(a) /\ input # NoBeat
            /\ from_host' = Advanced(<< k, dma.moved >>, Lengths[k])
       ELSE /\ from_host' = from_host
            /\ dma.state = "WAIT_INPUT" /\ ~IsNetwork(a) => input = NoBeat
  <2>1. CASE "host" \in ev
    <3>1. dma.state = "WAIT_INPUT" /\ ~IsNetwork(a)
      BY <1>2, <1>8, <2>1
    <3>2. input # NoBeat
      BY <1>10, <2>1, <3>1, LineIsBeat
    <3>3. Packet(from_host[1])[2] = Lengths[k]
      <4>1. from_host[1] = k
        BY <1>10, <3>1
      <4>2. QED
        BY <4>1 DEF Packet
    <3>4. QED
      BY <1>7, <1>10, <2>1, <3>1, <3>2, <3>3
  <2>2. CASE "host" \notin ev
    BY <1>7, <1>10, <2>2
  <2>3. QED
    BY <2>1, <2>2
<1>12. dma.state = "WAIT_INPUT" /\ input # NoBeat => input = LineBeat(p, dma.moved)
  BY <1>9, <1>10
<1>13. QED
  BY <1>2, <1>5, <1>6, <1>11, <1>12

(* The engine of "bridge" goes on with the lines of its packet, and the    *)
(* queue and System with it; none of the lines is out of its place.        *)
BridgeAfter(e, ev, p) ==
  LET new == harts'["hart2"]
      l == new.packets + 1
  IN  /\ e.protocol_error <=> p.protocol_error
      /\ e.completed \in Nat /\ Queue(p.commands)
      /\ e.completed + Len(e.commands) = dma.completed + Len(p.commands)
      /\ BridgeQueue(e.commands, e.completed, new.pc, new.ticket, l)
      /\ LinesHold(e.state, e.active, e.moved, e.beat, from_host', NextOf(e.commands, new.pc, l), l)

(* The engine of "bridge" goes from line to line and from one command to   *)
(* the next, and System is always at the line the engine waits for.        *)
LEMMA BridgeLines ==
  ASSUME ClusterAssumption, DmaAssumption, HartsHold, EngineTypes, CommandReads, BridgeHolds,
         firmware = "bridge",
         NEW ev \in SUBSET Events, Cardinality(HartEvent(ev)) <= 1, NEW in, ErrorsEdge(ev, in),
         in.descriptor = << >>, NEW p, Prepared(dma, p, in),
         p.commands # << >> => Plain(Head(p.commands)),
         harts'["hart2"].pc # 1 => harts'["hart2"].packets + 1 \in Packets
  PROVE  BridgeAfter(Engine(dma, p, in), ev, p)
<1> DEFINE e == Engine(dma, p, in)
           q == p.commands
           r == dma.commands
           a == dma.active
           done == dma.completed
           state == dma.state
           moved == dma.moved
           host == from_host
           k == harts["hart2"].packets + 1
           pc == harts["hart2"].pc
           next == harts'["hart2"].pc
           u == harts'["hart2"].ticket
           l == harts'["hart2"].packets + 1
           load == LoadOf(a, k)
           input == EngineInput(dma, in)
<1>1. /\ BridgeQueue(q, done, next, u, l)
      /\ NextOf(q, next, l) = NextOf(r, pc, k)
      /\ Pending(r) => l = k
      /\ Queue(q)
      /\ p.completed = done /\ p.active = a /\ p.commands = Pushed(dma, in)
  <2>1. p.completed = done /\ p.active = a /\ q = Pushed(dma, in)
    BY DEF Prepared
  <2>2. LET z == Pushed(dma, in)
        IN  /\ BridgeQueue(z, done, next, u, l)
            /\ NextOf(z, next, l) = NextOf(r, pc, k)
            /\ Pending(r) => harts'["hart2"].packets = harts["hart2"].packets
            /\ Queue(z)
    BY BridgePush
  <2>3. QED
    BY <2>1, <2>2
<1>2. /\ state # "IDLE" =>
           /\ IsNetwork(a) => Sized(a) /\ ~IsSystem(a)
           /\ IsSystem(a) => k \in Packets /\ Pending(r)
      /\ state \in {"WAIT_INPUT"} \cup WriteStates =>
           Whole(load) /\ a.LENGTH = load[2] /\ moved \in 0 .. load[2] - 1
      /\ state \in WriteStates => dma.beat = LineBeat(load, moved)
      /\ state = "WAIT_INPUT" /\ input # NoBeat => input = LineBeat(load, moved)
      /\ IF "host" \in ev
         THEN /\ state = "WAIT_INPUT" /\ ~IsNetwork(a) /\ input # NoBeat
              /\ host' = Advanced(<< k, moved >>, Lengths[k])
         ELSE /\ host' = host
              /\ state = "WAIT_INPUT" /\ ~IsNetwork(a) => input = NoBeat
  BY BridgeInput
<1>3. LineGoes(dma, p, e, in, load[2])
  <2> HIDE DEF load
  <2>1. QED
    BY <1>2, LoadingEngine
<1>4. /\ state # "IDLE" => q # << >> /\ Head(q) = a
      /\ dma.prefetch.state = "IDLE" /\ state \in EngineStates
      /\ state = "ISSUE_NETWORK_READ" => IsNetwork(a) /\ moved = 0
      /\ state \in SendStates => ~IsNetwork(a)
  BY <1>1, PushedQueue DEF EngineTypes, CommandReads, ComesWith
<1>5. LinesHold(state, a, moved, dma.beat, host, NextOf(r, pc, k), k) /\ done \in Nat
  BY DEF BridgeHolds
<1>6. /\ state \in {"WAIT_INPUT"} \cup WriteStates => IsNetwork(a) \/ IsSystem(a)
      /\ state \in SendStates => ~IsSystem(a)
      /\ host = IF state = "WAIT_INPUT" /\ ~IsNetwork(a) THEN << k, moved >>
                ELSE IF state \in WriteStates /\ ~IsNetwork(a)
                THEN Advanced(<< k, moved >>, Lengths[k])
                ELSE << NextOf(r, pc, k), 0 >>
  BY <1>5 DEF LinesHold
<1>7. q # << >> =>
        /\ BridgeQueue(Tail(q), done + 1, next, u, l)
        /\ IsSystem(Head(q)) => ~Pending(Tail(q)) /\ next \in 8 .. 10
        /\ ~IsSystem(Head(q)) => (Pending(Tail(q)) <=> Pending(q))
        /\ Len(Tail(q)) = Len(q) - 1 /\ Len(q) \in Nat
        /\ IsNetwork(Head(q)) => Sized(Head(q)) /\ ~IsSystem(Head(q))
        /\ IsSystem(Head(q)) => Pending(q)
  <2>1. SUFFICES ASSUME q # << >>
                 PROVE  /\ BridgeQueue(Tail(q), done + 1, next, u, l)
                        /\ IsSystem(Head(q)) => ~Pending(Tail(q)) /\ next \in 8 .. 10
                        /\ ~IsSystem(Head(q)) => (Pending(Tail(q)) <=> Pending(q))
                        /\ Len(Tail(q)) = Len(q) - 1 /\ Len(q) \in Nat
                        /\ IsNetwork(Head(q)) => Sized(Head(q)) /\ ~IsSystem(Head(q))
                        /\ IsSystem(Head(q)) => Pending(q)
    OBVIOUS
  <2> HIDE DEF q, next, u, l, done
  <2>2. /\ BridgeQueue(Tail(q), done + 1, next, u, l)
        /\ IsSystem(Head(q)) => ~Pending(Tail(q))
        /\ ~IsSystem(Head(q)) => (Pending(Tail(q)) <=> Pending(q))
        /\ Pending(q) => next \in 8 .. 10
    BY <1>1, <1>5, <2>1, BridgePop
  <2>3. Len(Tail(q)) = Len(q) - 1 /\ Len(q) \in Nat /\ 1 \in 1 .. Len(q) /\ Head(q) = q[1]
    BY <1>1, <2>1, TailElements
  <2>4. IsNetwork(Head(q)) => Sized(Head(q)) /\ ~IsSystem(Head(q))
    BY <1>1, <2>3 DEF BridgeQueue
  <2>5. IsSystem(Head(q)) => Pending(q)
    BY <2>3 DEF Pending
  <2>6. QED
    BY <2>2, <2>3, <2>4, <2>5
<1>8. Pending(q) => NextOf(q, next, l) = l
  BY DEF NextOf
<1>9. /\ e.protocol_error <=> p.protocol_error
      /\ state = "IDLE" =>
           IF q # << >> THEN Started(dma, p, e) ELSE Same(p, e) /\ e.state = "IDLE"
      /\ state # "IDLE" => Same(p, e) \/ Done(p, e)
  <2> SUFFICES /\ e.protocol_error <=> p.protocol_error
               /\ state = "IDLE" =>
                    IF q # << >> THEN Started(dma, p, e) ELSE Same(p, e) /\ e.state = "IDLE"
               /\ state # "IDLE" => Same(p, e) \/ Done(p, e)
    OBVIOUS
  <2> HIDE DEF e, load
  <2>1. CASE state = "IDLE"
    BY <1>3, <2>1 DEF LineGoes
  <2>2. CASE state = "ISSUE_NETWORK_READ"
    BY <1>3, <2>2 DEF LineGoes
  <2>3. CASE state = "WAIT_INPUT"
    BY <1>3, <2>3 DEF LineGoes
  <2>4. CASE state \in WriteStates
    BY <1>3, <2>4 DEF LineGoes, WriteStates
  <2>5. CASE state \in SendStates
    BY <1>3, <2>5 DEF LineGoes, SendStates
  <2>6. QED
    BY <1>4, <2>1, <2>2, <2>3, <2>4, <2>5 DEF EngineStates, WriteStates, SendStates
<1> SUFFICES BridgeAfter(e, ev, p)
  OBVIOUS
<1> HIDE DEF e, load, input
<1>10. \/ e.commands = q /\ e.completed = done
       \/ state # "IDLE" /\ e.commands = Tail(q) /\ e.completed = done + 1 /\ q # << >>
  BY <1>1, <1>4, <1>9 DEF Same, Done, Started
<1>11. /\ e.completed \in Nat /\ e.completed + Len(e.commands) = done + Len(q)
       /\ BridgeQueue(e.commands, e.completed, next, u, l)
  <2> SUFFICES /\ e.completed \in Nat /\ e.completed + Len(e.commands) = done + Len(q)
               /\ BridgeQueue(e.commands, e.completed, next, u, l)
    OBVIOUS
  <2> HIDE DEF q, next, u, l, done
  <2>1. CASE e.commands = q /\ e.completed = done
    BY <1>1, <1>5, <2>1
  <2>2. CASE e.commands = Tail(q) /\ e.completed = done + 1 /\ q # << >>
    BY <1>5, <1>7, <2>2
  <2>3. QED
    BY <1>10, <2>1, <2>2
<1> HIDE DEF q, r, done, k, pc, next, u, l
<1>12. /\ Done(p, e) /\ state # "IDLE" =>
            NextOf(e.commands, next, l) = IF IsSystem(a) THEN k + 1 ELSE NextOf(r, pc, k)
       /\ Same(p, e) => NextOf(e.commands, next, l) = NextOf(r, pc, k) /\ e.active = a
       /\ state # "IDLE" /\ IsSystem(a) => l = k
  <2>1. ASSUME Done(p, e), state # "IDLE"
        PROVE  NextOf(e.commands, next, l) = IF IsSystem(a) THEN k + 1 ELSE NextOf(r, pc, k)
    <3>1. e.commands = Tail(q) /\ q # << >> /\ Head(q) = a
      BY <1>4, <2>1 DEF Done, q
    <3>2. CASE IsSystem(a)
      <4>1. ~Pending(e.commands) /\ next \in 8 .. 10 /\ l = k
        BY <1>1, <1>2, <1>7, <2>1, <3>1, <3>2
      <4>2. ~(next <= 7)
        BY <4>1
      <4>3. QED
        BY <3>2, <4>1, <4>2 DEF NextOf
    <3>3. CASE ~IsSystem(a)
      <4>1. Pending(e.commands) <=> Pending(q)
        BY <1>7, <3>1, <3>3
      <4>2. QED
        BY <1>1, <3>3, <4>1 DEF NextOf
    <3>4. QED
      BY <3>2, <3>3
  <2>2. Same(p, e) => NextOf(e.commands, next, l) = NextOf(r, pc, k) /\ e.active = a
    BY <1>1 DEF Same, q
  <2>3. QED
    BY <1>1, <1>2, <2>1, <2>2
<1> DEFINE n == NextOf(e.commands, next, l)
           Goal == LinesHold(e.state, e.active, e.moved, e.beat, host', n, l)
<1> SUFFICES Goal
  BY <1>1, <1>9, <1>11 DEF BridgeAfter, q, next, u, l, done
<1>13. CASE state = "IDLE"
  <2>1. host' = << NextOf(r, pc, k), 0 >>
    BY <1>2, <1>6, <1>13 DEF WriteStates
  <2>2. CASE q = << >>
    <3>1. e.state = "IDLE" /\ n = NextOf(r, pc, k)
      BY <1>9, <1>12, <1>13, <2>2
    <3>2. QED
      BY <2>1, <3>1 DEF LinesHold, WriteStates, SendStates
  <2>3. CASE q # << >>
    <3> DEFINE c == Head(q)
    <3>1. /\ e.active = c /\ e.moved = 0 /\ e.state = StartState(dma, c)
          /\ n = NextOf(r, pc, k) /\ n = NextOf(q, next, l) /\ ~Prefetched(c)
      BY <1>1, <1>9, <1>13, <2>3 DEF Started, q, Plain
    <3>2. e.state = IF IsNetwork(c) THEN "ISSUE_NETWORK_READ"
                    ELSE IF IsSystem(c) THEN "WAIT_INPUT" ELSE "READ_ADDRESS"
      BY <1>4, <3>1 DEF StartState, Prefetched, IsSystem
    <3>3. /\ IsSystem(c) => Pending(q) /\ next \in 8 .. 10
          /\ IsNetwork(c) => ~IsSystem(c)
      BY <1>7, <2>3
    <3> HIDE DEF c, n
    <3>4. CASE e.state = "WAIT_INPUT"
      <4>1. ~IsNetwork(c) /\ IsSystem(c) /\ n = l
        BY <1>8, <3>1, <3>2, <3>3, <3>4
      <4>2. l \in Packets
        BY <3>3, <4>1 DEF next, l
      <4>3. 0 \in 0 .. LoadOf(c, l)[2] - 1
        <5>1. LoadOf(c, l)[2] = Lengths[l]
          BY <4>1 DEF LoadOf, Packet
        <5>2. Lengths[l] \in Nat \ {0}
          <6>1. Lengths \in Seq(Nat \ {0}) /\ l \in 1 .. Len(Lengths)
            BY <4>2 DEF ClusterAssumption, HartsHold, Lengths, Packets
          <6>2. QED
            BY <6>1
        <5>3. QED
          BY <5>1, <5>2
      <4>4. QED
        BY <2>1, <3>1, <3>4, <4>1, <4>3 DEF LinesHold, WriteStates, SendStates
    <3>5. CASE e.state # "WAIT_INPUT"
      <4>1. e.state \in {"ISSUE_NETWORK_READ", "READ_ADDRESS"}
            /\ (e.state = "READ_ADDRESS" => ~IsSystem(c))
        BY <3>2, <3>5
      <4>2. QED
        BY <2>1, <3>1, <4>1 DEF LinesHold, WriteStates, SendStates
    <3>6. QED
      BY <3>4, <3>5
  <2>4. QED
    BY <2>2, <2>3
<1>14. CASE state \in {"ISSUE_NETWORK_READ"} \cup SendStates \cup {"WAIT_INPUT"} \cup WriteStates
            /\ Done(p, e) /\ ~IsSystem(a)
  <2>1. n = NextOf(r, pc, k) /\ e.state = "IDLE"
    BY <1>12, <1>14 DEF Done, WriteStates, SendStates
  <2>2. host' = << NextOf(r, pc, k), 0 >>
    BY <1>2, <1>6, <1>14
  <2>3. QED
    BY <2>1, <2>2 DEF LinesHold, WriteStates, SendStates
<1>15. CASE state = "ISSUE_NETWORK_READ"
  <2>1. /\ Same(p, e) /\ e.moved = 0 /\ e.state \in {"ISSUE_NETWORK_READ", "WAIT_INPUT"}
        /\ IsNetwork(a) /\ Sized(a)
    BY <1>2, <1>3, <1>4, <1>15 DEF LineGoes
  <2>2. host' = << NextOf(r, pc, k), 0 >> /\ n = NextOf(r, pc, k) /\ e.active = a
    BY <1>2, <1>6, <1>12, <1>15, <2>1 DEF WriteStates
  <2>3. 0 \in 0 .. LoadOf(a, l)[2] - 1
    BY <2>1 DEF LoadOf, Sized, Whole
  <2>4. QED
    BY <2>1, <2>2, <2>3 DEF LinesHold, WriteStates, SendStates
<1>16. CASE state \in SendStates
  <2>1. ~IsNetwork(a) /\ ~IsSystem(a)
    BY <1>4, <1>6, <1>16
  <2>2. Done(p, e) \/ (Same(p, e) /\ e.state \in SendStates)
    BY <1>3, <1>16 DEF LineGoes
  <2>3. CASE Done(p, e)
    BY <1>14, <1>16, <2>1, <2>3
  <2>4. CASE Same(p, e) /\ e.state \in SendStates
    <3>1. host' = << NextOf(r, pc, k), 0 >> /\ n = NextOf(r, pc, k) /\ e.active = a
      BY <1>2, <1>6, <1>12, <1>16, <2>4 DEF WriteStates, SendStates
    <3>2. QED
      BY <2>1, <2>4, <3>1 DEF LinesHold, WriteStates, SendStates
  <2>5. QED
    BY <2>2, <2>3, <2>4
<1>17. CASE state \in {"WAIT_INPUT"} \cup WriteStates /\ IsNetwork(a)
  <2>1. ~IsSystem(a) /\ LoadOf(a, l) = load
    BY <1>2, <1>17 DEF LoadOf, load, WriteStates
  <2>2. host' = << NextOf(r, pc, k), 0 >>
    BY <1>2, <1>6, <1>17
  <2>3. \/ Done(p, e)
        \/ Same(p, e) /\ e.state = "WAIT_INPUT" /\ e.moved \in 0 .. load[2] - 1
        \/ /\ Same(p, e) /\ e.state \in WriteStates /\ e.moved \in 0 .. load[2] - 1
           /\ e.beat = LineBeat(load, e.moved)
    <3>1. CASE state = "WAIT_INPUT" /\ PassesOn(dma)
      BY <1>2, <1>3, <3>1 DEF LineGoes
    <3>2. CASE state = "WAIT_INPUT" /\ ~PassesOn(dma)
      <4>1. /\ Same(p, e) /\ e.moved = moved
            /\ IF input = NoBeat THEN e.state = "WAIT_INPUT"
               ELSE e.state = "WRITE_ADDRESS" /\ e.beat = input
        BY <1>3, <3>2 DEF LineGoes, input
      <4>2. QED
        BY <1>2, <3>2, <4>1 DEF WriteStates
    <3>3. CASE state \in WriteStates
      <4>1. \/ Same(p, e) /\ e.moved = moved /\ e.beat = dma.beat /\ e.state \in WriteStates
            \/ Same(p, e) /\ e.state = "WAIT_INPUT" /\ e.moved = moved + 1
               /\ moved + 1 \in 0 .. load[2] - 1
            \/ Done(p, e)
        BY <1>3, <3>3 DEF LineGoes
      <4>2. QED
        BY <1>2, <3>3, <4>1
    <3>4. QED
      BY <1>17, <3>1, <3>2, <3>3
  <2>4. CASE Done(p, e)
    BY <1>14, <1>17, <2>1, <2>4
  <2>5. CASE Same(p, e) /\ e.state = "WAIT_INPUT" /\ e.moved \in 0 .. load[2] - 1
    <3>1. n = NextOf(r, pc, k) /\ e.active = a
      BY <1>12, <2>5
    <3>2. QED
      BY <1>17, <2>1, <2>2, <2>5, <3>1 DEF LinesHold, WriteStates, SendStates
  <2>6. CASE /\ Same(p, e) /\ e.state \in WriteStates /\ e.moved \in 0 .. load[2] - 1
             /\ e.beat = LineBeat(load, e.moved)
    <3>1. n = NextOf(r, pc, k) /\ e.active = a
      BY <1>12, <2>6
    <3>2. QED
      BY <1>17, <2>1, <2>2, <2>6, <3>1 DEF LinesHold, WriteStates, SendStates
  <2>7. QED
    BY <2>3, <2>4, <2>5, <2>6
<1>18. CASE state \in {"WAIT_INPUT"} \cup WriteStates /\ ~IsNetwork(a)
  <2>1. /\ IsSystem(a) /\ l = k /\ LoadOf(a, l) = load /\ load[2] = Lengths[k]
        /\ moved \in 0 .. Lengths[k] - 1 /\ Lengths[k] \in Nat \ {0} /\ k \in Nat
    <3>1. IsSystem(a) /\ l = k /\ k \in Packets
      BY <1>2, <1>6, <1>12, <1>18 DEF WriteStates
    <3>2. LoadOf(a, l) = load /\ load[2] = Lengths[k]
      BY <1>18, <3>1 DEF LoadOf, load, Packet
    <3>3. Lengths[k] \in Nat \ {0} /\ k \in Nat
      <4>1. Lengths \in Seq(Nat \ {0}) /\ k \in 1 .. Len(Lengths)
        BY <3>1 DEF ClusterAssumption, HartsHold, Lengths, Packets
      <4>2. QED
        BY <4>1
    <3>4. QED
      BY <1>2, <1>18, <3>1, <3>2, <3>3
  <2>2. Advanced(<< k, moved >>, Lengths[k]) = IF moved + 1 = Lengths[k] THEN << k + 1, 0 >>
                                               ELSE << k, moved + 1 >>
    BY DEF Advanced
  <2>3. CASE state = "WAIT_INPUT"
    <3>1. ~PassesOn(dma)
      BY <1>18 DEF PassesOn, Is, IsNetwork
    <3>2. /\ Same(p, e) /\ e.moved = moved /\ e.active = a
          /\ IF input = NoBeat THEN e.state = "WAIT_INPUT"
             ELSE e.state = "WRITE_ADDRESS" /\ e.beat = input
      BY <1>3, <1>12, <2>3, <3>1 DEF LineGoes, input
    <3>3. CASE "host" \in ev
      <4>1. /\ e.state = "WRITE_ADDRESS" /\ e.beat = LineBeat(load, moved)
            /\ host' = Advanced(<< k, moved >>, Lengths[k])
        BY <1>2, <2>3, <3>2, <3>3
      <4>2. QED
        BY <1>18, <2>1, <3>2, <4>1 DEF LinesHold, WriteStates, SendStates
    <3>4. CASE "host" \notin ev
      <4>1. e.state = "WAIT_INPUT" /\ host' = << k, moved >>
        BY <1>2, <1>6, <1>18, <2>3, <3>2, <3>4
      <4>2. QED
        BY <1>18, <2>1, <3>2, <4>1 DEF LinesHold, WriteStates, SendStates
    <3>5. QED
      BY <3>3, <3>4
  <2>4. CASE state \in WriteStates
    <3>1. host' = Advanced(<< k, moved >>, Lengths[k])
      BY <1>2, <1>6, <1>18, <2>4 DEF WriteStates
    <3>2. \/ Same(p, e) /\ e.moved = moved /\ e.beat = dma.beat /\ e.state \in WriteStates
          \/ Same(p, e) /\ e.state = "WAIT_INPUT" /\ e.moved = moved + 1
             /\ moved + 1 \in 0 .. load[2] - 1
          \/ Done(p, e) /\ moved + 1 = load[2]
      BY <1>3, <2>4 DEF LineGoes
    <3>3. CASE Same(p, e) /\ e.moved = moved /\ e.beat = dma.beat /\ e.state \in WriteStates
      <4>1. e.active = a
        BY <1>12, <3>3
      <4>2. QED
        BY <1>2, <1>18, <2>1, <2>4, <3>1, <3>3, <4>1 DEF LinesHold, WriteStates, SendStates
    <3>4. CASE Same(p, e) /\ e.state = "WAIT_INPUT" /\ e.moved = moved + 1
               /\ moved + 1 \in 0 .. load[2] - 1
      <4>1. e.active = a /\ host' = << k, moved + 1 >>
        BY <1>12, <2>1, <2>2, <3>1, <3>4
      <4>2. QED
        BY <1>18, <2>1, <3>4, <4>1 DEF LinesHold, WriteStates, SendStates
    <3>5. CASE Done(p, e) /\ moved + 1 = load[2]
      <4>1. n = k + 1 /\ host' = << k + 1, 0 >> /\ e.state = "IDLE"
        BY <1>12, <2>1, <2>2, <2>4, <3>1, <3>5 DEF Done, WriteStates
      <4>2. QED
        BY <4>1 DEF LinesHold, WriteStates, SendStates
    <3>6. QED
      BY <3>2, <3>3, <3>4, <3>5
  <2>5. QED
    BY <1>18, <2>3, <2>4
<1>19. state \in {"IDLE", "ISSUE_NETWORK_READ", "WAIT_INPUT"} \cup WriteStates \cup SendStates
  BY <1>4 DEF EngineStates, WriteStates, SendStates
<1> HIDE DEF Goal
<1>20. QED
  BY <1>13, <1>15, <1>16, <1>17, <1>18, <1>19

(* An edge keeps it, and leads to no error. *)
LEMMA BridgeNext ==
  ASSUME ClusterAssumption, DmaAssumption, ReadsHold, BridgeHolds, firmware = "bridge",
         NEW ev \in SUBSET Events, Cardinality(HartEvent(ev)) <= 1, NEW in, ErrorsEdge(ev, in),
         ~dma.protocol_error
  PROVE  /\ BridgeHolds' /\ ~dma'.protocol_error
         /\ ~Misuses(fetcher, in.store, DescriptorReady)
<1>1. /\ EngineTypes /\ CommandReads /\ ReadsEdge(in) /\ FetcherAsks /\ HartsHold
      /\ in.descriptor = << >> /\ Harts = {"hart1", "hart2"}
      /\ \A x \in Harts : BridgeStaged(x)
      /\ firmware' = firmware
  BY DEF ReadsHold, ErrorsEdge, ReadsEdge, FetcherAsks, Harts, Program, BridgeHolds
<1>2. PICK p : LET e == Engine(dma, p, in)
               IN  /\ Prepared(dma, p, in)
                   /\ dma'.state = e.state /\ dma'.active = e.active /\ dma'.moved = e.moved
                   /\ dma'.beat = e.beat /\ dma'.commands = e.commands
                   /\ dma'.completed = e.completed
                   /\ dma'.protocol_error = e.protocol_error
                   /\ dma'.stage = StageAfter(dma, in)
  BY <1>1, DMAParts DEF EngineTypes, ReadsEdge
<1> DEFINE e == Engine(dma, p, in)
           q == p.commands
           l == harts'["hart2"].packets + 1
           pc == harts'["hart2"].pc
<1>3. StoreSound(in.store)
  BY <1>1, StoresAreSound DEF ErrorsEdge
<1>4. q # << >> => Plain(Head(q))
  BY <1>1, <1>2, <1>3, CommandsStayPlain DEF StoreSound
<1>5. /\ dma'.issued = IF Orders(dma, in) THEN dma.issued + 1 ELSE dma.issued
      /\ dma'.armed <=> ~Orders(dma, in) /\ (in.store.register \in StageRegisters \/ dma.armed)
  BY <1>1, OrderCounts DEF EngineTypes, ReadsEdge
<1>6. \A h \in Harts : BridgeStaged(h)'
  BY <1>1, <1>2, <1>5, BridgeStages
<1>7. pc # 1 => l \in Packets
  <2>1. BridgeStaged("hart2")'
    BY <1>1, <1>6
  <2>2. QED
    BY <1>1, <2>1 DEF BridgeStaged, Packets, Lengths
<1>8. BridgeAfter(e, ev, p)
  BY <1>1, <1>2, <1>4, <1>7, BridgeLines
<1>9. in.store.register = "COMMAND" => Orders(dma, in)
  BY <1>1, BridgeOrders
<1>10. Len(q) = Len(dma.commands) + (IF Orders(dma, in) THEN 1 ELSE 0)
  <2>1. q = Pushed(dma, in)
    BY <1>2 DEF Prepared
  <2>2. Len(Pushed(dma, in)) = Len(dma.commands) + (IF Orders(dma, in) THEN 1 ELSE 0)
    BY <1>1, BridgePush
  <2>3. QED
    BY <2>1, <2>2
<1>11. ~p.protocol_error
  BY <1>1, <1>2, <1>9 DEF Prepared, LoaderError, LoaderTakes, Refused, CommandReads
<1>12. ~Misuses(fetcher, in.store, DescriptorReady)
  BY <1>3 DEF StoreSound, Misuses
<1> HIDE DEF e, q, l, pc
<1>13. /\ dma'.completed \in Nat
       /\ dma'.issued = dma'.completed + Len(dma'.commands)
  <2>1. /\ dma'.completed = e.completed /\ dma'.commands = e.commands
        /\ e.completed \in Nat
        /\ e.completed + Len(e.commands) = dma.completed + Len(q)
    BY <1>2, <1>8 DEF e, q, BridgeAfter
  <2>2. dma.completed \in Nat /\ dma.issued = dma.completed + Len(dma.commands)
        /\ Len(dma.commands) \in Nat
    BY <1>1 DEF BridgeHolds, EngineTypes, Queue
  <2> DEFINE m == Len(dma.commands)
             c == dma.completed
  <2>3. dma'.issued = c + Len(q)
    <3>1. m \in Nat /\ c \in Nat /\ dma.issued = c + m
      BY <2>2
    <3> HIDE DEF m, c
    <3>2. CASE Orders(dma, in)
      <4>1. dma'.issued = (c + m) + 1 /\ Len(q) = m + 1
        BY <1>5, <1>10, <3>1, <3>2 DEF m
      <4>2. QED
        BY <3>1, <4>1
    <3>3. CASE ~Orders(dma, in)
      <4>1. dma'.issued = c + m /\ Len(q) = m + 0
        BY <1>5, <1>10, <3>1, <3>3 DEF m
      <4>2. QED
        BY <3>1, <4>1
    <3>4. QED
      BY <3>2, <3>3
  <2>4. QED
    BY <2>1, <2>3
<1>14. /\ BridgeQueue(dma.commands, dma.completed, harts["hart2"].pc, harts["hart2"].ticket,
                      harts["hart2"].packets + 1)'
       /\ LinesHold(dma.state, dma.active, dma.moved, dma.beat, from_host,
                    NextOf(dma.commands, harts["hart2"].pc, harts["hart2"].packets + 1),
                    harts["hart2"].packets + 1)'
  <2>1. /\ BridgeQueue(dma'.commands, dma'.completed, pc, harts'["hart2"].ticket, l)
        /\ LinesHold(dma'.state, dma'.active, dma'.moved, dma'.beat, from_host',
                     NextOf(dma'.commands, pc, l), l)
    BY <1>2, <1>8 DEF BridgeAfter, e, pc, l
  <2>2. Lengths' = Lengths
    BY <1>1 DEF Lengths
  <2>3. QED
    BY <2>1, <2>2 DEF BridgeQueue, LinesHold, LoadOf, Packet, NextOf, pc, l
<1>15. BridgeHolds'
  <2>1. Harts' = Harts
    BY <1>1 DEF Harts
  <2>2. QED
    BY <1>6, <1>13, <1>14, <2>1 DEF BridgeHolds
<1>16. ~dma'.protocol_error
  BY <1>2, <1>8, <1>11 DEF BridgeAfter, e
<1>17. QED
  BY <1>12, <1>15, <1>16

(* No error yet, and what keeps it so. *)
ErrorsHold ==
  /\ ReadsHold /\ ~fetcher.protocol_error /\ ~dma.protocol_error
  /\ WordsHold /\ QueueHolds
  /\ firmware \in {"ring", "forward"} => SenderHolds
  /\ firmware = "fast" => FastHolds
  /\ firmware = "bridge" => BridgeHolds

(* At the start nothing is queued, staged or on its way. *)
LEMMA ErrorsInit ==
  ASSUME ClusterAssumption, DmaAssumption, FetcherAssumption, ClusterInit
  PROVE  ErrorsHold
<1>1. /\ fetcher = FetcherInit /\ dma = DMAInit /\ incoming = << 1, 0 >> /\ from_host = << 1, 0 >>
      /\ harts = [h \in Harts |-> [pc |-> 1, ticket |-> 0, packets |-> 0]]
  BY DEF ClusterInit, Harts
<1>2. ReadsHold
  BY ReadsInit
<1>3. /\ fetcher.head = 0 /\ fetcher.count = 0 /\ fetcher.command = << >>
      /\ DOMAIN fetcher.queue = 0 .. FETCH_DEPTH - 1
      /\ fetcher.assembly_active = FALSE /\ fetcher.assembly_word = 0
      /\ fetcher.protocol_error = FALSE
  BY <1>1 DEF FetcherInit
<1>4. /\ dma.commands = << >> /\ dma.state = "IDLE" /\ dma.prefetch.state = "IDLE"
      /\ dma.issued = 0 /\ dma.completed = 0 /\ dma.protocol_error = FALSE
  BY <1>1 DEF DMAInit
<1>5. WordsHold
  BY <1>1, <1>3 DEF WordsHold, FetcherAssumption
<1>6. QueueHolds
  BY <1>3 DEF QueueHolds, FetcherAssumption
<1>7. \A h \in Harts : harts[h].pc = 1 /\ harts[h].packets = 0
  BY <1>1
<1>8. firmware \in {"ring", "forward"} => SenderHolds
  <2>1. SUFFICES ASSUME firmware \in {"ring", "forward"} PROVE SenderHolds
    OBVIOUS
  <2>2. harts["hart1"].pc = 1 /\ Doorbell \in {8, 9}
    BY <1>7, <2>1, SenderProgram DEF Doorbell
  <2>3. QED
    BY <1>4, <2>2 DEF SenderHolds, LoaderHolds
<1>9. firmware = "fast" => FastHolds
  <2>1. SUFFICES ASSUME firmware = "fast" PROVE FastHolds
    OBVIOUS
  <2>2. harts["hart1"].pc = 1
    BY <1>7, <2>1 DEF Harts, Program
  <2>3. QED
    BY <1>3, <1>4, <2>2 DEF FastHolds
<1>10. firmware = "bridge" => BridgeHolds
  <2>1. SUFFICES ASSUME firmware = "bridge" PROVE BridgeHolds
    OBVIOUS
  <2>2. harts["hart2"].pc = 1 /\ harts["hart2"].packets = 0
    BY <1>7, <2>1 DEF Harts, Program
  <2>3. \A h \in Harts : BridgeStaged(h)
    BY <1>7 DEF BridgeStaged
  <2>4. BridgeQueue(dma.commands, dma.completed, harts["hart2"].pc, harts["hart2"].ticket,
                    harts["hart2"].packets + 1)
    BY <1>4 DEF BridgeQueue
  <2>5. NextOf(dma.commands, harts["hart2"].pc, harts["hart2"].packets + 1) = 1
    BY <2>2 DEF NextOf
  <2>6. LinesHold(dma.state, dma.active, dma.moved, dma.beat, from_host, 1,
                  harts["hart2"].packets + 1)
    BY <1>1, <1>4 DEF LinesHold, WriteStates, SendStates
  <2>7. QED
    BY <1>4, <2>3, <2>4, <2>5, <2>6 DEF BridgeHolds
<1>11. QED
  BY <1>2, <1>3, <1>4, <1>5, <1>6, <1>8, <1>9, <1>10 DEF ErrorsHold

(* A read refused is never forgotten. *)
LEMMA RefusedStays ==
  ASSUME refused, [Next]_vars
  PROVE  refused'
  BY DEF Next, ActiveEdge, Edge, Rest, vars

(* An edge keeps it as long as no read was refused. *)
LEMMA ErrorsNext ==
  ASSUME ClusterAssumption, DmaAssumption, FetcherAssumption,
         ErrorsHold, ~refused, [Next]_vars
  PROVE  ErrorsHold'
<1>1. ReadsHold'
  BY ReadsNext DEF ErrorsHold
<1>2. CASE UNCHANGED vars
  <2>1. /\ dma' = dma /\ fetcher' = fetcher /\ firmware' = firmware /\ incoming' = incoming
        /\ from_host' = from_host /\ harts' = harts /\ response' = response
    BY <1>2 DEF vars
  <2>2. WordsHold' /\ QueueHolds'
    BY <2>1 DEF ErrorsHold, WordsHold, QueueHolds
  <2>3. firmware \in {"ring", "forward"} => SenderHolds'
    BY <2>1 DEF ErrorsHold, SenderHolds, LoaderHolds, Doorbell
  <2>4. firmware = "fast" => FastHolds'
    BY <2>1 DEF ErrorsHold, FastHolds
  <2>5. firmware = "bridge" => BridgeHolds'
    <3>1. SUFFICES ASSUME BridgeHolds PROVE BridgeHolds'
      BY DEF ErrorsHold
    <3>2. Harts' = Harts /\ Lengths' = Lengths
      BY <2>1 DEF Harts, Lengths
    <3>3. \A h \in Harts : BridgeStaged(h)'
      BY <2>1, <3>1, <3>2 DEF BridgeHolds, BridgeStaged, Packets, Packet
    <3>4. BridgeQueue(dma.commands, dma.completed, harts["hart2"].pc, harts["hart2"].ticket,
                      harts["hart2"].packets + 1)'
      BY <2>1, <3>1, <3>2 DEF BridgeHolds, BridgeQueue
    <3>5. LinesHold(dma.state, dma.active, dma.moved, dma.beat, from_host,
                    NextOf(dma.commands, harts["hart2"].pc, harts["hart2"].packets + 1),
                    harts["hart2"].packets + 1)'
      BY <2>1, <3>1, <3>2 DEF BridgeHolds, LinesHold, LoadOf, Packet
    <3>6. QED
      BY <2>1, <3>1, <3>2, <3>3, <3>4, <3>5 DEF BridgeHolds
  <2>6. QED
    BY <1>1, <2>1, <2>2, <2>3, <2>4, <2>5 DEF ErrorsHold
<1>3. CASE ActiveEdge
  <2>1. PICK ev \in SUBSET Events : Edge(ev) /\ Cardinality(HartEvent(ev)) <= 1
    BY <1>3 DEF ActiveEdge
  <2> DEFINE in == EdgeInput(ev)
  <2>2. /\ ReadsHold /\ HartsHold /\ FetcherAsks /\ WordsHold /\ QueueHolds
        /\ ~fetcher.protocol_error /\ ~dma.protocol_error
        /\ firmware \in {"ring", "fast", "forward", "bridge"}
    BY DEF ErrorsHold, ReadsHold, HartsHold, ClusterAssumption
  <2>3. ErrorsEdge(ev, in)
    BY <2>1, <2>2, EdgeErrors
  <2> HIDE DEF in
  <2>4. FetcherStep(in.store, WordAt(ev), DescriptorReady) /\ firmware' = firmware
    BY <2>3 DEF ErrorsEdge
  <2>5. WordsHold' /\ ~(TakesWord(fetcher, WordAt(ev)) /\ BadWord(fetcher, WordAt(ev)))
    BY <2>2, <2>4, WordsNext
  <2>6. QueueHolds'
    BY <2>2, <2>4, QueueNext
  <2>7. firmware \in {"ring", "forward"} =>
          SenderHolds' /\ ~dma'.protocol_error /\ ~Misuses(fetcher, in.store, DescriptorReady)
    BY <2>1, <2>2, <2>3, SenderNext DEF ErrorsHold
  <2>8. firmware = "fast" =>
          FastHolds' /\ ~dma'.protocol_error /\ ~Misuses(fetcher, in.store, DescriptorReady)
    BY <2>1, <2>2, <2>3, FastNext DEF ErrorsHold
  <2>9. firmware = "bridge" =>
          BridgeHolds' /\ ~dma'.protocol_error /\ ~Misuses(fetcher, in.store, DescriptorReady)
    BY <2>1, <2>2, <2>3, BridgeNext DEF ErrorsHold
  <2>10. ~fetcher'.protocol_error
    <3>1. fetcher'.protocol_error <=>
            \/ fetcher.protocol_error
            \/ Misuses(fetcher, in.store, DescriptorReady)
            \/ TakesWord(fetcher, WordAt(ev)) /\ BadWord(fetcher, WordAt(ev))
      BY <2>4 DEF FetcherStep, FetcherResult
    <3>2. QED
      BY <2>2, <2>5, <2>7, <2>8, <2>9, <3>1
  <2>11. QED
    BY <1>1, <2>2, <2>4, <2>5, <2>6, <2>7, <2>8, <2>9, <2>10 DEF ErrorsHold
<1>4. QED
  BY <1>2, <1>3 DEF Next, Rest

(* For every plan, every firmware and all sizes of the queues and of the   *)
(* crossing, the built ones among them: until the read of a descriptor's   *)
(* command is refused, neither the descriptor queue nor PacketDMA reports  *)
(* a protocol error, so no doorbell is refused, no descriptor is taken     *)
(* that is not there, and every word and line comes in its place.          *)
THEOREM NoErrorIsReported ==
  ASSUME ClusterAssumption, DmaAssumption, FetcherAssumption
  PROVE  Spec => []NoError
<1> DEFINE Inv == refused \/ ErrorsHold
<1>1. ClusterInit => Inv
  BY ErrorsInit
<1>2. Inv /\ [Next]_vars => Inv'
  BY ErrorsNext, RefusedStays
<1>3. Inv => NoError
  BY DEF ErrorsHold, NoError
<1>4. QED
  BY <1>1, <1>2, <1>3, PTL DEF Spec
=============================================================================
