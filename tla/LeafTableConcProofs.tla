------------------------- MODULE LeafTableConcProofs -------------------------
(***************************************************************************)
(* Theorems about LeafTableConc. For every load: two inserts into one      *)
(* entry exclude each other. For loads of any number of threads that       *)
(* insert into and search a table of one entry: the inserts, split into    *)
(* their loads and stores, leave the table as inserts one after the other  *)
(* would, and a call that nobody inserts beside answers what the index had *)
(* when it began.                                                          *)
(***************************************************************************)
EXTENDS LeafTableConc, FiniteSetTheorems, WellFoundedInduction, TLAPS

\* The steps of an insert that has the lock, and those of each operation
Section == {"first", "collect", "choose", "look", "fetch", "emplace", "take", "bump",
            "link", "fill", "move", "shiftkeys", "shiftvals", "putkey", "putval",
            "csunlock", "crashed", "looping"}

Walk == {"first", "collect", "crashed", "looping"}

StepsOf(op) ==
  CASE op = "none" -> {"idle"}
    [] op = "insert" -> {"route", "test", "cslock"} \cup Section
    [] op = "search" -> {"route", "base", "scan", "probe", "seeval", "found", "notfound"} \cup Walk
    [] op = "update" -> {"route", "seelock", "setlock", "choose", "find", "putval",
                         "clearlock"} \cup Walk
    [] op = "remove" -> {"route", "seelock", "setlock", "choose", "find", "dropkey",
                         "dropval", "droplast", "unlink", "clearlock"} \cup Walk

Inside(t) == my[t].op = "insert" /\ pc[t] \in Section

\* csLocks: of the inserts into one entry, one at most has the lock.
InsertsExclude ==
  \A t, u \in Threads : Inside(t) /\ Inside(u) /\ my[t].i = my[u].i => t = u

Fields == {"op", "key", "i", "s", "chain", "p", "idx", "cur", "new", "at", "ok", "there"}

\* The window is in the table, and a thread in a call looks at an entry of it.
InWindow(t) ==
  /\ my[t].key \in Keys /\ my[t].i \in Int
  /\ my[t].i >= Load.lo[my[t].key] /\ my[t].i <= Load.hi[my[t].key]

LockInv ==
  /\ load \in DOMAIN Loads
  /\ DOMAIN pc = Threads /\ DOMAIN my = Threads
  /\ \A t \in Threads : DOMAIN my[t] = Fields
  /\ DOMAIN csLocks = Entries
  /\ \A t \in Threads : /\ my[t].op \in {"none", "insert", "search", "update", "remove"}
                        /\ pc[t] \in StepsOf(my[t].op)
                        /\ my[t].op # "none" => InWindow(t)
  /\ \A t \in Threads : Inside(t) => csLocks[my[t].i] = TRUE
  /\ InsertsExclude
-----------------------------------------------------------------------------
\* A load's entries are numbered from 0 on and its windows are in them.
LEMMA StartedWindow ==
  ASSUME load \in DOMAIN Loads
  PROVE  /\ \A k \in Keys : /\ Load.lo[k] \in Int /\ Load.hi[k] \in Int
                            /\ Load.lo[k] <= Load.hi[k]
                            /\ \A i \in Int : Load.lo[k] <= i /\ i <= Load.hi[k] => i \in Entries
         /\ \A t \in Threads : Load.targets[t] \subseteq Keys
<1> DEFINE T0 == Cardinality(Entries)
<1>1. Started(Load)
  BY StartAssumption DEF Load
<1>2. /\ IsFiniteSet(Entries) /\ Entries = 0 .. T0 - 1
      /\ \A k \in Keys : Load.lo[k] \in Entries /\ Load.hi[k] \in Load.lo[k] .. T0 - 1
      /\ \A t \in Threads : Load.targets[t] \subseteq Keys
  BY <1>1 DEF Started, Entries, Chains
<1>3. T0 \in Nat
  BY <1>2, FS_CardinalityType
<1> HIDE DEF T0
<1> QED
  BY <1>2, <1>3

\* What a thread's step leaves alone: the other threads, and the operation, the key
\* and, but for the routing, the entry of its own call
Keeps(t) ==
  /\ DOMAIN my' = Threads /\ DOMAIN pc' = Threads /\ DOMAIN my'[t] = Fields
  /\ \A u \in Threads \ {t} : my'[u] = my[u] /\ pc'[u] = pc[u]

Goes(t) ==
  /\ Keeps(t) /\ load' = load
  /\ my'[t].op = my[t].op /\ my'[t].i = my[t].i /\ my'[t].key = my[t].key

\* Steps of a call that do not touch a lock
Plain(t) ==
  \/ Test(t) /\ pc'[t] # "idle"
  \/ First(t) \/ Collect(t) \/ Choose(t) \/ Look(t) \/ Fetch(t) \/ Emplace(t) \/ Take(t)
  \/ Bump(t) \/ Link(t) \/ Fill(t) \/ Move(t) \/ ShiftKeys(t) \/ ShiftVals(t) \/ PutKey(t)
  \/ PutVal(t) \/ Find(t) \/ DropKey(t) \/ DropVal(t) \/ DropLast(t) \/ Unlink(t)
  \/ Base(t) \/ Scan(t) \/ Probe(t) \/ SeeVal(t)

LEMMA PlainGoes ==
  ASSUME LockInv, NEW t \in Threads, Plain(t)
  PROVE  /\ Goes(t) /\ csLocks' = csLocks /\ my[t].op # "none"
         /\ pc'[t] \in StepsOf(my[t].op)
         /\ my[t].op = "insert" => (pc'[t] \in Section <=> pc[t] \in Section)
<1>1. /\ DOMAIN pc = Threads /\ DOMAIN my = Threads /\ DOMAIN my[t] = Fields
  BY DEF LockInv
<1>2. /\ my[t].op \in {"none", "insert", "search", "update", "remove"}
      /\ pc[t] \in StepsOf(my[t].op)
  BY DEF LockInv
<1>3. my[t].op # "none" <=> pc[t] # "idle"
  BY <1>2 DEF StepsOf, Section, Walk
<1>4. CASE Test(t) /\ pc'[t] # "idle"
  <2>1. Goes(t) /\ csLocks' = csLocks
    BY <1>1, <1>4 DEF Test, Return, Goes, Keeps, Goto, Frame, shared
  <2>2. pc[t] = "test" /\ pc'[t] = "cslock"
    BY <1>1, <1>4 DEF Test, Return, Goto, At
  <2> QED
    BY <1>2, <1>3, <2>1, <2>2 DEF StepsOf, Section, Walk
<1>5. CASE First(t)
  <2>1. Goes(t) /\ csLocks' = csLocks
    BY <1>1, <1>5 DEF First, Goes, Keeps, Goto, Local, Frame, shared, Fields
  <2>2. /\ pc[t] = "first"
        /\ pc'[t] = "collect"
    BY <1>1, <1>5 DEF First, Goto, At
  <2> QED
    BY <1>2, <1>3, <2>1, <2>2 DEF StepsOf, Section, Walk
<1>6. CASE Collect(t)
  <2>1. Goes(t) /\ csLocks' = csLocks
    BY <1>1, <1>6 DEF Collect, Goes, Keeps, Goto, Local, Frame, shared, Fields
  <2>2. /\ pc[t] = "collect"
        /\ pc'[t] \in {"collect", "looping", "crashed"}
          \cup (IF my[t].op = "search" THEN {"scan"} ELSE {"choose"})
    BY <1>1, <1>6 DEF Collect, Goto, At
  <2> QED
    BY <1>2, <1>3, <2>1, <2>2 DEF StepsOf, Section, Walk
<1>7. CASE Choose(t)
  <2>1. Goes(t) /\ csLocks' = csLocks
    BY <1>1, <1>7 DEF Choose, Goes, Keeps, Goto, Local, Frame, shared, Fields
  <2>2. /\ pc[t] = "choose"
        /\ pc'[t] \in {"choose", "crashed"}
          \cup (IF my[t].op = "insert" THEN {"look"} ELSE {"find"})
    BY <1>1, <1>7 DEF Choose, Goto, At
  <2> QED
    BY <1>2, <1>3, <2>1, <2>2 DEF StepsOf, Section, Walk
<1>8. CASE Look(t)
  <2>1. Goes(t) /\ csLocks' = csLocks
    BY <1>1, <1>8 DEF Look, Goes, Keeps, Goto, Local, Frame, shared, Fields
  <2>2. /\ pc[t] = "look"
        /\ pc'[t] \in {"csunlock", "fetch", "shiftkeys"}
    BY <1>1, <1>8 DEF Look, Goto, At
  <2> QED
    BY <1>2, <1>3, <2>1, <2>2 DEF StepsOf, Section, Walk
<1>9. CASE Fetch(t)
  <2>1. Goes(t) /\ csLocks' = csLocks
    BY <1>1, <1>9 DEF Fetch, Goes, Keeps, Goto, Local, Frame, shared, Fields
  <2>2. /\ pc[t] = "fetch"
        /\ pc'[t] \in {"crashed", "emplace"}
    BY <1>1, <1>9 DEF Fetch, Goto, At
  <2> QED
    BY <1>2, <1>3, <2>1, <2>2 DEF StepsOf, Section, Walk
<1>10. CASE Emplace(t)
  <2>1. Goes(t) /\ csLocks' = csLocks
    BY <1>1, <1>10 DEF Emplace, Goes, Keeps, Goto, Local, Frame, shared, Fields
  <2>2. /\ pc[t] = "emplace"
        /\ pc'[t] \in {"move", "take"}
    BY <1>1, <1>10 DEF Emplace, Goto, At
  <2> QED
    BY <1>2, <1>3, <2>1, <2>2 DEF StepsOf, Section, Walk
<1>11. CASE Take(t)
  <2>1. Goes(t) /\ csLocks' = csLocks
    BY <1>1, <1>11 DEF Take, Goes, Keeps, Goto, Local, Frame, shared, Fields
  <2>2. /\ pc[t] = "take"
        /\ pc'[t] = "bump"
    BY <1>1, <1>11 DEF Take, Goto, At
  <2> QED
    BY <1>2, <1>3, <2>1, <2>2 DEF StepsOf, Section, Walk
<1>12. CASE Bump(t)
  <2>1. Goes(t) /\ csLocks' = csLocks
    BY <1>1, <1>12 DEF Bump, Goes, Keeps, Goto, Local, Frame, shared, Fields
  <2>2. /\ pc[t] = "bump"
        /\ pc'[t] = "link"
    BY <1>1, <1>12 DEF Bump, Goto, At
  <2> QED
    BY <1>2, <1>3, <2>1, <2>2 DEF StepsOf, Section, Walk
<1>13. CASE Link(t)
  <2>1. Goes(t) /\ csLocks' = csLocks
    BY <1>1, <1>13 DEF Link, Goes, Keeps, Goto, Local, Frame, shared, Fields
  <2>2. /\ pc[t] = "link"
        /\ pc'[t] = "fill"
    BY <1>1, <1>13 DEF Link, Goto, At
  <2> QED
    BY <1>2, <1>3, <2>1, <2>2 DEF StepsOf, Section, Walk
<1>14. CASE Fill(t)
  <2>1. Goes(t) /\ csLocks' = csLocks
    BY <1>1, <1>14 DEF Fill, Goes, Keeps, Goto, Local, Frame, shared, Fields
  <2>2. /\ pc[t] = "fill"
        /\ pc'[t] \in {"move", "crashed"}
    BY <1>1, <1>14 DEF Fill, Goto, At
  <2> QED
    BY <1>2, <1>3, <2>1, <2>2 DEF StepsOf, Section, Walk
<1>15. CASE Move(t)
  <2>1. Goes(t) /\ csLocks' = csLocks
    BY <1>1, <1>15 DEF Move, Goes, Keeps, Goto, Local, Frame, shared, Fields
  <2>2. /\ pc[t] = "move"
        /\ pc'[t] = "shiftkeys"
    BY <1>1, <1>15 DEF Move, Goto, At
  <2> QED
    BY <1>2, <1>3, <2>1, <2>2 DEF StepsOf, Section, Walk
<1>16. CASE ShiftKeys(t)
  <2>1. Goes(t) /\ csLocks' = csLocks
    BY <1>1, <1>16 DEF ShiftKeys, Goes, Keeps, Goto, Local, Frame, shared, Fields
  <2>2. /\ pc[t] = "shiftkeys"
        /\ pc'[t] \in {"csunlock", "shiftvals"}
    BY <1>1, <1>16 DEF ShiftKeys, Goto, At
  <2> QED
    BY <1>2, <1>3, <2>1, <2>2 DEF StepsOf, Section, Walk
<1>17. CASE ShiftVals(t)
  <2>1. Goes(t) /\ csLocks' = csLocks
    BY <1>1, <1>17 DEF ShiftVals, Goes, Keeps, Goto, Local, Frame, shared, Fields
  <2>2. /\ pc[t] = "shiftvals"
        /\ pc'[t] = "putkey"
    BY <1>1, <1>17 DEF ShiftVals, Goto, At
  <2> QED
    BY <1>2, <1>3, <2>1, <2>2 DEF StepsOf, Section, Walk
<1>18. CASE PutKey(t)
  <2>1. Goes(t) /\ csLocks' = csLocks
    BY <1>1, <1>18 DEF PutKey, Goes, Keeps, Goto, Local, Frame, shared, Fields
  <2>2. /\ pc[t] = "putkey"
        /\ pc'[t] = "putval"
    BY <1>1, <1>18 DEF PutKey, Goto, At
  <2> QED
    BY <1>2, <1>3, <2>1, <2>2 DEF StepsOf, Section, Walk
<1>19. CASE PutVal(t)
  <2>1. Goes(t) /\ csLocks' = csLocks
    BY <1>1, <1>19 DEF PutVal, Goes, Keeps, Goto, Local, Frame, shared, Fields
  <2>2. /\ pc[t] = "putval"
        /\ pc'[t] = (IF my[t].op = "insert" THEN "csunlock" ELSE "clearlock")
    BY <1>1, <1>19 DEF PutVal, Goto, At
  <2> QED
    BY <1>2, <1>3, <2>1, <2>2 DEF StepsOf, Section, Walk
<1>20. CASE Find(t)
  <2>1. Goes(t) /\ csLocks' = csLocks
    BY <1>1, <1>20 DEF Find, Goes, Keeps, Goto, Local, Frame, shared, Fields
  <2>2. /\ pc[t] = "find"
        /\ pc'[t] \in (IF my[t].op = "update" THEN {"putval", "clearlock"}
                                                 ELSE {"dropkey", "unlink"})
    BY <1>1, <1>20 DEF Find, Goto, At
  <2> QED
    BY <1>2, <1>3, <2>1, <2>2 DEF StepsOf, Section, Walk
<1>21. CASE DropKey(t)
  <2>1. Goes(t) /\ csLocks' = csLocks
    BY <1>1, <1>21 DEF DropKey, Goes, Keeps, Goto, Local, Frame, shared, Fields
  <2>2. /\ pc[t] = "dropkey"
        /\ pc'[t] \in {"dropkey", "dropval"}
    BY <1>1, <1>21 DEF DropKey, Goto, At
  <2> QED
    BY <1>2, <1>3, <2>1, <2>2 DEF StepsOf, Section, Walk
<1>22. CASE DropVal(t)
  <2>1. Goes(t) /\ csLocks' = csLocks
    BY <1>1, <1>22 DEF DropVal, Goes, Keeps, Goto, Local, Frame, shared, Fields
  <2>2. /\ pc[t] = "dropval"
        /\ pc'[t] \in {"dropval", "droplast"}
    BY <1>1, <1>22 DEF DropVal, Goto, At
  <2> QED
    BY <1>2, <1>3, <2>1, <2>2 DEF StepsOf, Section, Walk
<1>23. CASE DropLast(t)
  <2>1. Goes(t) /\ csLocks' = csLocks
    BY <1>1, <1>23 DEF DropLast, Goes, Keeps, Goto, Local, Frame, shared, Fields
  <2>2. /\ pc[t] = "droplast"
        /\ pc'[t] = "unlink"
    BY <1>1, <1>23 DEF DropLast, Goto, At
  <2> QED
    BY <1>2, <1>3, <2>1, <2>2 DEF StepsOf, Section, Walk
<1>24. CASE Unlink(t)
  <2>1. Goes(t) /\ csLocks' = csLocks
    BY <1>1, <1>24 DEF Unlink, Goes, Keeps, Goto, Local, Frame, shared, Fields
  <2>2. /\ pc[t] = "unlink"
        /\ pc'[t] = "clearlock"
    BY <1>1, <1>24 DEF Unlink, Goto, At
  <2> QED
    BY <1>2, <1>3, <2>1, <2>2 DEF StepsOf, Section, Walk
<1>25. CASE Base(t)
  <2>1. Goes(t) /\ csLocks' = csLocks
    BY <1>1, <1>25 DEF Base, See, Missing, Goes, Keeps, Goto, Local, Frame, shared, Fields
  <2>2. /\ pc[t] = "base"
        /\ pc'[t] \in {"probe", "first"}
    BY <1>1, <1>25 DEF Base, See, Missing, Goto, At
  <2> QED
    BY <1>2, <1>3, <2>1, <2>2 DEF StepsOf, Section, Walk
<1>26. CASE Scan(t)
  <2>1. Goes(t) /\ csLocks' = csLocks
    BY <1>1, <1>26 DEF Scan, See, Missing, Goes, Keeps, Goto, Local, Frame, shared, Fields
  <2>2. /\ pc[t] = "scan"
        /\ pc'[t] \in {"notfound", "crashed", "probe", "first", "scan"}
    BY <1>1, <1>26 DEF Scan, See, Missing, Goto, At
  <2> QED
    BY <1>2, <1>3, <2>1, <2>2 DEF StepsOf, Section, Walk
<1>27. CASE Probe(t)
  <2>1. Goes(t) /\ csLocks' = csLocks
    BY <1>1, <1>27 DEF Probe, Missing, Goes, Keeps, Goto, Local, Frame, shared, Fields
  <2>2. /\ pc[t] = "probe"
        /\ pc'[t] \in {"probe", "seeval", "first", "scan"}
    BY <1>1, <1>27 DEF Probe, Missing, Goto, At
  <2> QED
    BY <1>2, <1>3, <2>1, <2>2 DEF StepsOf, Section, Walk
<1>28. CASE SeeVal(t)
  <2>1. Goes(t) /\ csLocks' = csLocks
    BY <1>1, <1>28 DEF SeeVal, Goes, Keeps, Goto, Local, Frame, shared, Fields
  <2>2. /\ pc[t] = "seeval"
        /\ pc'[t] = "found"
    BY <1>1, <1>28 DEF SeeVal, Goto, At
  <2> QED
    BY <1>2, <1>3, <2>1, <2>2 DEF StepsOf, Section, Walk
<1> QED
  BY <1>4, <1>5, <1>6, <1>7, <1>8, <1>9, <1>10, <1>11, <1>12, <1>13, <1>14, <1>15,
     <1>16, <1>17, <1>18, <1>19, <1>20, <1>21, <1>22, <1>23, <1>24, <1>25, <1>26,
     <1>27, <1>28 DEF Plain
-----------------------------------------------------------------------------
\* A step of thread t keeps LockInv if it does so for t and the locks.
LEMMA LockKept ==
  ASSUME LockInv, NEW t \in Threads, Keeps(t), load' = load, DOMAIN csLocks' = DOMAIN csLocks,
         my'[t].op \in {"none", "insert", "search", "update", "remove"},
         pc'[t] \in StepsOf(my'[t].op), my'[t].op # "none" => InWindow(t)',
         \A u \in Threads \ {t} : Inside(u) => csLocks'[my[u].i] = TRUE,
         Inside(t)' => /\ csLocks'[my'[t].i] = TRUE
                       /\ \A u \in Threads \ {t} : Inside(u) => my[u].i # my'[t].i
  PROVE  LockInv'
<1>1. Entries' = Entries /\ Load' = Load
  BY DEF Entries, Chains, Load
<1>2. \A u \in Threads \ {t} : (Inside(u)' <=> Inside(u)) /\ (InWindow(u)' <=> InWindow(u))
  BY <1>1 DEF Keeps, Inside, InWindow
<1>3. /\ load' \in DOMAIN Loads /\ DOMAIN pc' = Threads /\ DOMAIN my' = Threads
      /\ \A u \in Threads : DOMAIN my'[u] = Fields
      /\ DOMAIN csLocks' = Entries'
  BY <1>1 DEF LockInv, Keeps
<1>4. ASSUME NEW u \in Threads
      PROVE  /\ my'[u].op \in {"none", "insert", "search", "update", "remove"}
             /\ pc'[u] \in StepsOf(my'[u].op)
             /\ my'[u].op # "none" => InWindow(u)'
  BY <1>2 DEF LockInv, Keeps
<1>5. ASSUME NEW u \in Threads, Inside(u)' PROVE csLocks'[my'[u].i] = TRUE
  BY <1>2, <1>5 DEF Keeps
<1>6. InsertsExclude'
  BY <1>2 DEF InsertsExclude, LockInv, Keeps
<1> QED
  BY <1>3, <1>4, <1>5, <1>6 DEF LockInv

LEMMA LockInit == Init => LockInv
<1> SUFFICES ASSUME Init PROVE LockInv
  OBVIOUS
<1>1. \A t \in Threads : pc[t] = "idle" /\ my[t] = Idle
  BY DEF Init
<1>2. \A t \in Threads : /\ DOMAIN my[t] = Fields /\ my[t].op = "none" /\ pc[t] \in StepsOf("none")
                         /\ ~ Inside(t)
  BY <1>1 DEF Idle, Fields, StepsOf, Inside
<1> QED
  BY <1>2 DEF Init, LockInv, InsertsExclude

\* A call that returns has the lock no more.
LEMMA LockReturn ==
  ASSUME LockInv, NEW t \in Threads, NEW ok, Return(t, ok), DOMAIN csLocks' = DOMAIN csLocks,
         \A u \in Threads \ {t} : Inside(u) => csLocks'[my[u].i] = TRUE
  PROVE  LockInv'
<1>1. /\ DOMAIN pc = Threads /\ DOMAIN my = Threads
  BY DEF LockInv
<1>2. /\ Keeps(t) /\ load' = load
      /\ my'[t].op = "none" /\ pc'[t] = "idle"
  BY <1>1 DEF Return, Goto, Keeps, Idle, Fields
<1>3. my'[t].op \in {"none", "insert"} /\ pc'[t] \in StepsOf(my'[t].op) /\ ~ Inside(t)'
  BY <1>2 DEF StepsOf, Inside
<1> QED
  BY <1>2, <1>3, LockKept

LEMMA LockStep == LockInv /\ [Next]_vars => LockInv'
<1> SUFFICES ASSUME LockInv, [Next]_vars PROVE LockInv'
  OBVIOUS
<1>1. CASE UNCHANGED vars
  BY <1>1 DEF vars, shared, LockInv, InsertsExclude, Inside, InWindow, Entries, Chains, Load
<1>2. ASSUME NEW t \in Threads, Plain(t) PROVE LockInv'
  <2>1. /\ Goes(t) /\ csLocks' = csLocks /\ my[t].op # "none"
        /\ pc'[t] \in StepsOf(my[t].op)
        /\ my[t].op = "insert" => (pc'[t] \in Section <=> pc[t] \in Section)
    BY <1>2, PlainGoes
  <2>2. InWindow(t)' <=> InWindow(t)
    BY <2>1 DEF InWindow, Goes, Load
  <2>3. Inside(t)' <=> Inside(t)
    BY <2>1 DEF Inside, Goes
  <2>4. InWindow(t) /\ my[t].op \in {"none", "insert", "search", "update", "remove"}
    BY <2>1 DEF LockInv
  <2>5. \A u \in Threads \ {t} : Inside(u) => csLocks'[my[u].i] = TRUE
    BY <2>1 DEF LockInv
  <2>6. Inside(t)' => /\ csLocks'[my'[t].i] = TRUE
                      /\ \A u \in Threads \ {t} : Inside(u) => my[u].i # my'[t].i
    BY <2>1, <2>3 DEF LockInv, InsertsExclude, Goes
  <2> QED
    BY <2>1, <2>2, <2>4, <2>5, <2>6, LockKept DEF Goes
<1>3. ASSUME NEW t \in Threads, NEW op \in Load.ops[t], NEW k \in Load.targets[t], Begin(t, op, k)
      PROVE  LockInv'
  <2>1. /\ DOMAIN pc = Threads /\ DOMAIN my = Threads /\ load \in DOMAIN Loads
    BY DEF LockInv
  <2>2. /\ Keeps(t) /\ load' = load /\ csLocks' = csLocks
        /\ my'[t].op = op /\ my'[t].key = k /\ my'[t].i = Load.hi[k]
    BY <1>3, <2>1 DEF Begin, Goto, Keeps, Idle, Fields, shared
  <2>3. op \in {"insert", "search", "update", "remove"}
    BY <2>1, ConcAssumption DEF Load
  <2>4. pc'[t] = "route" /\ pc'[t] \in StepsOf(op) /\ pc'[t] \notin Section
    BY <1>3, <2>1, <2>3 DEF Begin, Goto, StepsOf, Section
  <2>5. InWindow(t)'
    <3>1. k \in Keys
      BY <2>1, StartedWindow
    <3>2. Load.lo[k] \in Int /\ Load.hi[k] \in Int /\ Load.lo[k] <= Load.hi[k]
      BY <2>1, <3>1, StartedWindow
    <3>3. Load' = Load
      BY <2>2 DEF Load
    <3> QED
      BY <2>2, <3>1, <3>2, <3>3 DEF InWindow
  <2>6. ~ Inside(t)'
    BY <2>4 DEF Inside
  <2>7. \A u \in Threads \ {t} : Inside(u) => csLocks'[my[u].i] = TRUE
    BY <2>2 DEF LockInv
  <2> QED
    BY <2>2, <2>3, <2>4, <2>5, <2>6, <2>7, LockKept
<1>4. ASSUME NEW t \in Threads, Route(t) PROVE LockInv'
  <2>1. /\ DOMAIN pc = Threads /\ DOMAIN my = Threads /\ DOMAIN my[t] = Fields
        /\ load \in DOMAIN Loads
    BY DEF LockInv
  <2>2. /\ Keeps(t) /\ load' = load /\ csLocks' = csLocks
        /\ my'[t].op = my[t].op /\ my'[t].key = my[t].key
    BY <1>4, <2>1 DEF Route, Goto, Local, Keeps, Frame, Fields, shared
  <2>3. /\ pc[t] = "route"
        /\ \/ my'[t].i = my[t].i
           \/ my[t].i # Load.lo[my[t].key] /\ my'[t].i = my[t].i - 1
    <3>1. CASE my' = my
      BY <1>4, <3>1 DEF Route, At
    <3>2. CASE my' # my
      BY <1>4, <2>1, <3>2 DEF Route, Local, At, Fields
    <3> QED
      BY <3>1, <3>2
  <2>4. my[t].op \in {"insert", "search", "update", "remove"} /\ InWindow(t)
    BY <2>3 DEF LockInv, StepsOf
  <2>5. pc'[t] \in {"route"} \cup (CASE my[t].op = "insert" -> {"test"}
                                     [] my[t].op = "search" -> {"base"}
                                     [] OTHER -> {"seelock"})
    BY <1>4, <2>1, <2>3 DEF Route, Goto
  <2>6. pc'[t] \in StepsOf(my'[t].op) /\ ~ Inside(t)'
    BY <2>2, <2>4, <2>5 DEF StepsOf, Section, Inside
  <2>7. InWindow(t)'
    <3>1. Load' = Load
      BY <2>2 DEF Load
    <3>2. /\ my[t].key \in Keys /\ my[t].i \in Int
          /\ Load.lo[my[t].key] \in Int /\ Load.hi[my[t].key] \in Int
          /\ my[t].i >= Load.lo[my[t].key] /\ my[t].i <= Load.hi[my[t].key]
      BY <2>1, <2>4, StartedWindow DEF InWindow
    <3> QED
      BY <2>2, <2>3, <3>1, <3>2 DEF InWindow
  <2>8. \A u \in Threads \ {t} : Inside(u) => csLocks'[my[u].i] = TRUE
    BY <2>2 DEF LockInv
  <2> QED
    BY <2>2, <2>4, <2>6, <2>7, <2>8, LockKept
<1>5. ASSUME NEW t \in Threads, Test(t), pc'[t] = "idle" PROVE LockInv'
  <2>1. Return(t, FALSE) /\ csLocks' = csLocks
    BY <1>5 DEF Test, Goto, shared, LockInv
  <2>2. \A u \in Threads \ {t} : Inside(u) => csLocks'[my[u].i] = TRUE
    BY <2>1 DEF LockInv
  <2> QED
    BY <2>1, <2>2, LockReturn
<1>6. ASSUME NEW t \in Threads, CsLock(t) PROVE LockInv'
  <2>1. /\ DOMAIN pc = Threads /\ DOMAIN my = Threads /\ DOMAIN my[t] = Fields
        /\ load \in DOMAIN Loads /\ DOMAIN csLocks = Entries
    BY DEF LockInv
  <2>2. /\ Goes(t) /\ pc[t] = "cslock" /\ pc'[t] = "first" /\ ~ csLocks[my[t].i]
        /\ csLocks' = [csLocks EXCEPT ![my[t].i] = TRUE]
    BY <1>6, <2>1 DEF CsLock, Goto, Goes, Keeps, Frame, At
  <2>3. my[t].op = "insert" /\ InWindow(t)
    BY <2>2 DEF LockInv, StepsOf, Section, Walk
  <2>4. InWindow(t)'
    BY <2>2, <2>3 DEF InWindow, Goes, Load
  <2>5. my[t].i \in Entries
    BY <2>1, <2>3, StartedWindow DEF InWindow
  <2>6. \A u \in Threads : Inside(u) => csLocks[my[u].i] = TRUE /\ my[u].i # my[t].i
    BY <2>2 DEF LockInv
  <2>7. csLocks'[my'[t].i] = TRUE /\ \A u \in Threads \ {t} : Inside(u) => csLocks'[my[u].i] = TRUE
    BY <2>1, <2>2, <2>5, <2>6 DEF Goes
  <2>8. pc'[t] \in StepsOf(my'[t].op)
    BY <2>2, <2>3 DEF StepsOf, Section, Goes
  <2> QED
    BY <2>1, <2>2, <2>3, <2>4, <2>6, <2>7, <2>8, LockKept DEF Goes
<1>7. ASSUME NEW t \in Threads, CsUnlock(t) PROVE LockInv'
  <2>1. /\ Return(t, my[t].ok) /\ pc[t] = "csunlock"
        /\ csLocks' = [csLocks EXCEPT ![my[t].i] = FALSE]
    BY <1>7 DEF CsUnlock, At
  <2>2. Inside(t)
    BY <2>1 DEF LockInv, StepsOf, Section, Walk, Inside
  <2>3. \A u \in Threads \ {t} : Inside(u) => my[u].i # my[t].i /\ csLocks[my[u].i] = TRUE
    BY <2>2 DEF LockInv, InsertsExclude
  <2>4. \A u \in Threads \ {t} : Inside(u) => csLocks'[my[u].i] = TRUE
    BY <2>1, <2>3 DEF LockInv
  <2> QED
    BY <2>1, <2>4, LockReturn
<1>8. ASSUME NEW t \in Threads, SeeLock(t) \/ SetLock(t) PROVE LockInv'
  <2>1. /\ DOMAIN pc = Threads /\ DOMAIN my = Threads /\ DOMAIN my[t] = Fields
    BY DEF LockInv
  <2>2. /\ Goes(t) /\ csLocks' = csLocks
        /\ \/ pc[t] = "seelock" /\ pc'[t] = "setlock"
           \/ pc[t] = "setlock" /\ pc'[t] = "first"
    <3>1. CASE SeeLock(t)
      BY <2>1, <3>1 DEF SeeLock, Goto, Goes, Keeps, Frame, At, shared
    <3>2. CASE SetLock(t)
      BY <2>1, <3>2 DEF SetLock, Goto, Goes, Keeps, At
    <3> QED
      BY <1>8, <3>1, <3>2
  <2>3. my[t].op \in {"update", "remove"} /\ InWindow(t)
    BY <2>2 DEF LockInv, StepsOf, Section, Walk
  <2>4. InWindow(t)' /\ ~ Inside(t)' /\ pc'[t] \in StepsOf(my'[t].op)
    BY <2>2, <2>3 DEF InWindow, Goes, Load, Inside, StepsOf, Walk
  <2>5. \A u \in Threads \ {t} : Inside(u) => csLocks'[my[u].i] = TRUE
    BY <2>2 DEF LockInv
  <2> QED
    BY <2>2, <2>3, <2>4, <2>5, LockKept DEF Goes
<1>9. ASSUME NEW t \in Threads, ClearLock(t) \/ Answer(t) PROVE LockInv'
  <2>1. csLocks' = csLocks /\ (Return(t, my[t].ok) \/ Return(t, pc[t] = "found"))
    <3>1. CASE ClearLock(t)
      BY <3>1 DEF ClearLock
    <3>2. CASE Answer(t)
      BY <3>2 DEF Answer, shared
    <3> QED
      BY <1>9, <3>1, <3>2
  <2>2. \A u \in Threads \ {t} : Inside(u) => csLocks'[my[u].i] = TRUE
    BY <2>1 DEF LockInv
  <2> QED
    BY <2>1, <2>2, LockReturn
<1> QED
  BY <1>1, <1>2, <1>3, <1>4, <1>5, <1>6, <1>7, <1>8, <1>9 DEF Next, Step, Plain

\* csLocks keeps inserts into one entry apart: whatever the load and however many
\* threads, one of them at most is between the lock and the unlock.
THEOREM OneInsertPerEntry == Spec => []InsertsExclude
<1>1. LockInv => InsertsExclude
  BY DEF LockInv
<1> QED
  BY <1>1, LockInit, LockStep, PTL DEF Spec
-----------------------------------------------------------------------------
(***************************************************************************)
(* Inserts into a table of one entry, with searches beside them. Its       *)
(* synonym slots are all in the one chain; slot s has leaf s, the entry    *)
(* leaf 0, so that a number 0 .. n-1 names a slot and its leaf at once.    *)
(***************************************************************************)
OneEntryLoad == Entries = {0} /\ \A t \in Threads : Load.ops[t] \subseteq {"insert", "search"}

link(s) == IF s = 0 THEN table[0].synonym_leaf ELSE syn[s].synonym_leaf

\* c[p] is the slot in place p of the chain.
Order(n, c) ==
  /\ n \in Nat /\ 0 < n /\ n < SynonymMax /\ n <= Pool
  /\ c \in [0 .. n - 1 -> 0 .. n - 1] /\ c[0] = 0
  /\ \A p, q \in 0 .. n - 1 : c[p] = c[q] => p = q
  /\ \A s \in 0 .. n - 1 : \E p \in 0 .. n - 1 : c[p] = s

Succ(n, c, p) == IF p = n - 1 THEN 0 ELSE c[p + 1]

KeyArrays == [0 .. Pool - 1 -> [Slots -> 0 .. InvalidKey]]

has(K, k) == \E l \in 0 .. Pool - 1 : \E x \in Slots : K[l][x] = k

SortedKeys(ks) == \A x, y \in Slots : x < y => ks[x] < ks[y] \/ ks[y] = InvalidKey

\* In a chain the keys of one leaf are below those of the next ones.
Rising(n, c, K) ==
  \A p, q \in 0 .. n - 1 : p < q =>
    \A x, y \in Slots : K[c[p]][x] # InvalidKey /\ K[c[q]][y] # InvalidKey
                          => K[c[p]][x] < K[c[q]][y]

\* The keys K and the values V of all leaves, the chain of n leaves being c
Leaves(n, c, K, V) ==
  /\ K \in KeyArrays /\ V \in KeyArrays
  /\ \A l \in 0 .. Pool - 1 : SortedKeys(K[l])
  /\ \A l \in n .. Pool - 1 : \A x \in Slots : K[l][x] = InvalidKey
  /\ Rising(n, c, K)
  /\ \A l \in 0 .. Pool - 1 : \A x \in Slots : K[l][x] # InvalidKey => V[l][x] = K[l][x]

\* Place p is the one where key k goes.
Chosen(n, c, K, p, k) ==
  /\ p \in 0 .. n - 1
  /\ p = 0 \/ K[c[p]][0] <= k
  /\ \A q \in p + 1 .. n - 1 : k < K[c[q]][0]

Storing == {"shiftvals", "putkey", "putval"}
Drawn == {"emplace", "take", "bump", "link", "fill"}
Splits == {"fetch", "move"} \cup Drawn

\* The shared memory is (n, c, K, V), but for what a split or a shift under way has
\* done so far.
Shows(n, c, K, V) ==
  /\ (\A t \in Threads : pc[t] \notin {"link", "fill"}) => next = n
  /\ (\A t \in Threads : pc[t] \notin Drawn) => used = n
  /\ (\A t \in Threads : pc[t] # "fill") => \A p \in 0 .. n - 1 : link(c[p]) = Succ(n, c, p)
  /\ (\A t \in Threads : pc[t] \notin Storing) => keys = K /\ vals = V
  /\ \A s \in 1 .. n - 1 : syn[s].leaf_num = s

\* What the insert in the section knows, and has done to the memory, at each step
Walks(t, n, c, K) ==
  LET m == my[t]
      size == Len(m.chain)
  IN  /\ pc[t] \in {"collect", "choose"} => \A q \in 1 .. size : m.chain[q] = c[q]
      /\ pc[t] = "collect" => size <= n - 1 /\ m.s = Succ(n, c, size)
      /\ pc[t] = "choose" => /\ size = n - 1 /\ m.p \in 0 .. n - 1
                             /\ \A q \in m.p + 1 .. n - 1 : m.key < K[c[q]][0]
      /\ pc[t] \in {"look"} \cup Splits =>
           Chosen(n, c, K, m.p, m.key) /\ m.cur = c[m.p] /\ m.idx = c[m.p]
      /\ pc[t] # "looping"
      /\ pc[t] = "crashed" => n = Pool /\ n < SynonymMax - 1

SplitsOff(t, n, c, K) ==
  LET m == my[t]
  IN  /\ pc[t] \in {"shiftkeys"} \cup Splits => ~ has(K, m.key) /\ m.ok = TRUE
      /\ pc[t] \in Splits => K[m.cur][N - 1] # InvalidKey
      /\ pc[t] \in {"fetch"} \cup Drawn => n < SynonymMax - 1
      /\ pc[t] \in Drawn => m.new = n /\ used = n + 1 /\ n < Pool
      /\ pc[t] \in {"bump", "link", "fill"} => m.s = n
      /\ pc[t] \in {"link", "fill"} => next = n + 1
      /\ pc[t] = "fill" =>
           /\ m.at = Succ(n, c, m.p)
           /\ \A p \in 0 .. n - 1 : link(c[p]) = IF p = m.p THEN n ELSE Succ(n, c, p)
      /\ pc[t] = "move" => /\ m.p + 1 < n /\ m.new = c[m.p + 1]
                           /\ \A x \in Slots : K[m.new][x] = InvalidKey

Stores(t, n, c, K, V) ==
  LET m == my[t]
  IN  /\ pc[t] = "shiftkeys" =>
           /\ \E p \in 0 .. n - 1 : Chosen(n, c, K, p, m.key) /\ m.cur = c[p]
           /\ K[m.cur][N - 1] = InvalidKey
      /\ pc[t] \in Storing =>
           /\ m.cur \in 0 .. n - 1 /\ m.at \in Slots /\ m.s \in Slots /\ m.ok = TRUE
           /\ keys \in KeyArrays /\ K = [keys EXCEPT ![m.cur][m.at] = m.key]
           /\ vals \in KeyArrays
      /\ pc[t] = "shiftvals" =>
           V = [vals EXCEPT ![m.cur] = [ShiftUp(@, m.at, m.s) EXCEPT ![m.at] = m.key]]
      /\ pc[t] \in {"putkey", "putval"} => V = [vals EXCEPT ![m.cur][m.at] = m.key]
      /\ pc[t] = "putval" => keys = K

\* The key of t's call is in a leaf, and the caller does not know it yet.
Added(t) == pc[t] \in Storing \/ (pc[t] = "csunlock" /\ my[t].ok)

Holds(K) ==
  \A k \in Keys : has(K, k) <=>
    k \in present \/ \E t \in Threads : Added(t) /\ my[t].key = k

\* The locals of every thread
LocalTypes(t) ==
  LET m == my[t]
  IN  /\ m.op \in {"none", "insert", "search"}
      /\ m.chain \in Seq(Indexes) /\ m.p \in 0 .. Len(m.chain)
      /\ m.cur \in 0 .. Pool - 1 /\ m.ok \in BOOLEAN
      /\ pc[t] \in {"idle", "route", "test", "cslock", "base", "first"} => m.chain = <<>>
      /\ pc[t] = "probe" => IF m.idx = 0 THEN m.chain = <<>> ELSE m.p > 0

SharedTypes ==
  /\ DOMAIN table = {0}
  /\ table[0] \in [leaf_num : {0}, synonym_leaf : 0 .. SynonymMax, lock : {0}]
  /\ syn \in [Indexes -> [leaf_num : 0 .. Pool + 1, synonym_leaf : 0 .. SynonymMax]]
  /\ next \in Nat /\ used \in 1 .. Pool

\* The insert that has the lock, and the memory
InsertAt(t, n, c, K, V) ==
  Walks(t, n, c, K) /\ SplitsOff(t, n, c, K) /\ Stores(t, n, c, K, V)

Memory(n, c, K, V) ==
  /\ Order(n, c) /\ Leaves(n, c, K, V) /\ Shows(n, c, K, V) /\ Holds(K)
  /\ \A t \in Threads : Inside(t) => InsertAt(t, n, c, K, V)

InsertInv ==
  /\ LockInv /\ SharedTypes
  /\ \A t \in Threads : LocalTypes(t)
  /\ \E n, c, K, V : Memory(n, c, K, V)
-----------------------------------------------------------------------------
\* The least-number principle
LEMMA LeastNumber ==
  ASSUME NEW S \in SUBSET Nat, S # {}
  PROVE  \E x \in S : \A y \in S : x <= y
<1>1. IsWellFoundedOn(OpToRel(<, Nat), Nat)
  BY NatLessThanWellFounded
<1>2. PICK x \in S : \A y \in S : ~ (<<y, x>> \in OpToRel(<, Nat))
  BY <1>1, WFMin
<1>3. \A y \in S : ~ (y < x)
  BY <1>2 DEF OpToRel
<1> QED
  BY <1>3

LEMMA LeastLemma ==
  ASSUME NEW S \in SUBSET Nat, S # {}
  PROVE  Least(S) \in S /\ \A y \in S : Least(S) <= y
BY LeastNumber DEF Least

\* The chain with slot n in place p + 1
Longer(n, c, p) ==
  [q \in 0 .. n |-> IF q <= p THEN c[q] ELSE IF q = p + 1 THEN n ELSE c[q - 1]]

\* Where place q of the chain is after that
Later(p, q) == IF q <= p THEN q ELSE q + 1

LEMMA LongerLemma ==
  ASSUME NEW n, NEW c, Order(n, c), NEW p \in 0 .. n - 1
  PROVE  LET d == Longer(n, c, p)
         IN  /\ d \in [0 .. n -> 0 .. n] /\ d[p] = c[p] /\ d[p + 1] = n
             /\ \A q \in 0 .. n - 1 : Later(p, q) \in 0 .. n /\ d[Later(p, q)] = c[q]
             /\ \A q \in 0 .. n : q # p + 1 => \E r \in 0 .. n - 1 : q = Later(p, r)
             /\ \A q, r \in 0 .. n - 1 : q < r <=> Later(p, q) < Later(p, r)
             /\ Succ(n + 1, d, p + 1) = Succ(n, c, p)
             /\ \A q \in 0 .. n - 1 :
                  Succ(n + 1, d, Later(p, q)) = IF q = p THEN n ELSE Succ(n, c, q)
<1> DEFINE d == Longer(n, c, p)
<1>1. n \in Nat /\ n > 0 /\ c \in [0 .. n - 1 -> 0 .. n - 1]
  BY DEF Order
<1>2. /\ DOMAIN d = 0 .. n
      /\ \A q \in 0 .. n : d[q] = IF q <= p THEN c[q] ELSE IF q = p + 1 THEN n ELSE c[q - 1]
  BY DEF Longer
<1>3. \A q \in 0 .. n : d[q] \in 0 .. n
  <2> SUFFICES ASSUME NEW q \in 0 .. n PROVE d[q] \in 0 .. n
    OBVIOUS
  <2>1. q <= p => q \in 0 .. n - 1
    BY <1>1
  <2>2. q > p + 1 => q - 1 \in 0 .. n - 1
    BY <1>1
  <2>3. /\ \A r \in 0 .. n - 1 : c[r] \in 0 .. n
        /\ n \in 0 .. n
    BY <1>1
  <2>4. q <= p \/ q = p + 1 \/ q > p + 1
    BY <1>1
  <2> QED
    BY <1>1, <1>2, <2>1, <2>2, <2>3, <2>4
<1>4. d \in [0 .. n -> 0 .. n]
  <2>1. d = [q \in 0 .. n |-> d[q]]
    BY DEF Longer
  <2> QED
    BY <1>3, <2>1
<1> HIDE DEF d
<1>5. d[p] = c[p] /\ d[p + 1] = n
  BY <1>1, <1>2
<1>6. ASSUME NEW q \in 0 .. n - 1 PROVE Later(p, q) \in 0 .. n /\ d[Later(p, q)] = c[q]
  BY <1>1, <1>2 DEF Later
<1>7. ASSUME NEW q \in 0 .. n, q # p + 1 PROVE \E r \in 0 .. n - 1 : q = Later(p, r)
  <2>1. CASE q <= p
    <3>1. q \in 0 .. n - 1 /\ Later(p, q) = q
      BY <1>1, <2>1 DEF Later
    <3> QED
      BY <3>1
  <2>2. CASE q > p + 1
    <3>1. q - 1 \in 0 .. n - 1 /\ Later(p, q - 1) = q
      BY <1>1, <2>2 DEF Later
    <3> QED
      BY <3>1
  <2> QED
    BY <1>1, <1>7, <2>1, <2>2
<1>8. \A q, r \in 0 .. n - 1 : q < r <=> Later(p, q) < Later(p, r)
  BY <1>1 DEF Later
<1>9. Succ(n + 1, d, p + 1) = Succ(n, c, p)
  <2>1. n + 1 - 1 = n /\ p + 1 \in 0 .. n
    BY <1>1
  <2>2. CASE p = n - 1
    BY <1>1, <2>1, <2>2 DEF Succ
  <2>3. CASE p < n - 1
    <3>1. d[p + 1 + 1] = c[p + 1]
      BY <1>1, <1>2, <2>3
    <3> QED
      BY <1>1, <2>1, <2>3, <3>1 DEF Succ
  <2> QED
    BY <1>1, <2>2, <2>3
<1>10. ASSUME NEW q \in 0 .. n - 1
       PROVE  Succ(n + 1, d, Later(p, q)) = IF q = p THEN n ELSE Succ(n, c, q)
  <2>1. n + 1 - 1 = n
    BY <1>1
  <2>2. CASE q = p
    BY <1>1, <1>5, <2>1, <2>2 DEF Succ, Later
  <2>3. CASE q < p
    <3>1. d[q + 1] = c[q + 1]
      BY <1>1, <1>2, <2>3
    <3> QED
      BY <1>1, <2>1, <2>3, <3>1 DEF Succ, Later
  <2>4. CASE q > p
    <3>1. Later(p, q) = q + 1
      BY <2>4 DEF Later
    <3>2. q < n - 1 => d[q + 1 + 1] = c[q + 1]
      BY <1>1, <1>2, <2>4
    <3>3. q # p /\ (q + 1 = n <=> q = n - 1) /\ (q # n - 1 => q < n - 1)
      BY <1>1, <2>4
    <3>4. Succ(n + 1, d, Later(p, q)) = IF q + 1 = n THEN 0 ELSE d[q + 1 + 1]
      <4> DEFINE r == q + 1
                 m == n + 1
      <4>1. m - 1 = n
        BY <1>1
      <4> HIDE DEF r, m
      <4>2. Succ(m, d, r) = IF r = n THEN 0 ELSE d[r + 1]
        BY <4>1 DEF Succ
      <4>3. Succ(m, d, Later(p, q)) = IF r = n THEN 0 ELSE d[r + 1]
        BY <3>1, <4>2 DEF r
      <4> QED
        BY <4>3 DEF r, m
    <3>5. Succ(n, c, q) = IF q = n - 1 THEN 0 ELSE c[q + 1]
      BY DEF Succ
    <3>6. CASE q = n - 1
      BY <3>3, <3>4, <3>5, <3>6
    <3>7. CASE q # n - 1
      BY <3>2, <3>3, <3>4, <3>5, <3>7
    <3> QED
      BY <3>6, <3>7
  <2> QED
    BY <2>2, <2>3, <2>4
<1> QED
  BY <1>4, <1>5, <1>6, <1>7, <1>8, <1>9, <1>10 DEF d

LEMMA LongerOrder ==
  ASSUME NEW n, NEW c, Order(n, c), n < SynonymMax - 1, n < Pool, NEW p \in 0 .. n - 1
  PROVE  Order(n + 1, Longer(n, c, p))
<1> DEFINE d == Longer(n, c, p)
<1>1. /\ n \in Nat /\ n > 0 /\ c \in [0 .. n - 1 -> 0 .. n - 1] /\ c[0] = 0
      /\ \A q, r \in 0 .. n - 1 : c[q] = c[r] => q = r
      /\ \A s \in 0 .. n - 1 : \E q \in 0 .. n - 1 : c[q] = s
  BY DEF Order
<1>2. /\ d \in [0 .. n -> 0 .. n] /\ d[p + 1] = n
      /\ \A q \in 0 .. n - 1 : Later(p, q) \in 0 .. n /\ d[Later(p, q)] = c[q]
      /\ \A q \in 0 .. n : q # p + 1 => \E r \in 0 .. n - 1 : q = Later(p, r)
  BY LongerLemma
<1> HIDE DEF d
<1>3. SynonymMax \in Nat /\ Pool \in Nat
  BY ConcAssumption, StartAssumption
<1>4. d[0] = 0
  <2>1. Later(p, 0) = 0
    BY <1>1 DEF Later
  <2> QED
    BY <1>1, <1>2, <2>1
<1>5. ASSUME NEW q \in 0 .. n, NEW r \in 0 .. n, d[q] = d[r] PROVE q = r
  <2>0. \A x \in 0 .. n - 1 : c[x] \in 0 .. n - 1 /\ c[x] # n
    BY <1>1
  <2>1. \A x \in 0 .. n - 1 : d[Later(p, x)] # n
    BY <1>2, <2>0
  <2>2. q = p + 1 <=> r = p + 1
    BY <1>2, <1>5, <2>1
  <2>3. CASE q # p + 1
    <3>1. PICK x \in 0 .. n - 1 : q = Later(p, x)
      BY <1>2, <2>3
    <3>2. PICK y \in 0 .. n - 1 : r = Later(p, y)
      BY <1>2, <2>2, <2>3
    <3>3. c[x] = c[y]
      BY <1>2, <1>5, <3>1, <3>2
    <3> QED
      BY <1>1, <3>1, <3>2, <3>3
  <2> QED
    BY <2>2, <2>3
<1>6. ASSUME NEW s \in 0 .. n PROVE \E q \in 0 .. n : d[q] = s
  <2>1. CASE s = n
    <3>1. p + 1 \in 0 .. n
      BY <1>1
    <3> QED
      BY <1>2, <2>1, <3>1
  <2>2. CASE s # n
    <3>1. s \in 0 .. n - 1
      BY <1>1, <2>2
    <3>2. PICK q \in 0 .. n - 1 : c[q] = s
      BY <1>1, <3>1
    <3> QED
      BY <1>2, <3>2
  <2> QED
    BY <2>1, <2>2
<1> DEFINE m == n + 1
<1>7. m \in Nat /\ 0 < m /\ m < SynonymMax /\ m <= Pool /\ m - 1 = n
  BY <1>1, <1>3
<1> HIDE DEF m
<1>8. Order(m, d)
  BY <1>2, <1>4, <1>5, <1>6, <1>7 DEF Order
<1> QED
  BY <1>8 DEF d, m

\* The new leaf has no key yet.
LEMMA LongerLeaves ==
  ASSUME NEW n, NEW c, NEW K, NEW V, Order(n, c), Leaves(n, c, K, V), n < Pool,
         NEW p, NEW k \in Keys, Chosen(n, c, K, p, k)
  PROVE  /\ Leaves(n + 1, Longer(n, c, p), K, V) /\ Chosen(n + 1, Longer(n, c, p), K, p, k)
         /\ \A x \in Slots : K[n][x] = InvalidKey
<1> DEFINE d == Longer(n, c, p)
           m == n + 1
<1>1. /\ n \in Nat /\ n > 0 /\ Pool \in Nat /\ InvalidKey \in Nat /\ p \in 0 .. n - 1
      /\ N \in Nat /\ N > 1 /\ 0 \in Slots /\ n \in 0 .. Pool - 1
  BY ConcAssumption, StartAssumption DEF Order, Chosen, Slots
<1>2. /\ d[p] = c[p] /\ d[p + 1] = n
      /\ \A q \in 0 .. n - 1 : Later(p, q) \in 0 .. n /\ d[Later(p, q)] = c[q]
      /\ \A q \in 0 .. n : q # p + 1 => \E r \in 0 .. n - 1 : q = Later(p, r)
      /\ \A q, r \in 0 .. n - 1 : q < r <=> Later(p, q) < Later(p, r)
  <2>1. p \in 0 .. n - 1
    BY <1>1
  <2> QED
    BY <2>1, LongerLemma
<1>3. m \in Nat /\ m - 1 = n /\ m > n
  BY <1>1
<1> HIDE DEF d, m
<1>4. \A x \in Slots : K[n][x] = InvalidKey
  BY <1>1 DEF Leaves
<1>5. Rising(m, d, K)
  <2> SUFFICES ASSUME NEW q \in 0 .. n, NEW r \in 0 .. n, q < r, NEW x \in Slots, NEW y \in Slots,
                      K[d[q]][x] # InvalidKey, K[d[r]][y] # InvalidKey
               PROVE  K[d[q]][x] < K[d[r]][y]
    BY <1>3 DEF Rising
  <2>1. q # p + 1 /\ r # p + 1
    BY <1>2, <1>4
  <2>2. PICK a \in 0 .. n - 1 : q = Later(p, a)
    BY <1>2, <2>1
  <2>3. PICK b \in 0 .. n - 1 : r = Later(p, b)
    BY <1>2, <2>1
  <2>4. a < b /\ d[q] = c[a] /\ d[r] = c[b]
    BY <1>2, <2>2, <2>3
  <2> QED
    BY <2>4 DEF Leaves, Rising
<1>6. \A l \in m .. Pool - 1 : \A x \in Slots : K[l][x] = InvalidKey
  BY <1>1, <1>3 DEF Leaves
<1>7. Leaves(m, d, K, V)
  BY <1>5, <1>6 DEF Leaves
<1>8. ASSUME NEW q \in p + 1 .. n PROVE k < K[d[q]][0]
  <2>1. CASE q = p + 1
    BY <1>1, <1>2, <1>4, <2>1 DEF Keys
  <2>2. CASE q # p + 1
    <3>1. q \in 0 .. n
      BY <1>1
    <3>2. PICK a \in 0 .. n - 1 : q = Later(p, a)
      BY <1>2, <2>2, <3>1
    <3>3. a \in p + 1 .. n - 1
      BY <1>1, <2>2, <3>2 DEF Later
    <3>4. d[q] = c[a]
      BY <1>2, <3>2
    <3> QED
      BY <3>3, <3>4 DEF Chosen
  <2> QED
    BY <2>1, <2>2
<1>9. Chosen(m, d, K, p, k)
  <2>1. p \in 0 .. m - 1
    BY <1>1, <1>3
  <2>2. p = 0 \/ K[d[p]][0] <= k
    BY <1>2 DEF Chosen
  <2>3. \A q \in p + 1 .. m - 1 : k < K[d[q]][0]
    BY <1>3, <1>8
  <2> QED
    BY <2>1, <2>2, <2>3 DEF Chosen
<1> QED
  BY <1>4, <1>7, <1>9 DEF d, m

\* A leaf's keys at most its last slot's
LEMMA RowOrder ==
  ASSUME NEW ks \in [Slots -> 0 .. InvalidKey], SortedKeys(ks)
  PROVE  /\ \A x \in Slots : ks[0] <= ks[x]
         /\ \A x, y \in Slots : x <= y /\ ks[x] = InvalidKey => ks[y] = InvalidKey
         /\ \A x, y \in Slots : ks[x] < ks[y] => x < y
<1>1. /\ N \in Nat /\ N > 1 /\ InvalidKey \in Nat /\ 0 \in Slots /\ Slots \subseteq Nat
      /\ \A x \in Slots : ks[x] \in Nat /\ ks[x] <= InvalidKey
  BY ConcAssumption DEF Slots
<1>2. \A x, y \in Slots : x < y => ks[x] < ks[y] \/ ks[y] = InvalidKey
  BY DEF SortedKeys
<1>3. \A x \in Slots : ks[0] <= ks[x]
  <2> SUFFICES ASSUME NEW x \in Slots PROVE ks[0] <= ks[x]
    OBVIOUS
  <2>1. x = 0 \/ 0 < x
    BY <1>1
  <2> QED
    BY <1>1, <1>2, <2>1
<1>4. ASSUME NEW x \in Slots, NEW y \in Slots, x <= y, ks[x] = InvalidKey PROVE ks[y] = InvalidKey
  <2>1. x = y \/ x < y
    BY <1>1, <1>4
  <2> QED
    BY <1>1, <1>2, <1>4, <2>1
<1>5. ASSUME NEW x \in Slots, NEW y \in Slots, ks[x] < ks[y] PROVE x < y
  <2>1. x < y \/ x = y \/ y < x
    BY <1>1
  <2> QED
    BY <1>1, <1>2, <1>5, <2>1
<1> QED
  BY <1>3, <1>4, <1>5

Half == N \div 2

\* What Move makes of the arrays: leaf b takes the upper half of leaf a.
MovedKeys(K, a, b) ==
  [K EXCEPT ![b] = [x \in Slots |-> IF x < Half THEN K[a][Half + x] ELSE K[b][x]],
            ![a] = [x \in Slots |-> IF Half <= x /\ x < 2 * Half THEN InvalidKey ELSE K[a][x]]]

MovedVals(V, a, b) ==
  [V EXCEPT ![b] = [x \in Slots |-> IF x < Half THEN V[a][Half + x] ELSE V[b][x]]]

\* With an even number of slots no key stays behind above the gap.
LEMMA MoveRows ==
  ASSUME NEW K \in KeyArrays, NEW V \in KeyArrays, N % 2 = 0,
         NEW a \in 0 .. Pool - 1, NEW b \in 0 .. Pool - 1, a # b,
         SortedKeys(K[a]), K[a][N - 1] # InvalidKey, \A x \in Slots : K[b][x] = InvalidKey
  PROVE  LET L == MovedKeys(K, a, b)
             W == MovedVals(V, a, b)
         IN  /\ L \in KeyArrays /\ W \in KeyArrays
             /\ \A l \in 0 .. Pool - 1 : l # a /\ l # b => L[l] = K[l] /\ W[l] = V[l]
             /\ Half \in Slots /\ 0 < Half /\ 2 * Half = N
             /\ \A x \in Slots : /\ L[a][x] = IF x < Half THEN K[a][x] ELSE InvalidKey
                                 /\ L[b][x] = IF x < Half THEN K[a][Half + x] ELSE InvalidKey
                                 /\ W[a][x] = V[a][x]
                                 /\ x < Half => Half + x \in Slots /\ W[b][x] = V[a][Half + x]
             /\ \A x \in Slots : K[a][x] # InvalidKey
             /\ SortedKeys(L[a]) /\ SortedKeys(L[b])
<1> DEFINE L == MovedKeys(K, a, b)
           W == MovedVals(V, a, b)
<1>1. /\ N \in Nat /\ N > 1 /\ InvalidKey \in Nat /\ Slots = 0 .. N - 1
      /\ Half \in Nat /\ 0 < Half /\ 2 * Half = N /\ Half \in Slots
  BY ConcAssumption DEF Slots, Half
<1>2. /\ K \in [0 .. Pool - 1 -> [Slots -> 0 .. InvalidKey]]
      /\ V \in [0 .. Pool - 1 -> [Slots -> 0 .. InvalidKey]]
  BY DEF KeyArrays
<1>3. \A x \in Slots : x < Half => Half + x \in Slots
  BY <1>1
<1> HIDE DEF Half
<1>4. [x \in Slots |-> IF x < Half THEN K[a][Half + x] ELSE K[b][x]] \in [Slots -> 0 .. InvalidKey]
  BY <1>2, <1>3
<1>5. [x \in Slots |-> IF Half <= x /\ x < 2 * Half THEN InvalidKey ELSE K[a][x]]
        \in [Slots -> 0 .. InvalidKey]
  BY <1>1, <1>2
<1>6. [x \in Slots |-> IF x < Half THEN V[a][Half + x] ELSE V[b][x]] \in [Slots -> 0 .. InvalidKey]
  BY <1>2, <1>3
<1>7. L \in KeyArrays /\ W \in KeyArrays
  BY <1>2, <1>4, <1>5, <1>6 DEF MovedKeys, MovedVals, KeyArrays
<1>8. \A l \in 0 .. Pool - 1 : l # a /\ l # b => L[l] = K[l] /\ W[l] = V[l]
  BY <1>2 DEF MovedKeys, MovedVals
<1>9. /\ L[a] = [x \in Slots |-> IF Half <= x /\ x < 2 * Half THEN InvalidKey ELSE K[a][x]]
      /\ L[b] = [x \in Slots |-> IF x < Half THEN K[a][Half + x] ELSE K[b][x]]
      /\ W[a] = V[a]
      /\ W[b] = [x \in Slots |-> IF x < Half THEN V[a][Half + x] ELSE V[b][x]]
  BY <1>2 DEF MovedKeys, MovedVals
<1> HIDE DEF L, W
<1>10. ASSUME NEW x \in Slots
       PROVE  /\ L[a][x] = IF x < Half THEN K[a][x] ELSE InvalidKey
              /\ L[b][x] = IF x < Half THEN K[a][Half + x] ELSE InvalidKey
              /\ W[a][x] = V[a][x]
              /\ x < Half => Half + x \in Slots /\ W[b][x] = V[a][Half + x]
  BY <1>1, <1>3, <1>9
<1>11. ASSUME NEW x \in Slots PROVE K[a][x] # InvalidKey
  <2>1. N - 1 \in Slots /\ x <= N - 1
    BY <1>1
  <2> QED
    BY <1>2, <2>1, RowOrder
<1>12. \A x, y \in Slots : x < y => K[a][x] < K[a][y]
  BY <1>11 DEF SortedKeys
<1>13. SortedKeys(L[a])
  BY <1>1, <1>10, <1>12 DEF SortedKeys
<1>14. SortedKeys(L[b])
  <2> SUFFICES ASSUME NEW x \in Slots, NEW y \in Slots, x < y, L[b][y] # InvalidKey
               PROVE  L[b][x] < L[b][y]
    BY DEF SortedKeys
  <2>1. x < Half /\ y < Half
    BY <1>1, <1>10
  <2>2. Half + x < Half + y /\ Half + x \in Slots /\ Half + y \in Slots
    BY <1>1, <1>3, <2>1
  <2> QED
    BY <1>10, <1>12, <2>1, <2>2
<1> QED
  BY <1>1, <1>7, <1>8, <1>10, <1>11, <1>13, <1>14 DEF L, W

LEMMA MoveLemma ==
  ASSUME NEW n, NEW c, NEW K, NEW V, Order(n, c), Leaves(n, c, K, V), N % 2 = 0,
         NEW p, NEW k \in Keys, Chosen(n, c, K, p, k), p + 1 < n,
         K[c[p]][N - 1] # InvalidKey, \A x \in Slots : K[c[p + 1]][x] = InvalidKey
  PROVE  LET a == c[p]
             b == c[p + 1]
             L == MovedKeys(K, a, b)
             W == MovedVals(V, a, b)
             to == IF k >= K[a][Half] THEN b ELSE a
         IN  /\ Leaves(n, c, L, W)
             /\ \A j \in Keys : has(L, j) <=> has(K, j)
             /\ L[to][N - 1] = InvalidKey
             /\ \E q \in 0 .. n - 1 : Chosen(n, c, L, q, k) /\ to = c[q]
<1> DEFINE a == c[p]
           b == c[p + 1]
           L == MovedKeys(K, a, b)
           W == MovedVals(V, a, b)
           to == IF k >= K[a][Half] THEN b ELSE a
<1>1. /\ n \in Nat /\ n > 0 /\ n <= Pool /\ Pool \in Nat /\ c \in [0 .. n - 1 -> 0 .. n - 1]
      /\ \A q, r \in 0 .. n - 1 : c[q] = c[r] => q = r
      /\ \A s \in 0 .. n - 1 : \E q \in 0 .. n - 1 : c[q] = s
      /\ p \in 0 .. n - 1 /\ p + 1 \in 0 .. n - 1
  <2>1. /\ n \in Nat /\ n > 0 /\ n <= Pool /\ Pool \in Nat /\ p \in 0 .. n - 1
    BY StartAssumption DEF Order, Chosen
  <2>2. p + 1 \in 0 .. n - 1
    BY <2>1
  <2> QED
    BY <2>1, <2>2 DEF Order
<1>a. n \in Nat /\ Pool \in Nat /\ n <= Pool /\ p \in Nat /\ p + 1 < n
  BY <1>1
<1>2. /\ N \in Nat /\ N > 1 /\ InvalidKey \in Nat /\ 0 \in Slots /\ N - 1 \in Slots
      /\ \A x \in Slots : x \in Nat /\ x <= N - 1
  BY ConcAssumption DEF Slots
<1>3. a \in 0 .. n - 1 /\ b \in 0 .. n - 1 /\ a # b /\ \A q \in 0 .. n - 1 : c[q] \in 0 .. Pool - 1
  <2>1. p # p + 1
    BY <1>1
  <2>2. \A l \in 0 .. n - 1 : l \in 0 .. Pool - 1
    BY <1>1
  <2> QED
    BY <1>1, <2>1, <2>2
<1>4. a \in 0 .. Pool - 1 /\ b \in 0 .. Pool - 1
  BY <1>1, <1>3
<1>5. /\ K \in KeyArrays /\ V \in KeyArrays
      /\ \A l \in 0 .. Pool - 1 : SortedKeys(K[l])
  BY DEF Leaves
<1> HIDE DEF a, b
<1>6. K[a][N - 1] # InvalidKey /\ \A x \in Slots : K[b][x] = InvalidKey
  BY DEF a, b
<1>7. /\ L \in KeyArrays /\ W \in KeyArrays
      /\ \A l \in 0 .. Pool - 1 : l # a /\ l # b => L[l] = K[l] /\ W[l] = V[l]
      /\ Half \in Slots /\ 0 < Half /\ 2 * Half = N
      /\ \A x \in Slots : /\ L[a][x] = IF x < Half THEN K[a][x] ELSE InvalidKey
                          /\ L[b][x] = IF x < Half THEN K[a][Half + x] ELSE InvalidKey
                          /\ W[a][x] = V[a][x]
                          /\ x < Half => Half + x \in Slots /\ W[b][x] = V[a][Half + x]
      /\ \A x \in Slots : K[a][x] # InvalidKey
      /\ SortedKeys(L[a]) /\ SortedKeys(L[b])
  BY <1>3, <1>4, <1>5, <1>6, MoveRows
<1> HIDE DEF L, W
<1>8. \A l \in 0 .. Pool - 1 : SortedKeys(L[l])
  BY <1>5, <1>7
<1>9. \A l \in n .. Pool - 1 : \A x \in Slots : L[l][x] = InvalidKey
  <2> SUFFICES ASSUME NEW l \in n .. Pool - 1, NEW x \in Slots PROVE L[l][x] = InvalidKey
    OBVIOUS
  <2>1. l \in 0 .. Pool - 1 /\ \A x0 \in 0 .. n - 1 : l # x0
    BY <1>a
  <2>2. l # a /\ l # b
    BY <1>3, <2>1
  <2> QED
    BY <1>7, <2>1, <2>2 DEF Leaves
\* a key of place q of the new arrays was in place Was(q)
<1> DEFINE Was(q) == IF q = p + 1 THEN p ELSE q
<1>10. ASSUME NEW q \in 0 .. n - 1, NEW x \in Slots, L[c[q]][x] # InvalidKey
       PROVE  /\ Was(q) \in 0 .. n - 1
              /\ \E y \in Slots : /\ K[c[Was(q)]][y] = L[c[q]][x] /\ V[c[Was(q)]][y] = W[c[q]][x]
                                  /\ q = p => y < Half
                                  /\ q = p + 1 => y >= Half
  <2>1. CASE q = p
    <3>1. c[q] = a /\ Was(q) = p /\ c[p] = a
      BY <1>1, <2>1 DEF a
    <3>2. x < Half /\ L[a][x] = K[a][x] /\ W[a][x] = V[a][x]
      BY <1>7, <1>10, <3>1
    <3> QED
      BY <1>1, <2>1, <3>1, <3>2
  <2>2. CASE q = p + 1
    <3>1. c[q] = b /\ Was(q) = p /\ c[p] = a
      BY <2>2 DEF a, b
    <3>2. x < Half /\ L[b][x] = K[a][Half + x] /\ W[b][x] = V[a][Half + x] /\ Half + x \in Slots
      BY <1>7, <1>10, <3>1
    <3>3. Half \in Int /\ x \in Int /\ x >= 0 /\ p \in Int
      <4>1. p \in Int
        BY <1>1
      <4>2. x \in Int /\ x >= 0
        BY ConcAssumption DEF Slots
      <4>3. Half \in Int
        BY ConcAssumption DEF Half
      <4> QED
        BY <4>1, <4>2, <4>3
    <3>4. Half + x >= Half
      BY <3>3
    <3>5. q # p
      BY <2>2, <3>3
    <3> QED
      BY <1>1, <3>1, <3>2, <3>4, <3>5
  <2>3. CASE q # p /\ q # p + 1
    <3>1. c[q] # a /\ c[q] # b
      BY <1>1, <2>3 DEF a, b
    <3>2. L[c[q]] = K[c[q]] /\ W[c[q]] = V[c[q]] /\ Was(q) = q
      BY <1>3, <1>7, <2>3, <3>1
    <3> QED
      BY <2>3, <3>2
  <2> QED
    BY <2>1, <2>2, <2>3
<1>11. Rising(n, c, L)
  <2> SUFFICES ASSUME NEW q \in 0 .. n - 1, NEW r \in 0 .. n - 1, q < r, NEW x \in Slots, NEW y \in Slots,
                      L[c[q]][x] # InvalidKey, L[c[r]][y] # InvalidKey
               PROVE  L[c[q]][x] < L[c[r]][y]
    BY DEF Rising
  <2>1. PICK u \in Slots : /\ K[c[Was(q)]][u] = L[c[q]][x]
                           /\ q = p => u < Half
                           /\ q = p + 1 => u >= Half
    BY <1>10
  <2>2. PICK v \in Slots : /\ K[c[Was(r)]][v] = L[c[r]][y]
                           /\ r = p => v < Half
                           /\ r = p + 1 => v >= Half
    BY <1>10
  <2>3. Was(q) \in 0 .. n - 1 /\ Was(r) \in 0 .. n - 1
    BY <1>1
  <2>4. CASE Was(q) < Was(r)
    BY <2>1, <2>2, <2>3, <2>4 DEF Leaves, Rising
  <2>5. CASE ~ (Was(q) < Was(r))
    <3>1. q = p /\ r = p + 1
      BY <1>a, <2>5
    <3>a. q # p + 1
      BY <1>a, <3>1
    <3>b. u < Half /\ v >= Half /\ u \in Nat /\ v \in Nat /\ Half \in Nat
      BY <1>2, <1>7, <2>1, <2>2, <3>1
    <3>2. Was(q) = p /\ Was(r) = p /\ u < v
      BY <3>1, <3>a, <3>b
    <3>3. K[a][u] < K[a][v]
      BY <1>4, <1>5, <1>7, <3>2 DEF SortedKeys
    <3> QED
      BY <2>1, <2>2, <3>2, <3>3 DEF a
  <2> QED
    BY <2>4, <2>5
<1>12. ASSUME NEW l \in 0 .. Pool - 1, NEW x \in Slots, L[l][x] # InvalidKey PROVE W[l][x] = L[l][x]
  <2>1. l \in 0 .. n - 1
    <3>1. l \notin n .. Pool - 1
      BY <1>9, <1>12
    <3> QED
      BY <1>a, <3>1
  <2>2. PICK q \in 0 .. n - 1 : c[q] = l
    BY <1>1, <2>1
  <2>3. PICK y \in Slots : K[c[Was(q)]][y] = L[l][x] /\ V[c[Was(q)]][y] = W[l][x]
    BY <1>10, <1>12, <2>2
  <2>4. c[Was(q)] \in 0 .. Pool - 1
    BY <1>1, <1>3
  <2> QED
    BY <1>12, <2>3, <2>4 DEF Leaves
<1>13. Leaves(n, c, L, W)
  BY <1>7, <1>8, <1>9, <1>11, <1>12 DEF Leaves
<1>14. ASSUME NEW j \in Keys, has(L, j) PROVE has(K, j)
  <2>1. PICK l \in 0 .. Pool - 1, x \in Slots : L[l][x] = j
    BY <1>14 DEF has
  <2>2. j # InvalidKey
    BY <1>2 DEF Keys
  <2>3. l \in 0 .. n - 1
    <3>1. l \notin n .. Pool - 1
      BY <1>9, <2>1, <2>2
    <3> QED
      BY <1>a, <3>1
  <2>4. PICK q \in 0 .. n - 1 : c[q] = l
    BY <1>1, <2>3
  <2>5. PICK y \in Slots : K[c[Was(q)]][y] = j
    BY <1>10, <2>1, <2>2, <2>4
  <2>6. c[Was(q)] \in 0 .. Pool - 1
    BY <1>1, <1>3
  <2> QED
    BY <2>5, <2>6 DEF has
<1>15. ASSUME NEW j \in Keys, has(K, j) PROVE has(L, j)
  <2>1. PICK l \in 0 .. Pool - 1, x \in Slots : K[l][x] = j
    BY <1>15 DEF has
  <2>2. j # InvalidKey
    BY <1>2 DEF Keys
  <2>3. CASE l = a /\ x < Half
    BY <1>4, <1>7, <2>1, <2>3 DEF has
  <2>4. CASE l = a /\ ~ (x < Half)
    <3>1. x - Half \in Slots /\ x - Half < Half /\ Half + (x - Half) = x
      BY <1>2, <1>7, <2>4 DEF Slots
    <3>2. L[b][x - Half] = j
      BY <1>7, <2>1, <2>4, <3>1
    <3> QED
      BY <1>4, <3>1, <3>2 DEF has
  <2>5. CASE l # a
    <3>1. l # b
      BY <1>6, <2>1, <2>2
    <3> QED
      BY <1>7, <2>1, <2>5, <3>1 DEF has
  <2> QED
    BY <2>3, <2>4, <2>5
<1>16. ASSUME NEW q \in 0 .. n - 1, q > p + 1 PROVE k < L[c[q]][0]
  <2>1. q \in p + 1 .. n - 1 /\ q # p /\ q # p + 1
    BY <1>a, <1>16
  <2>2. c[q] # a /\ c[q] # b
    BY <1>1, <2>1 DEF a, b
  <2> QED
    BY <1>3, <1>7, <2>1, <2>2 DEF Chosen
<1>17. L[a][0] = K[a][0] /\ L[b][0] = K[a][Half] /\ K[a][Half] \in Nat /\ k \in Nat
  <2>1. Half + 0 = Half /\ Half \in Nat
    BY <1>2, <1>7
  <2>2. L[a][0] = K[a][0] /\ L[b][0] = K[a][Half]
    BY <1>2, <1>7, <2>1
  <2>3. K[a][Half] \in 0 .. InvalidKey
    BY <1>4, <1>5, <1>7 DEF KeyArrays
  <2> QED
    BY <1>2, <2>2, <2>3 DEF Keys
<1>18. \E q \in 0 .. n - 1 : Chosen(n, c, L, q, k) /\ to = c[q]
  <2>1. CASE k >= K[a][Half]
    <3>1. ASSUME NEW q \in p + 1 + 1 .. n - 1 PROVE k < L[c[q]][0]
      <4>1. q \in 0 .. n - 1 /\ q > p + 1
        BY <1>a
      <4> QED
        BY <1>16, <4>1
    <3>a. L[c[p + 1]][0] <= k
      BY <1>17, <2>1 DEF b
    <3>2. Chosen(n, c, L, p + 1, k)
      BY <1>1, <3>1, <3>a DEF Chosen
    <3> QED
      BY <1>1, <2>1, <3>2 DEF b
  <2>2. CASE ~ (k >= K[a][Half])
    <3>1. ASSUME NEW q \in p + 1 .. n - 1 PROVE k < L[c[q]][0]
      <4>1. CASE q = p + 1
        BY <1>17, <2>2, <4>1 DEF b
      <4>2. CASE q # p + 1
        <5>1. q \in 0 .. n - 1 /\ q > p + 1
          BY <1>a, <4>2
        <5> QED
          BY <1>16, <5>1
      <4> QED
        BY <4>1, <4>2
    <3>2. p = 0 \/ L[c[p]][0] <= k
      BY <1>17 DEF Chosen, a
    <3>3. Chosen(n, c, L, p, k)
      BY <1>1, <3>1, <3>2 DEF Chosen
    <3> QED
      BY <1>1, <2>2, <3>3 DEF a
  <2> QED
    BY <2>1, <2>2
<1>19. L[to][N - 1] = InvalidKey
  BY <1>2, <1>7
<1> QED
  BY <1>13, <1>14, <1>15, <1>18, <1>19 DEF a, b, L, W

\* What the four stores of insert_not_full make of an array: k in slot i
Put(a, i, j, k) == [ShiftUp(a, i, j) EXCEPT ![i] = k]

Above(ks, k) == {x \in Slots : ks[x] >= k}
Unused(ks, k) == {x \in Slots : x >= Least(Above(ks, k)) /\ ks[x] = InvalidKey}

LEMMA PutRow ==
  ASSUME NEW ks \in [Slots -> 0 .. InvalidKey], NEW vs \in [Slots -> 0 .. InvalidKey],
         SortedKeys(ks), \A x \in Slots : ks[x] # InvalidKey => vs[x] = ks[x],
         NEW k \in Keys, ks[N - 1] = InvalidKey, \A x \in Slots : ks[x] # k
  PROVE  LET i == Least(Above(ks, k))
             j == Least(Unused(ks, k))
             rs == Put(ks, i, j, k)
             ws == Put(vs, i, j, k)
         IN  /\ Above(ks, k) # {} /\ Unused(ks, k) # {} /\ i \in Slots /\ j \in Slots
             /\ rs \in [Slots -> 0 .. InvalidKey] /\ ws \in [Slots -> 0 .. InvalidKey]
             /\ SortedKeys(rs)
             /\ rs[0] = k \/ (rs[0] = ks[0] /\ ks[0] < k)
             /\ \A x \in Slots : rs[x] = k \/ \E y \in Slots : rs[x] = ks[y]
             /\ \E x \in Slots : rs[x] = k
             /\ \A y \in Slots : ks[y] # InvalidKey => \E x \in Slots : rs[x] = ks[y]
             /\ \A x \in Slots : rs[x] # InvalidKey => ws[x] = rs[x]
<1> DEFINE i == Least(Above(ks, k))
           j == Least(Unused(ks, k))
           rs == Put(ks, i, j, k)
           ws == Put(vs, i, j, k)
<1>1. /\ N \in Nat /\ N > 1 /\ InvalidKey \in Nat /\ 0 \in Slots /\ N - 1 \in Slots
      /\ Slots = 0 .. N - 1 /\ k \in Nat /\ k < InvalidKey /\ Slots \subseteq Nat
      /\ \A x \in Slots : ks[x] \in Nat /\ ks[x] <= InvalidKey
  BY ConcAssumption DEF Slots, Keys
<1>2. N - 1 \in Above(ks, k) /\ Above(ks, k) \subseteq Nat
  BY <1>1 DEF Above
<1>3. i \in Above(ks, k) /\ \A y \in Above(ks, k) : i <= y
  BY <1>2, LeastLemma
<1> HIDE DEF i
<1>4. i \in Slots /\ ks[i] >= k /\ \A x \in Slots : ks[x] >= k => i <= x
  BY <1>3 DEF Above
<1>5. Unused(ks, k) = {x \in Slots : x >= i /\ ks[x] = InvalidKey}
  BY DEF Unused, i
<1>6. N - 1 \in Unused(ks, k) /\ Unused(ks, k) \subseteq Nat
  BY <1>1, <1>4, <1>5
<1>7. j \in Unused(ks, k) /\ \A y \in Unused(ks, k) : j <= y
  BY <1>6, LeastLemma
<1> HIDE DEF j
<1>8. j \in Slots /\ j >= i /\ ks[j] = InvalidKey /\ \A x \in Slots : x >= i /\ ks[x] = InvalidKey => j <= x
  BY <1>5, <1>7
<1>9. \A x \in Slots : (x < i <=> ks[x] < k) /\ (x >= i <=> k < ks[x])
  <2> SUFFICES ASSUME NEW x \in Slots PROVE (x < i <=> ks[x] < k) /\ (x >= i <=> k < ks[x])
    OBVIOUS
  <2>1. x < i => ks[x] < k
    BY <1>1, <1>4
  <2>2. x >= i => k < ks[x]
    <3>1. CASE x = i
      BY <1>1, <1>4, <3>1
    <3>2. CASE x > i
      <4>1. ks[i] < ks[x] \/ ks[x] = InvalidKey
        BY <1>4, <3>2 DEF SortedKeys
      <4> QED
        BY <1>1, <1>4, <4>1
    <3> QED
      BY <1>1, <1>4, <3>1, <3>2
  <2> QED
    BY <1>1, <1>4, <2>1, <2>2
<1>a. i \in Nat /\ j \in Nat /\ \A x \in Slots : x \in Nat
  BY <1>1, <1>4, <1>8
<1>10. \A x \in Slots : (x >= j <=> (x >= i /\ ks[x] = InvalidKey))
  <2> SUFFICES ASSUME NEW x \in Slots, x >= j PROVE x >= i /\ ks[x] = InvalidKey
    BY <1>8
  <2>1. ks[x] = InvalidKey
    BY <1>8, RowOrder
  <2> QED
    BY <1>a, <1>8, <2>1
<1>11. \A x \in Slots : i < x => x - 1 \in Slots /\ x - 1 >= i
  BY <1>1, <1>4
<1>12. \A x \in Slots : /\ rs[x] = IF x = i THEN k ELSE IF i < x /\ x <= j THEN ks[x - 1] ELSE ks[x]
                        /\ ws[x] = IF x = i THEN k ELSE IF i < x /\ x <= j THEN vs[x - 1] ELSE vs[x]
  BY DEF Put, ShiftUp
<1>13. /\ rs = [x \in Slots |-> rs[x]] /\ ws = [x \in Slots |-> ws[x]]
  BY DEF Put, ShiftUp
<1> HIDE DEF rs, ws
<1>14. rs \in [Slots -> 0 .. InvalidKey] /\ ws \in [Slots -> 0 .. InvalidKey]
  <2>1. k \in 0 .. InvalidKey
    BY <1>1
  <2>2. \A x \in Slots : rs[x] \in 0 .. InvalidKey /\ ws[x] \in 0 .. InvalidKey
    BY <1>11, <1>12, <2>1
  <2> QED
    BY <1>13, <2>2
<1>15. SortedKeys(rs)
  <2> SUFFICES ASSUME NEW x \in Slots, NEW y \in Slots, x < y, rs[y] # InvalidKey PROVE rs[x] < rs[y]
    BY DEF SortedKeys
  <2>1. \A u, v \in Slots : u < v => ks[u] < ks[v] \/ ks[v] = InvalidKey
    BY DEF SortedKeys
  <2>2. y <= j
    <3> SUFFICES ASSUME ~ (y <= j) PROVE FALSE
      OBVIOUS
    <3>1. y >= j /\ y # i
      BY <1>a, <1>8
    <3>2. rs[y] = ks[y] /\ ks[y] = InvalidKey
      BY <1>10, <1>12, <3>1
    <3> QED
      BY <3>2
  <2>3. CASE y < i
    BY <1>1, <1>4, <1>9, <1>12, <2>1, <2>3
  <2>4. CASE y = i
    BY <1>1, <1>4, <1>9, <1>12, <2>4
  <2>5. CASE y > i
    <3>1. rs[y] = ks[y - 1] /\ y - 1 \in Slots /\ y - 1 >= i
      BY <1>1, <1>11, <1>12, <2>2, <2>5
    <3>2. k < ks[y - 1]
      BY <1>9, <3>1
    <3>3. CASE x < i
      <4>1. rs[x] = ks[x] /\ ks[x] < k
        BY <1>1, <1>4, <1>9, <1>12, <3>3
      <4> QED
        BY <1>1, <3>1, <3>2, <4>1
    <3>4. CASE x = i
      BY <1>12, <3>1, <3>2, <3>4
    <3>5. CASE x > i
      <4>a. x <= j /\ x # i /\ x - 1 < y - 1
        BY <1>a, <2>2, <3>5
      <4>1. rs[x] = ks[x - 1] /\ x - 1 \in Slots /\ x - 1 < y - 1
        BY <1>11, <1>12, <3>5, <4>a
      <4> QED
        BY <2>1, <3>1, <4>1
    <3> QED
      BY <1>1, <1>4, <3>3, <3>4, <3>5
  <2> QED
    BY <1>1, <1>4, <2>3, <2>4, <2>5
<1>16. rs[0] = k \/ (rs[0] = ks[0] /\ ks[0] < k)
  BY <1>1, <1>4, <1>9, <1>12
<1>17. \A x \in Slots : rs[x] = k \/ \E y \in Slots : rs[x] = ks[y]
  BY <1>11, <1>12
<1>18. rs[i] = k
  BY <1>4, <1>12
<1>19. ASSUME NEW y \in Slots, ks[y] # InvalidKey PROVE \E x \in Slots : rs[x] = ks[y]
  <2>1. CASE y < i
    <3>1. y # i /\ ~ (i < y)
      BY <1>a, <2>1
    <3> QED
      BY <1>12, <3>1
  <2>2. CASE y >= i
    <3>1. y < j
      BY <1>1, <1>8, <1>10, <1>19, <2>2
    <3> DEFINE z == y + 1
    <3>2. z \in Slots /\ i < z /\ z <= j /\ z # i /\ z - 1 = y
      BY <1>1, <1>4, <1>8, <2>2, <3>1
    <3> HIDE DEF z
    <3>3. rs[z] = ks[z - 1]
      BY <1>12, <3>2
    <3> QED
      BY <3>2, <3>3
  <2> QED
    BY <1>a, <2>1, <2>2
<1>20. ASSUME NEW x \in Slots, rs[x] # InvalidKey PROVE ws[x] = rs[x]
  BY <1>11, <1>12, <1>20
<1> QED
  BY <1>2, <1>4, <1>6, <1>8, <1>14, <1>15, <1>16, <1>17, <1>18, <1>19, <1>20 DEF i, j, rs, ws

\* An insert into a leaf with room, as one change of (K, V)
Stored(K, cur, i, j, k) == [K EXCEPT ![cur] = Put(@, i, j, k)]

LEMMA StoreLemma ==
  ASSUME NEW n, NEW c, NEW K, NEW V, Order(n, c), Leaves(n, c, K, V),
         NEW p, NEW k \in Keys, Chosen(n, c, K, p, k), ~ has(K, k), K[c[p]][N - 1] = InvalidKey
  PROVE  LET cur == c[p]
             i == Least(Above(K[cur], k))
             j == Least(Unused(K[cur], k))
             L == Stored(K, cur, i, j, k)
             W == Stored(V, cur, i, j, k)
         IN  /\ Above(K[cur], k) # {} /\ Unused(K[cur], k) # {} /\ i \in Slots /\ j \in Slots
             /\ \A x \in Slots : K[cur][x] # k
             /\ Leaves(n, c, L, W)
             /\ \A l \in Keys : has(L, l) <=> has(K, l) \/ l = k
<1> DEFINE cur == c[p]
           i == Least(Above(K[cur], k))
           j == Least(Unused(K[cur], k))
           L == Stored(K, cur, i, j, k)
           W == Stored(V, cur, i, j, k)
<1>1. /\ n \in Nat /\ n > 0 /\ n <= Pool /\ Pool \in Nat /\ c \in [0 .. n - 1 -> 0 .. n - 1]
      /\ \A q, r \in 0 .. n - 1 : c[q] = c[r] => q = r
      /\ \A s \in 0 .. n - 1 : \E q \in 0 .. n - 1 : c[q] = s
      /\ p \in 0 .. n - 1
  BY StartAssumption DEF Order, Chosen
<1>a. n \in Nat /\ Pool \in Nat /\ n <= Pool /\ p \in Nat /\ p < n
  BY <1>1
<1>2. /\ N \in Nat /\ N > 1 /\ InvalidKey \in Nat /\ 0 \in Slots /\ k \in Nat /\ k < InvalidKey
  BY ConcAssumption DEF Slots, Keys
<1>3. cur \in 0 .. n - 1 /\ \A q \in 0 .. n - 1 : c[q] \in 0 .. Pool - 1 /\ (c[q] = cur <=> q = p)
  <2>1. \A l \in 0 .. n - 1 : l \in 0 .. Pool - 1
    BY <1>a
  <2> QED
    BY <1>1, <2>1
<1>4. cur \in 0 .. Pool - 1
  BY <1>1, <1>3
<1>5. /\ K \in [0 .. Pool - 1 -> [Slots -> 0 .. InvalidKey]]
      /\ V \in [0 .. Pool - 1 -> [Slots -> 0 .. InvalidKey]]
      /\ \A l \in 0 .. Pool - 1 : SortedKeys(K[l])
      /\ \A l \in 0 .. Pool - 1 : \A x \in Slots : K[l][x] # InvalidKey => V[l][x] = K[l][x]
  BY DEF Leaves, KeyArrays
<1>6. p = 0 \/ K[cur][0] <= k
  BY DEF Chosen
<1>7. K[cur][N - 1] = InvalidKey
  OBVIOUS
<1> HIDE DEF cur
<1>8. \A x \in Slots : K[cur][x] # k
  BY <1>4 DEF has
<1>9. /\ Above(K[cur], k) # {} /\ Unused(K[cur], k) # {} /\ i \in Slots /\ j \in Slots
      /\ Put(K[cur], i, j, k) \in [Slots -> 0 .. InvalidKey]
      /\ Put(V[cur], i, j, k) \in [Slots -> 0 .. InvalidKey]
      /\ SortedKeys(Put(K[cur], i, j, k))
      /\ Put(K[cur], i, j, k)[0] = k \/ (Put(K[cur], i, j, k)[0] = K[cur][0] /\ K[cur][0] < k)
      /\ \A x \in Slots : Put(K[cur], i, j, k)[x] = k \/ \E y \in Slots : Put(K[cur], i, j, k)[x] = K[cur][y]
      /\ \E x \in Slots : Put(K[cur], i, j, k)[x] = k
      /\ \A y \in Slots : K[cur][y] # InvalidKey => \E x \in Slots : Put(K[cur], i, j, k)[x] = K[cur][y]
      /\ \A x \in Slots : Put(K[cur], i, j, k)[x] # InvalidKey =>
                            Put(V[cur], i, j, k)[x] = Put(K[cur], i, j, k)[x]
  <2>1. K[cur] \in [Slots -> 0 .. InvalidKey] /\ V[cur] \in [Slots -> 0 .. InvalidKey]
    BY <1>4, <1>5
  <2>2. SortedKeys(K[cur]) /\ \A x \in Slots : K[cur][x] # InvalidKey => V[cur][x] = K[cur][x]
    BY <1>4, <1>5
  <2> QED
    BY <1>7, <1>8, <2>1, <2>2, PutRow
<1>10. /\ L \in [0 .. Pool - 1 -> [Slots -> 0 .. InvalidKey]]
       /\ W \in [0 .. Pool - 1 -> [Slots -> 0 .. InvalidKey]]
       /\ L[cur] = Put(K[cur], i, j, k) /\ W[cur] = Put(V[cur], i, j, k)
       /\ \A l \in 0 .. Pool - 1 : l # cur => L[l] = K[l] /\ W[l] = V[l]
  <2> HIDE DEF i, j
  <2> QED
    BY <1>4, <1>5, <1>9 DEF Stored
<1> DEFINE rs == Put(K[cur], i, j, k)
<1>11. /\ SortedKeys(rs) /\ rs = L[cur] /\ rs \in [Slots -> 0 .. InvalidKey]
       /\ rs[0] = k \/ (rs[0] = K[cur][0] /\ K[cur][0] < k)
       /\ \A x \in Slots : rs[x] = k \/ \E y \in Slots : rs[x] = K[cur][y]
       /\ \E x \in Slots : rs[x] = k
       /\ \A y \in Slots : K[cur][y] # InvalidKey => \E x \in Slots : rs[x] = K[cur][y]
       /\ \A x \in Slots : rs[x] # InvalidKey => W[cur][x] = rs[x]
  BY <1>9, <1>10
<1> HIDE DEF rs, i, j, L, W
<1>12. \A l \in 0 .. Pool - 1 : SortedKeys(L[l])
  BY <1>5, <1>10, <1>11
<1>13. \A l \in n .. Pool - 1 : \A x \in Slots : L[l][x] = InvalidKey
  <2> SUFFICES ASSUME NEW l \in n .. Pool - 1, NEW x \in Slots PROVE L[l][x] = InvalidKey
    OBVIOUS
  <2>1. l \in 0 .. Pool - 1 /\ \A y \in 0 .. n - 1 : l # y
    BY <1>a
  <2>2. l # cur
    BY <1>3, <2>1
  <2> QED
    BY <1>10, <2>1, <2>2 DEF Leaves
<1>14. \A l \in 0 .. Pool - 1 : \A x \in Slots : L[l][x] # InvalidKey => W[l][x] = L[l][x]
  <2>1. \A x \in Slots : L[cur][x] # InvalidKey => W[cur][x] = L[cur][x]
    BY <1>11
  <2> SUFFICES ASSUME NEW l \in 0 .. Pool - 1, l # cur
               PROVE  \A x \in Slots : L[l][x] # InvalidKey => W[l][x] = L[l][x]
    BY <2>1
  <2>2. L[l] = K[l] /\ W[l] = V[l]
    BY <1>10
  <2> QED
    BY <1>5, <2>2
<1>15. \A l \in 0 .. Pool - 1, x \in Slots : K[l][x] \in Nat /\ K[l][x] <= InvalidKey
  BY <1>2, <1>5
\* the keys before place p are below k, and those behind it above
<1>16. ASSUME NEW q \in 0 .. n - 1, NEW x \in Slots, q < p, K[c[q]][x] # InvalidKey
       PROVE  K[c[q]][x] < k
  <2>1. K[cur][0] <= k /\ K[cur][0] # InvalidKey
    BY <1>a, <1>2, <1>4, <1>6, <1>15, <1>16
  <2>2. K[c[q]][x] < K[cur][0]
    BY <1>1, <1>2, <1>16, <2>1 DEF Leaves, Rising, cur
  <2>3. K[c[q]][x] \in Nat /\ K[cur][0] \in Nat
    BY <1>2, <1>3, <1>4, <1>15
  <2> QED
    BY <1>2, <2>1, <2>2, <2>3
<1>17. ASSUME NEW q \in 0 .. n - 1, NEW x \in Slots, p < q PROVE k < K[c[q]][x]
  <2>1. q \in p + 1 .. n - 1
    BY <1>a, <1>17
  <2>2. k < K[c[q]][0]
    BY <2>1 DEF Chosen
  <2>3. K[c[q]] \in [Slots -> 0 .. InvalidKey] /\ SortedKeys(K[c[q]])
    BY <1>3, <1>5
  <2>4. K[c[q]][0] <= K[c[q]][x]
    BY <2>3, RowOrder
  <2>5. K[c[q]][x] \in Nat /\ K[c[q]][0] \in Nat
    BY <1>2, <1>3, <1>15
  <2> QED
    BY <1>2, <2>2, <2>4, <2>5
<1>18. Rising(n, c, L)
  <2> SUFFICES ASSUME NEW q \in 0 .. n - 1, NEW r \in 0 .. n - 1, q < r, NEW x \in Slots, NEW y \in Slots,
                      L[c[q]][x] # InvalidKey, L[c[r]][y] # InvalidKey
               PROVE  L[c[q]][x] < L[c[r]][y]
    BY DEF Rising
  <2>1. CASE q # p /\ r # p
    <3>1. L[c[q]] = K[c[q]] /\ L[c[r]] = K[c[r]]
      BY <1>3, <1>10, <2>1
    <3> QED
      BY <3>1 DEF Leaves, Rising
  <2>2. CASE q = p
    <3>0. r # p
      BY <1>a, <2>2
    <3>a. c[q] = cur /\ c[r] # cur
      BY <1>3, <2>2, <3>0
    <3>1. c[q] = cur /\ r # p /\ L[c[r]] = K[c[r]] /\ L[c[q]] = rs
      BY <1>3, <1>10, <1>11, <3>0, <3>a
    <3>2. CASE rs[x] = k
      BY <1>17, <2>2, <3>1, <3>2
    <3>3. CASE rs[x] # k
      <4>1. PICK z \in Slots : rs[x] = K[cur][z]
        BY <1>11, <3>3
      <4> QED
        BY <3>1, <4>1 DEF Leaves, Rising
    <3> QED
      BY <3>2, <3>3
  <2>3. CASE r = p
    <3>0. q # p
      BY <1>a, <2>3
    <3>a. c[r] = cur /\ c[q] # cur
      BY <1>3, <2>3, <3>0
    <3>1. c[r] = cur /\ q # p /\ L[c[q]] = K[c[q]] /\ L[c[r]] = rs
      BY <1>3, <1>10, <1>11, <3>0, <3>a
    <3>2. CASE rs[y] = k
      BY <1>16, <2>3, <3>1, <3>2
    <3>3. CASE rs[y] # k
      <4>1. PICK z \in Slots : rs[y] = K[cur][z]
        BY <1>11, <3>3
      <4> QED
        BY <3>1, <4>1 DEF Leaves, Rising
    <3> QED
      BY <3>2, <3>3
  <2> QED
    BY <2>1, <2>2, <2>3
<1>19. Leaves(n, c, L, W)
  BY <1>10, <1>12, <1>13, <1>14, <1>18 DEF Leaves, KeyArrays
<1>20. ASSUME NEW l \in Keys, has(L, l), l # k PROVE has(K, l)
  <2>1. PICK a \in 0 .. Pool - 1, x \in Slots : L[a][x] = l
    BY <1>20 DEF has
  <2>2. CASE a = cur
    <3>1. PICK y \in Slots : rs[x] = K[cur][y]
      BY <1>11, <1>20, <2>1, <2>2
    <3> QED
      BY <1>4, <1>11, <2>1, <2>2, <3>1 DEF has
  <2>3. CASE a # cur
    BY <1>10, <2>1, <2>3 DEF has
  <2> QED
    BY <2>2, <2>3
<1>21. ASSUME NEW l \in Keys, has(K, l) PROVE has(L, l)
  <2>1. PICK a \in 0 .. Pool - 1, x \in Slots : K[a][x] = l
    BY <1>21 DEF has
  <2>2. l # InvalidKey
    BY <1>2 DEF Keys
  <2>3. CASE a = cur
    BY <1>4, <1>11, <2>1, <2>2, <2>3 DEF has
  <2>4. CASE a # cur
    BY <1>10, <2>1, <2>4 DEF has
  <2> QED
    BY <2>3, <2>4
<1>22. has(L, k)
  BY <1>4, <1>11 DEF has
<1> QED
  BY <1>8, <1>9, <1>19, <1>20, <1>21, <1>22 DEF L, W, i, j, cur

-----------------------------------------------------------------------------
(***************************************************************************)
(* The memory as the one insert in the section sees it, nobody else having *)
(* a step of a split or of a shift to do.                                  *)
(***************************************************************************)
Outer == {"idle", "route", "test", "cslock", "base", "scan", "probe", "seeval", "found",
          "notfound"} \cup Walk

Apart(t) == \A u \in Threads \ {t} : ~ Inside(u) /\ pc[u] \in Outer

ShowsTo(t, n, c, K, V) ==
  /\ pc[t] \notin {"link", "fill"} => next = n
  /\ pc[t] \notin Drawn => used = n
  /\ pc[t] # "fill" => \A p \in 0 .. n - 1 : link(c[p]) = Succ(n, c, p)
  /\ pc[t] \notin Storing => keys = K /\ vals = V
  /\ \A s \in 1 .. n - 1 : syn[s].leaf_num = s

HoldsFor(t, K) ==
  \A k \in Keys : has(K, k) <=> k \in present \/ (Added(t) /\ my[t].key = k)

Seen(t, n, c, K, V) ==
  /\ Order(n, c) /\ Leaves(n, c, K, V) /\ ShowsTo(t, n, c, K, V) /\ HoldsFor(t, K)
  /\ InsertAt(t, n, c, K, V)

\* Nobody is in the section.
Rest(n, c, K, V) ==
  /\ Order(n, c) /\ Leaves(n, c, K, V)
  /\ next = n /\ used = n /\ keys = K /\ vals = V
  /\ \A p \in 0 .. n - 1 : link(c[p]) = Succ(n, c, p)
  /\ \A s \in 1 .. n - 1 : syn[s].leaf_num = s
  /\ \A k \in Keys : has(K, k) <=> k \in present

LEMMA OuterApart ==
  /\ \A p \in Outer : /\ p \notin Splits /\ p \notin Drawn /\ p \notin Storing
                      /\ p \notin {"link", "fill", "csunlock", "shiftkeys", "choose", "look"}
  /\ \A p \in Outer \cap Section : p \in Walk
BY DEF Outer, Walk, Splits, Drawn, Storing, Section

LEMMA OuterLemma ==
  ASSUME LockInv, NEW u \in Threads, LocalTypes(u), ~ Inside(u)
  PROVE  pc[u] \in Outer
<1>1. my[u].op \in {"none", "insert", "search"} /\ pc[u] \in StepsOf(my[u].op)
  BY DEF LockInv, LocalTypes
<1>2. CASE my[u].op = "insert"
  BY <1>1, <1>2 DEF Inside, StepsOf, Outer
<1>3. CASE my[u].op = "search"
  BY <1>1, <1>3 DEF StepsOf, Outer
<1>4. CASE my[u].op = "none"
  BY <1>1, <1>4 DEF StepsOf, Outer
<1> QED
  BY <1>1, <1>2, <1>3, <1>4

LEMMA EntryZero ==
  ASSUME OneEntryLoad, LockInv
  PROVE  /\ Entries = {0}
         /\ \A t \in Threads : my[t].op # "none" => my[t].i = 0 /\ my[t].key \in Keys
<1>1. load \in DOMAIN Loads
  BY DEF LockInv
<1>2. Entries = {0}
  BY DEF OneEntryLoad
<1>3. ASSUME NEW t \in Threads, my[t].op # "none" PROVE my[t].i = 0 /\ my[t].key \in Keys
  <2>1. InWindow(t)
    BY <1>3 DEF LockInv
  <2>2. my[t].i \in Entries
    BY <1>1, <2>1, StartedWindow DEF InWindow
  <2> QED
    BY <1>2, <2>1, <2>2 DEF InWindow
<1> QED
  BY <1>2, <1>3

LEMMA InsideApart ==
  ASSUME OneEntryLoad, LockInv, \A u \in Threads : LocalTypes(u), NEW t \in Threads, Inside(t)
  PROVE  Apart(t)
<1> SUFFICES ASSUME NEW u \in Threads, u # t PROVE ~ Inside(u) /\ pc[u] \in Outer
  BY DEF Apart
<1>1. ~ Inside(u)
  <2> SUFFICES ASSUME Inside(u) PROVE FALSE
    OBVIOUS
  <2>1. my[t].i = 0 /\ my[u].i = 0
    BY EntryZero DEF Inside
  <2> QED
    BY <2>1 DEF LockInv, InsertsExclude
<1> QED
  BY <1>1, OuterLemma

\* From the memory to what the insert sees of it, and back
LEMMA SeenLemma ==
  ASSUME NEW n, NEW c, NEW K, NEW V, Memory(n, c, K, V), NEW t \in Threads, Apart(t), Inside(t)
  PROVE  Seen(t, n, c, K, V)
<1>1. \A u \in Threads : u # t => /\ pc[u] \notin Drawn /\ pc[u] \notin Storing
                                  /\ pc[u] \notin {"link", "fill", "csunlock"}
  BY OuterApart DEF Apart
<1>2. ShowsTo(t, n, c, K, V)
  BY <1>1 DEF Memory, Shows, ShowsTo
<1>3. HoldsFor(t, K)
  <2>1. \A u \in Threads : Added(u) => u = t
    BY <1>1 DEF Added
  <2> QED
    BY <2>1 DEF Memory, Holds, HoldsFor
<1> QED
  BY <1>2, <1>3 DEF Memory, Seen

LEMMA RestLemma ==
  ASSUME NEW n, NEW c, NEW K, NEW V, Memory(n, c, K, V),
         \A u \in Threads : ~ Inside(u) /\ pc[u] \in Outer
  PROVE  Rest(n, c, K, V)
<1>1. \A u \in Threads : /\ pc[u] \notin Drawn /\ pc[u] \notin Storing
                         /\ pc[u] \notin {"link", "fill", "csunlock"}
  BY OuterApart
<1>2. \A u \in Threads : ~ Added(u)
  BY <1>1 DEF Added
<1> QED
  BY <1>1, <1>2 DEF Memory, Shows, Holds, Rest

\* In the state after a step of t
LEMMA SeenMemory ==
  ASSUME NEW n, NEW c, NEW K, NEW V, NEW t \in Threads, Keeps(t), Apart(t),
         Seen(t, n, c, K, V)'
  PROVE  Memory(n, c, K, V)'
<1>1. \A u \in Threads : u # t => /\ ~ Inside(u)'
                                  /\ pc'[u] \notin Drawn /\ pc'[u] \notin Storing
                                  /\ pc'[u] \notin {"link", "fill", "csunlock"}
  BY OuterApart DEF Apart, Keeps, Inside
<1>2. Shows(n, c, K, V)'
  BY <1>1 DEF Seen, Shows, ShowsTo
<1>3. Holds(K)'
  <2>1. \A u \in Threads : Added(u)' => u = t
    BY <1>1 DEF Added
  <2>2. HoldsFor(t, K)'
    BY DEF Seen
  <2> QED
    BY <2>1, <2>2 DEF Holds, HoldsFor
<1>4. \A u \in Threads : Inside(u)' => InsertAt(u, n, c, K, V)'
  BY <1>1 DEF Seen
<1> QED
  BY <1>2, <1>3, <1>4 DEF Memory, Seen

LEMMA RestMemory ==
  ASSUME NEW n, NEW c, NEW K, NEW V, NEW t \in Threads, Keeps(t), Apart(t),
         ~ Inside(t)', pc'[t] \in Outer, Rest(n, c, K, V)'
  PROVE  Memory(n, c, K, V)'
<1>1. \A u \in Threads : /\ ~ Inside(u)'
                         /\ pc'[u] \notin Drawn /\ pc'[u] \notin Storing
                         /\ pc'[u] \notin {"link", "fill", "csunlock"}
  BY OuterApart DEF Apart, Keeps, Inside
<1>2. \A u \in Threads : ~ Added(u)'
  BY <1>1 DEF Added
<1> QED
  BY <1>1, <1>2 DEF Memory, Shows, Holds, Rest

\* A step outside the section leaves the memory alone.
LEMMA OuterMemory ==
  ASSUME NEW n, NEW c, NEW K, NEW V, Memory(n, c, K, V), NEW t \in Threads, Keeps(t),
         pc[t] \in Outer, pc'[t] \in Outer, ~ Inside(t)',
         UNCHANGED <<table, syn, next, keys, vals, used, present>>
  PROVE  Memory(n, c, K, V)'
<1>1. \A u \in Threads \ {t} : /\ pc'[u] = pc[u] /\ my'[u] = my[u]
                               /\ Inside(u)' <=> Inside(u)
                               /\ Added(u)' <=> Added(u)
  BY DEF Keeps, Inside, Added
<1>2. /\ pc[t] \notin Drawn /\ pc[t] \notin Storing /\ pc[t] \notin {"link", "fill", "csunlock"}
      /\ pc'[t] \notin Drawn /\ pc'[t] \notin Storing /\ pc'[t] \notin {"link", "fill", "csunlock"}
  BY OuterApart
<1>3. \A s : link(s)' = link(s)
  BY DEF link
<1>4. Shows(n, c, K, V)'
  <2>1. Shows(n, c, K, V)
    BY DEF Memory
  <2>2. /\ (\A u \in Threads : pc'[u] \notin {"link", "fill"}) => \A u \in Threads : pc[u] \notin {"link", "fill"}
        /\ (\A u \in Threads : pc'[u] \notin Drawn) => \A u \in Threads : pc[u] \notin Drawn
        /\ (\A u \in Threads : pc'[u] # "fill") => \A u \in Threads : pc[u] # "fill"
        /\ (\A u \in Threads : pc'[u] \notin Storing) => \A u \in Threads : pc[u] \notin Storing
    BY <1>1, <1>2
  <2> QED
    BY <1>3, <2>1, <2>2 DEF Shows
<1>5. Holds(K)'
  <2>1. ~ Added(t) /\ ~ Added(t)'
    BY <1>2 DEF Added
  <2>2. \A k : (\E u \in Threads : Added(u)' /\ my'[u].key = k) <=> \E u \in Threads : Added(u) /\ my[u].key = k
    BY <1>1, <2>1
  <2> QED
    BY <2>2 DEF Memory, Holds
<1>6. ASSUME NEW u \in Threads, Inside(u)' PROVE InsertAt(u, n, c, K, V)'
  <2>1. u # t
    BY <1>6
  <2>2. Inside(u) /\ pc'[u] = pc[u] /\ my'[u] = my[u]
    BY <1>1, <1>6, <2>1
  <2>3. InsertAt(u, n, c, K, V)
    BY <2>2 DEF Memory
  <2> QED
    BY <1>3, <2>2, <2>3 DEF InsertAt, Walks, SplitsOff, Stores
<1> QED
  BY <1>4, <1>5, <1>6 DEF Memory

\* What a step of t has to leave behind, besides LockInv
StepInv(t) ==
  SharedTypes' /\ LocalTypes(t)' /\ \E n, c, K, V : Memory(n, c, K, V)'

LEMMA Enter ==
  ASSUME OneEntryLoad, InsertInv, NEW t \in Threads, Inside(t)
  PROVE  Apart(t) /\ \E n, c, K, V : Seen(t, n, c, K, V)
<1>1. Apart(t)
  BY InsideApart DEF InsertInv
<1>2. PICK n, c, K, V : Memory(n, c, K, V)
  BY DEF InsertInv
<1>3. Seen(t, n, c, K, V)
  BY <1>1, <1>2, SeenLemma
<1> QED
  BY <1>1, <1>3

LEMMA InsertPc ==
  ASSUME InsertInv, NEW t \in Threads,
         pc[t] \in Splits \cup Storing \cup {"choose", "look", "shiftkeys", "csunlock"}
  PROVE  Inside(t)
<1>1. pc[t] \in Section /\ pc[t] \notin Outer
  BY DEF Splits, Drawn, Storing, Section, Outer, Walk
<1>2. LockInv /\ LocalTypes(t)
  BY DEF InsertInv
<1> QED
  BY <1>1, <1>2, OuterLemma

\* Inside(t)' holds after a step that does not return.
LEMMA SeenStep ==
  ASSUME OneEntryLoad, InsertInv, NEW t \in Threads, Inside(t), Goes(t),
         SharedTypes', LocalTypes(t)', NEW n, NEW c, NEW K, NEW V, Seen(t, n, c, K, V)'
  PROVE  StepInv(t)
<1>1. Apart(t) /\ Keeps(t)
  BY Enter DEF Goes
<1>2. Memory(n, c, K, V)'
  BY <1>1, SeenMemory
<1> QED
  BY <1>2 DEF StepInv

LEMMA OuterStep ==
  ASSUME InsertInv, NEW t \in Threads, Keeps(t), pc[t] \in Outer, pc'[t] \in Outer, ~ Inside(t)',
         UNCHANGED <<table, syn, next, keys, vals, used, present>>, LocalTypes(t)'
  PROVE  StepInv(t)
<1>1. PICK n, c, K, V : Memory(n, c, K, V)
  BY DEF InsertInv
<1>2. Memory(n, c, K, V)'
  BY <1>1, OuterMemory
<1>3. SharedTypes'
  BY DEF InsertInv, SharedTypes
<1> QED
  BY <1>2, <1>3 DEF StepInv

LEMMA FirstStep ==
  ASSUME OneEntryLoad, InsertInv, NEW t \in Threads, First(t)
  PROVE  StepInv(t)
<1>1. /\ LockInv /\ LocalTypes(t) /\ SharedTypes
      /\ DOMAIN pc = Threads /\ DOMAIN my = Threads /\ DOMAIN my[t] = Fields
  BY DEF InsertInv, LockInv
<1>2. Goes(t) /\ my[t].op # "none"
  BY <1>1, PlainGoes DEF Plain
<1>3. my[t].i = 0
  BY <1>1, <1>2, EntryZero
<1>4. /\ pc[t] = "first" /\ pc'[t] = "collect"
      /\ my'[t].s = link(0) /\ my'[t].chain = my[t].chain /\ my'[t].p = my[t].p
      /\ my'[t].cur = my[t].cur /\ my'[t].ok = my[t].ok
      /\ UNCHANGED <<table, syn, next, keys, vals, used, present>>
  BY <1>1, <1>3 DEF First, Goto, Local, At, Frame, shared, Fields, link
<1>5. LocalTypes(t)' /\ SharedTypes'
  BY <1>1, <1>2, <1>4 DEF LocalTypes, SharedTypes, Goes
<1>6. my[t].chain = <<>>
  BY <1>1, <1>4 DEF LocalTypes
<1>7. CASE Inside(t)
  <2>1. PICK n, c, K, V : Seen(t, n, c, K, V)
    BY <1>7, Enter
  <2>2. /\ n \in Nat /\ 0 < n /\ c[0] = 0
        /\ \A p \in 0 .. n - 1 : link(c[p]) = Succ(n, c, p)
    BY <1>4, <2>1 DEF Seen, Order, ShowsTo
  <2>3. link(0) = Succ(n, c, 0) /\ 0 <= n - 1
    BY <2>2
  <2>4. /\ pc[t] \notin Splits /\ pc[t] \notin Drawn /\ pc[t] \notin Storing
        /\ pc'[t] \notin Splits /\ pc'[t] \notin Drawn /\ pc'[t] \notin Storing
    BY <1>4 DEF Splits, Drawn, Storing
  <2>5. \A s : link(s)' = link(s)
    BY <1>4 DEF link
  <2>6. ShowsTo(t, n, c, K, V)'
    BY <1>4, <2>1, <2>4, <2>5 DEF Seen, ShowsTo
  <2>7. HoldsFor(t, K)'
    BY <1>4, <2>1, <2>4 DEF Seen, HoldsFor, Added
  <2>8. InsertAt(t, n, c, K, V)'
    BY <1>4, <1>6, <2>3, <2>4 DEF InsertAt, Walks, SplitsOff, Stores
  <2>9. Seen(t, n, c, K, V)'
    BY <2>1, <2>6, <2>7, <2>8 DEF Seen
  <2> QED
    BY <1>2, <1>5, <1>7, <2>9, SeenStep
<1>8. CASE ~ Inside(t)
  <2>1. ~ Inside(t)'
    BY <1>1, <1>2, <1>4, <1>8, PlainGoes DEF Inside, Goes, Section
  <2>2. pc[t] \in Outer /\ pc'[t] \in Outer
    BY <1>4 DEF Outer, Walk
  <2> QED
    BY <1>2, <1>4, <1>5, <2>1, <2>2, OuterStep DEF Goes
<1> QED
  BY <1>7, <1>8

\* A step of the insert that only reads the memory
LEMMA ReadStep ==
  ASSUME NEW n, NEW c, NEW K, NEW V, NEW t \in Threads, Seen(t, n, c, K, V),
         UNCHANGED <<table, syn, next, keys, vals, used, present>>,
         pc[t] \notin Drawn, pc'[t] \notin Drawn, pc[t] \notin Storing, pc'[t] \notin Storing,
         ~ Added(t), ~ Added(t)', InsertAt(t, n, c, K, V)'
  PROVE  Seen(t, n, c, K, V)'
<1>1. pc[t] \notin {"link", "fill"} /\ pc'[t] \notin {"link", "fill"}
  BY DEF Drawn
<1>2. \A s : link(s)' = link(s)
  BY DEF link
<1>3. ShowsTo(t, n, c, K, V)'
  BY <1>1, <1>2 DEF Seen, ShowsTo
<1>4. HoldsFor(t, K)'
  BY DEF Seen, HoldsFor
<1> QED
  BY <1>3, <1>4 DEF Seen

LEMMA SuccLemma ==
  ASSUME NEW n, NEW c, Order(n, c), NEW p \in 0 .. n - 1
  PROVE  /\ Succ(n, c, p) = 0 <=> p = n - 1
         /\ p < n - 1 => p + 1 \in 0 .. n - 1 /\ Succ(n, c, p) = c[p + 1]
         /\ Succ(n, c, p) \in 0 .. n - 1
<1>1. /\ n \in Nat /\ n > 0 /\ c[0] = 0 /\ c \in [0 .. n - 1 -> 0 .. n - 1]
      /\ \A q, r \in 0 .. n - 1 : c[q] = c[r] => q = r
  BY DEF Order
<1>2. CASE p = n - 1
  BY <1>1, <1>2 DEF Succ
<1>3. CASE p # n - 1
  <2>1. p + 1 \in 0 .. n - 1 /\ p + 1 # 0 /\ 0 \in 0 .. n - 1 /\ p < n - 1
    BY <1>1, <1>3
  <2>2. Succ(n, c, p) = c[p + 1]
    BY <1>3 DEF Succ
  <2>3. c[p + 1] # 0
    BY <1>1, <2>1
  <2>4. c[p + 1] \in 0 .. n - 1
    BY <1>1, <2>1
  <2> QED
    BY <1>3, <2>1, <2>2, <2>3, <2>4
<1> QED
  BY <1>2, <1>3

LEMMA CollectStep ==
  ASSUME OneEntryLoad, InsertInv, NEW t \in Threads, Collect(t)
  PROVE  StepInv(t)
<1>1. /\ LockInv /\ LocalTypes(t) /\ SharedTypes
      /\ DOMAIN pc = Threads /\ DOMAIN my = Threads /\ DOMAIN my[t] = Fields
  BY DEF InsertInv, LockInv
<1>2. Goes(t) /\ my[t].op # "none"
  BY <1>1, PlainGoes DEF Plain
<1> DEFINE size == Len(my[t].chain)
<1>3. /\ pc[t] = "collect"
      /\ UNCHANGED <<table, syn, next, keys, vals, used, present>>
  BY DEF Collect, At, Frame, shared
<1>4. /\ my[t].chain \in Seq(Indexes) /\ size \in Nat /\ my[t].p \in 0 .. size
      /\ my[t].op \in {"none", "insert", "search"} /\ my[t].cur \in 0 .. Pool - 1 /\ my[t].ok \in BOOLEAN
  BY <1>1 DEF LocalTypes
<1>5. /\ my'[t].op = my[t].op /\ my'[t].cur = my[t].cur /\ my'[t].ok = my[t].ok
      /\ my'[t].key = my[t].key
  BY <1>1, <1>2 DEF Collect, Local, Fields, Goes
<1>6. \/ /\ my[t].s = 0 /\ my'[t].p = size /\ my'[t].chain = my[t].chain
         /\ pc'[t] = IF my[t].op = "search" THEN "scan" ELSE "choose"
      \/ /\ my[t].s # 0 /\ size = SynonymMax /\ pc'[t] = "looping" /\ my' = my
      \/ /\ my[t].s # 0 /\ my[t].s \notin Indexes /\ pc'[t] = "crashed" /\ my' = my
      \/ /\ my[t].s \in Indexes /\ my[t].s # 0 /\ pc'[t] = "collect"
         /\ my'[t].chain = Append(my[t].chain, my[t].s) /\ my'[t].p = my[t].p
         /\ my'[t].s = syn[my[t].s].synonym_leaf
  <2>1. CASE my[t].s = 0
    BY <1>1, <2>1 DEF Collect, Goto, Fields
  <2>2. CASE my[t].s # 0 /\ size = SynonymMax
    BY <1>1, <2>2 DEF Collect, Goto
  <2>3. CASE my[t].s # 0 /\ size # SynonymMax /\ my[t].s \notin Indexes
    BY <1>1, <2>3 DEF Collect, Goto
  <2>4. CASE my[t].s # 0 /\ size # SynonymMax /\ my[t].s \in Indexes
    <3>1. /\ my' = [my EXCEPT ![t].chain = Append(@, my[t].s), ![t].s = syn[my[t].s].synonym_leaf]
          /\ pc' = pc
      BY <2>4 DEF Collect
    <3> QED
      BY <1>1, <1>3, <2>4, <3>1 DEF Fields
  <2> QED
    BY <2>1, <2>2, <2>3, <2>4
<1>7. SharedTypes'
  BY <1>1, <1>3 DEF SharedTypes
<1>8. LocalTypes(t)'
  <2>1. pc'[t] \notin {"idle", "route", "test", "cslock", "base", "first", "probe"}
    BY <1>6
  <2>2. my'[t].chain \in Seq(Indexes) /\ my'[t].p \in 0 .. Len(my'[t].chain)
    <3>1. CASE my'[t].chain = Append(my[t].chain, my[t].s) /\ my'[t].p = my[t].p /\ my[t].s \in Indexes
      <4>1. my'[t].chain \in Seq(Indexes) /\ Len(my'[t].chain) = size + 1
        BY <1>4, <3>1
      <4> QED
        BY <1>4, <3>1, <4>1
    <3>2. CASE my'[t].chain = my[t].chain /\ my'[t].p \in {my[t].p, size}
      BY <1>4, <3>2
    <3> QED
      BY <1>6, <3>1, <3>2
  <2> QED
    BY <1>4, <1>5, <2>1, <2>2 DEF LocalTypes
<1>9. CASE Inside(t)
  <2>1. PICK n, c, K, V : Seen(t, n, c, K, V)
    BY <1>9, Enter
  <2>2. /\ n \in Nat /\ 0 < n /\ n < SynonymMax /\ c[0] = 0 /\ Order(n, c)
        /\ c \in [0 .. n - 1 -> 0 .. n - 1]
        /\ \A p \in 0 .. n - 1 : link(c[p]) = Succ(n, c, p)
    BY <1>3, <2>1 DEF Seen, Order, ShowsTo
  <2>3. /\ size <= n - 1 /\ my[t].s = Succ(n, c, size)
        /\ \A q \in 1 .. size : my[t].chain[q] = c[q]
    BY <1>3, <2>1 DEF Seen, InsertAt, Walks
  <2>4. /\ SynonymMax \in Nat /\ size \in 0 .. n - 1
    BY <1>4, <2>2, <2>3, ConcAssumption
  <2>5. /\ my[t].s = 0 <=> size = n - 1
        /\ size < n - 1 => size + 1 \in 0 .. n - 1 /\ my[t].s = c[size + 1]
        /\ my[t].s \in 0 .. n - 1
    <3>1. /\ Succ(n, c, size) = 0 <=> size = n - 1
          /\ size < n - 1 => size + 1 \in 0 .. n - 1 /\ Succ(n, c, size) = c[size + 1]
          /\ Succ(n, c, size) \in 0 .. n - 1
      <4> HIDE DEF size
      <4> QED
        BY <2>2, <2>4, SuccLemma
    <3> QED
      BY <2>3, <3>1
  <2>6. my[t].op = "insert" /\ size # SynonymMax /\ (my[t].s # 0 => my[t].s \in Indexes)
    <3> DEFINE s == my[t].s
    <3>1. s \in 0 .. n - 1
      BY <2>5
    <3> HIDE DEF s, size
    <3>2. size # SynonymMax /\ (s # 0 => s \in Indexes)
      BY <2>2, <2>4, <3>1 DEF Indexes
    <3> QED
      BY <1>9, <3>2 DEF Inside, s
  <2>7. /\ pc[t] \notin Drawn /\ pc'[t] \notin Drawn /\ pc[t] \notin Storing /\ pc'[t] \notin Storing
        /\ ~ Added(t) /\ ~ Added(t)' /\ pc'[t] \in {"choose", "collect"} /\ pc'[t] \notin Splits
    BY <1>3, <1>6, <2>6 DEF Splits, Drawn, Storing, Added
  <2>8. InsertAt(t, n, c, K, V)'
    <3>1. CASE my[t].s = 0
      <4>1. /\ pc'[t] = "choose" /\ my'[t].p = size /\ my'[t].chain = my[t].chain
        BY <1>6, <2>6, <3>1
      <4>2. size = n - 1 /\ \A q \in my'[t].p + 1 .. n - 1 : my'[t].key < K[c[q]][0]
        BY <1>4, <2>2, <2>5, <3>1, <4>1
      <4>3. Walks(t, n, c, K)'
        BY <2>3, <2>4, <2>7, <4>1, <4>2 DEF Walks
      <4> QED
        BY <2>7, <4>1, <4>3 DEF InsertAt, SplitsOff, Stores
    <3>2. CASE my[t].s # 0
      <4>1. /\ pc'[t] = "collect" /\ my'[t].chain = Append(my[t].chain, my[t].s)
            /\ my'[t].s = syn[my[t].s].synonym_leaf
        BY <1>6, <2>6, <3>2
      <4>2. size + 1 \in 0 .. n - 1 /\ my[t].s = c[size + 1] /\ size + 1 <= n - 1
        BY <2>2, <2>4, <2>5, <3>2
      <4>3. Len(my'[t].chain) = size + 1 /\ \A q \in 1 .. size + 1 : my'[t].chain[q] = c[q]
        <5>1. /\ Len(my'[t].chain) = size + 1 /\ my'[t].chain[size + 1] = my[t].s
              /\ \A q \in 1 .. size : my'[t].chain[q] = my[t].chain[q]
          BY <1>4, <2>6, <3>2, <4>1
        <5> SUFFICES ASSUME NEW q \in 1 .. size + 1 PROVE my'[t].chain[q] = c[q]
          BY <5>1
        <5>2. q \in 1 .. size \/ q = size + 1
          BY <1>4
        <5> QED
          BY <2>3, <4>2, <5>1, <5>2
      <4>4. my'[t].s = Succ(n, c, size + 1)
        <5>1. link(my[t].s) = Succ(n, c, size + 1)
          BY <2>2, <4>2
        <5> QED
          BY <3>2, <4>1, <5>1 DEF link
      <4>5. Walks(t, n, c, K)'
        BY <2>7, <4>1, <4>2, <4>3, <4>4 DEF Walks
      <4> QED
        BY <2>7, <4>1, <4>5 DEF InsertAt, SplitsOff, Stores
    <3> QED
      BY <3>1, <3>2
  <2>9. Seen(t, n, c, K, V)'
    BY <1>3, <2>1, <2>7, <2>8, ReadStep
  <2> QED
    BY <1>2, <1>7, <1>8, <1>9, <2>9, SeenStep
<1>10. CASE ~ Inside(t)
  <2>1. my[t].op = "search"
    BY <1>2, <1>3, <1>4, <1>10 DEF Inside, Section
  <2>2. ~ Inside(t)'
    BY <1>5, <2>1 DEF Inside
  <2>3. pc[t] \in Outer /\ pc'[t] \in Outer
    BY <1>3, <1>6, <2>1 DEF Outer, Walk
  <2> QED
    BY <1>2, <1>3, <1>8, <2>2, <2>3, OuterStep DEF Goes
<1> QED
  BY <1>9, <1>10

LEMMA ChooseStep ==
  ASSUME OneEntryLoad, InsertInv, NEW t \in Threads, Choose(t)
  PROVE  StepInv(t)
<1>1. /\ LockInv /\ LocalTypes(t) /\ SharedTypes
      /\ DOMAIN pc = Threads /\ DOMAIN my = Threads /\ DOMAIN my[t] = Fields
  BY DEF InsertInv, LockInv
<1>2. Goes(t) /\ my[t].op # "none"
  BY <1>1, PlainGoes DEF Plain
<1>3. /\ pc[t] = "choose"
      /\ UNCHANGED <<table, syn, next, keys, vals, used, present>>
  BY DEF Choose, At, Frame, shared
<1>4. Inside(t) /\ my[t].op = "insert" /\ my[t].i = 0 /\ my[t].key \in Keys
  BY <1>1, <1>2, <1>3, InsertPc, EntryZero DEF Inside
<1>5. /\ my[t].chain \in Seq(Indexes) /\ my[t].p \in 0 .. Len(my[t].chain)
      /\ my[t].cur \in 0 .. Pool - 1 /\ my[t].ok \in BOOLEAN
  BY <1>1 DEF LocalTypes
<1>6. PICK n, c, K, V : Seen(t, n, c, K, V)
  BY <1>4, Enter
<1>7. /\ n \in Nat /\ 0 < n /\ n <= Pool /\ c[0] = 0 /\ Order(n, c) /\ Pool \in Nat
      /\ c \in [0 .. n - 1 -> 0 .. n - 1]
      /\ \A q, r \in 0 .. n - 1 : c[q] = c[r] => q = r
      /\ used = n /\ keys = K
      /\ \A s \in 1 .. n - 1 : syn[s].leaf_num = s
  BY <1>3, <1>6, StartAssumption DEF Seen, Order, ShowsTo, Drawn, Storing
<1>8. /\ Len(my[t].chain) = n - 1 /\ my[t].p \in 0 .. n - 1
      /\ \A q \in my[t].p + 1 .. n - 1 : my[t].key < K[c[q]][0]
      /\ \A q \in 1 .. n - 1 : my[t].chain[q] = c[q]
  BY <1>3, <1>6 DEF Seen, InsertAt, Walks
<1>9. LeafAt(t) = c[my[t].p]
  <2>1. CASE my[t].p = 0
    BY <1>1, <1>4, <1>7, <2>1 DEF LeafAt, SharedTypes
  <2>2. CASE my[t].p # 0
    <3>1. my[t].p \in 1 .. n - 1 /\ my[t].p \in 0 .. n - 1 /\ 0 \in 0 .. n - 1
      BY <1>7, <1>8, <2>2
    <3>2. c[my[t].p] # 0 /\ c[my[t].p] \in 0 .. n - 1
      BY <1>7, <2>2, <3>1
    <3>3. c[my[t].p] \in 1 .. n - 1
      BY <1>7, <3>2
    <3> QED
      BY <1>7, <1>8, <2>2, <3>1, <3>3 DEF LeafAt
  <2> QED
    BY <2>1, <2>2
<1> DEFINE p == my[t].p
<1>10. c[p] \in 0 .. n - 1 /\ c[p] \in 0 .. Pool - 1 /\ ~ Absent(c[p])
  <2>1. c[p] \in 0 .. n - 1
    BY <1>7, <1>8
  <2>2. \A l \in 0 .. n - 1 : l \in 0 .. Pool - 1 /\ l <= n /\ l # Pool
    BY <1>7
  <2>3. \A l \in 0 .. n - 1 : ~ (l > n)
    BY <1>7
  <2> QED
    BY <1>7, <2>1, <2>2, <2>3 DEF Absent
<1>11. my'[t].key = my[t].key /\ my'[t].op = "insert"
  BY <1>2, <1>4 DEF Goes
<1>12. CASE p = 0 \/ insertHere(c[p], my[t].key)
  <2>1. /\ pc'[t] = "look" /\ my'[t].cur = c[p] /\ my'[t].p = p /\ my'[t].chain = my[t].chain
        /\ my'[t].idx = (IF p = 0 THEN 0 ELSE my[t].chain[p]) /\ my'[t].ok = my[t].ok
    BY <1>1, <1>4, <1>9, <1>10, <1>12 DEF Choose, Goto, Fields
  <2>2. my'[t].idx = c[p]
    <3>1. p # 0 => p \in 1 .. n - 1
      BY <1>7, <1>8
    <3> QED
      BY <1>7, <1>8, <2>1, <3>1
  <2>3. Chosen(n, c, K, p, my[t].key)
    BY <1>7, <1>8, <1>12 DEF Chosen, insertHere
  <2>4. InsertAt(t, n, c, K, V)'
    BY <1>11, <2>1, <2>2, <2>3 DEF InsertAt, Walks, SplitsOff, Stores, Splits, Drawn, Storing
  <2>5. Seen(t, n, c, K, V)'
    BY <1>3, <1>6, <2>1, <2>4, ReadStep DEF Drawn, Storing, Added
  <2>6. LocalTypes(t)' /\ SharedTypes'
    BY <1>1, <1>3, <1>5, <1>10, <1>11, <2>1 DEF LocalTypes, SharedTypes
  <2> QED
    BY <1>2, <1>4, <2>5, <2>6, SeenStep
<1>13. CASE ~ (p = 0 \/ insertHere(c[p], my[t].key))
  <2>1. /\ pc'[t] = "choose" /\ my'[t].cur = my[t].cur /\ my'[t].p = p - 1 /\ my'[t].chain = my[t].chain
        /\ my'[t].ok = my[t].ok
    BY <1>1, <1>3, <1>9, <1>10, <1>13 DEF Choose, Goto, Local, Fields
  <2>2. p - 1 \in 0 .. n - 1 /\ p - 1 \in 0 .. Len(my[t].chain)
    BY <1>5, <1>7, <1>8, <1>13
  <2>3. my[t].key < K[c[p]][0]
    <3>1. ~ (my[t].key >= K[c[p]][0]) /\ my[t].key \in Nat
      BY <1>4, <1>7, <1>13, ConcAssumption DEF insertHere, Keys
    <3>2. K[c[p]][0] \in 0 .. InvalidKey
      <4>1. K \in [0 .. Pool - 1 -> [Slots -> 0 .. InvalidKey]]
        BY <1>6 DEF Seen, Leaves, KeyArrays
      <4>2. 0 \in Slots /\ c[p] \in 0 .. Pool - 1
        BY <1>10, ConcAssumption DEF Slots
      <4> HIDE DEF p
      <4> QED
        BY <4>1, <4>2
    <3> QED
      BY <3>1, <3>2, ConcAssumption
  <2>4. \A q \in p - 1 + 1 .. n - 1 : my[t].key < K[c[q]][0]
    <3> SUFFICES ASSUME NEW q \in p - 1 + 1 .. n - 1 PROVE my[t].key < K[c[q]][0]
      OBVIOUS
    <3>1. q = p \/ q \in p + 1 .. n - 1
      BY <1>7, <1>8
    <3> QED
      BY <1>8, <2>3, <3>1
  <2>5. InsertAt(t, n, c, K, V)'
    BY <1>8, <1>11, <2>1, <2>2, <2>4 DEF InsertAt, Walks, SplitsOff, Stores, Splits, Drawn, Storing
  <2>6. Seen(t, n, c, K, V)'
    BY <1>3, <1>6, <2>1, <2>5, ReadStep DEF Drawn, Storing, Added
  <2>7. LocalTypes(t)' /\ SharedTypes'
    BY <1>1, <1>3, <1>5, <1>11, <2>1, <2>2 DEF LocalTypes, SharedTypes
  <2> QED
    BY <1>2, <1>4, <2>6, <2>7, SeenStep
<1> QED
  BY <1>12, <1>13

\* A key that is not in the leaf where it goes is in no leaf.
LEMMA AbsentLemma ==
  ASSUME NEW n, NEW c, NEW K, NEW V, Order(n, c), Leaves(n, c, K, V),
         NEW p, NEW k \in Keys, Chosen(n, c, K, p, k), has(K, k)
  PROVE  K[c[p]][0] <= k /\ \E x \in Slots : K[c[p]][x] = k
<1>1. /\ n \in Nat /\ n > 0 /\ n <= Pool /\ Pool \in Nat /\ c \in [0 .. n - 1 -> 0 .. n - 1]
      /\ \A s \in 0 .. n - 1 : \E q \in 0 .. n - 1 : c[q] = s
      /\ p \in 0 .. n - 1 /\ (p = 0 \/ K[c[p]][0] <= k)
      /\ \A q \in p + 1 .. n - 1 : k < K[c[q]][0]
  BY StartAssumption DEF Order, Chosen
<1>2. /\ N \in Nat /\ N > 1 /\ InvalidKey \in Nat /\ 0 \in Slots /\ k \in Nat /\ k < InvalidKey
  BY ConcAssumption DEF Slots, Keys
<1>3. \A q \in 0 .. n - 1 : c[q] \in 0 .. Pool - 1
  <2>1. \A l \in 0 .. n - 1 : l \in 0 .. Pool - 1
    BY <1>1
  <2> QED
    BY <1>1, <2>1
<1>4. \A q \in 0 .. n - 1 : \A x \in Slots : K[c[q]][x] \in Nat /\ K[c[q]][0] <= K[c[q]][x]
  <2> SUFFICES ASSUME NEW q \in 0 .. n - 1
               PROVE  \A x \in Slots : K[c[q]][x] \in Nat /\ K[c[q]][0] <= K[c[q]][x]
    OBVIOUS
  <2>1. K[c[q]] \in [Slots -> 0 .. InvalidKey] /\ SortedKeys(K[c[q]])
    BY <1>3 DEF Leaves, KeyArrays
  <2> QED
    BY <1>2, <2>1, RowOrder
<1>5. PICK l \in 0 .. Pool - 1, x \in Slots : K[l][x] = k
  BY DEF has
<1>6. l \in 0 .. n - 1
  <2>1. l \notin n .. Pool - 1
    BY <1>2, <1>5 DEF Leaves
  <2> QED
    BY <1>1, <2>1
<1>7. PICK q \in 0 .. n - 1 : c[q] = l
  BY <1>1, <1>6
<1>8. ~ (q > p)
  <2> SUFFICES ASSUME q > p PROVE FALSE
    OBVIOUS
  <2>1. q \in p + 1 .. n - 1
    BY <1>1
  <2>2. k < K[c[q]][0] /\ K[c[q]][0] <= k /\ K[c[q]][0] \in Nat
    BY <1>1, <1>2, <1>4, <1>5, <1>7, <2>1
  <2> QED
    BY <1>2, <2>2
<1>9. ~ (q < p)
  <2> SUFFICES ASSUME q < p PROVE FALSE
    OBVIOUS
  <2>0. p \in Nat /\ q \in Nat
    BY <1>1
  <2>a. p # 0
    BY <2>0
  <2>1. p # 0 /\ K[c[p]][0] <= k /\ K[c[p]][0] \in Nat
    BY <1>1, <1>2, <1>4, <2>a
  <2>2. K[c[p]][0] # InvalidKey
    BY <1>2, <2>1
  <2>3. k < K[c[p]][0]
    <3>1. \A y, z \in Slots : K[c[q]][y] # InvalidKey /\ K[c[p]][z] # InvalidKey
                                 => K[c[q]][y] < K[c[p]][z]
      BY <1>1 DEF Leaves, Rising
    <3> QED
      BY <1>2, <1>5, <1>7, <2>2, <3>1
  <2> QED
    BY <1>2, <2>1, <2>3
<1>10. q = p
  BY <1>1, <1>8, <1>9
<1> QED
  BY <1>4, <1>5, <1>7, <1>10

LEMMA LookStep ==
  ASSUME OneEntryLoad, InsertInv, NEW t \in Threads, Look(t)
  PROVE  StepInv(t)
<1>1. /\ LockInv /\ LocalTypes(t) /\ SharedTypes
      /\ DOMAIN pc = Threads /\ DOMAIN my = Threads /\ DOMAIN my[t] = Fields
  BY DEF InsertInv, LockInv
<1>2. Goes(t) /\ my[t].op # "none"
  BY <1>1, PlainGoes DEF Plain
<1>3. /\ pc[t] = "look"
      /\ UNCHANGED <<table, syn, next, keys, vals, used, present>>
  BY DEF Look, At, Frame, shared
<1>4. Inside(t) /\ my[t].key \in Keys
  BY <1>1, <1>2, <1>3, InsertPc, EntryZero
<1>5. PICK n, c, K, V : Seen(t, n, c, K, V)
  BY <1>4, Enter
<1> DEFINE m == my[t]
<1>6. /\ Order(n, c) /\ Leaves(n, c, K, V) /\ next = n /\ keys = K /\ n \in Nat /\ n < SynonymMax
      /\ Chosen(n, c, K, m.p, m.key) /\ m.cur = c[m.p] /\ m.idx = c[m.p] /\ m.p \in 0 .. n - 1
  BY <1>3, <1>5 DEF Seen, Order, ShowsTo, Drawn, Storing, InsertAt, Walks, Chosen
<1>7. /\ my'[t].key = m.key /\ my'[t].op = m.op /\ my'[t].cur = m.cur /\ my'[t].idx = m.idx
      /\ my'[t].p = m.p /\ my'[t].chain = m.chain
  BY <1>1 DEF Look, Local, Fields
<1> DEFINE full == K[m.cur][N - 1] # InvalidKey
           refused == contain(m.cur, m.key) \/ (full /\ next = SynonymMax - 1)
<1>8. /\ my'[t].ok = ~ refused
      /\ pc'[t] = IF refused THEN "csunlock" ELSE IF full THEN "fetch" ELSE "shiftkeys"
  BY <1>1, <1>6 DEF Look, Local, Goto, Fields
<1>9. ~ refused => ~ has(K, m.key)
  <2> SUFFICES ASSUME has(K, m.key) PROVE contain(m.cur, m.key)
    OBVIOUS
  <2>1. K[c[m.p]][0] <= m.key /\ \E x \in Slots : K[c[m.p]][x] = m.key
    BY <1>4, <1>6, AbsentLemma
  <2> QED
    BY <1>6, <2>1 DEF contain, found
<1>10. refused \in BOOLEAN
  BY DEF contain
<1> HIDE DEF refused, full
<1>11. LocalTypes(t)' /\ SharedTypes'
  BY <1>1, <1>3, <1>7, <1>8, <1>10 DEF LocalTypes, SharedTypes
<1>12. /\ pc[t] \notin Drawn /\ pc'[t] \notin Drawn /\ pc[t] \notin Storing /\ pc'[t] \notin Storing
       /\ ~ Added(t) /\ ~ Added(t)'
  BY <1>3, <1>8 DEF Drawn, Storing, Added
<1>13. InsertAt(t, n, c, K, V)'
  <2>1. CASE refused
    <3>1. pc'[t] = "csunlock"
      BY <1>8, <2>1
    <3> QED
      BY <3>1 DEF InsertAt, Walks, SplitsOff, Stores, Splits, Drawn, Storing
  <2>2. CASE ~ refused /\ full
    <3>1. pc'[t] = "fetch" /\ my'[t].ok = TRUE
      BY <1>8, <2>2
    <3>2. n < SynonymMax - 1
      <4>1. n # SynonymMax - 1
        BY <1>6, <2>2 DEF refused
      <4> QED
        BY <1>6, <4>1, ConcAssumption
    <3>3. Walks(t, n, c, K)'
      BY <1>6, <1>7, <3>1 DEF Walks, Splits, Drawn
    <3>4. SplitsOff(t, n, c, K)'
      BY <1>7, <1>9, <2>2, <3>1, <3>2 DEF SplitsOff, Splits, Drawn, full
    <3>5. Stores(t, n, c, K, V)'
      BY <3>1 DEF Stores, Storing
    <3> QED
      BY <3>3, <3>4, <3>5 DEF InsertAt
  <2>3. CASE ~ refused /\ ~ full
    <3>1. pc'[t] = "shiftkeys" /\ my'[t].ok = TRUE
      BY <1>8, <2>3
    <3>2. Walks(t, n, c, K)'
      BY <3>1 DEF Walks, Splits, Drawn
    <3>3. SplitsOff(t, n, c, K)'
      BY <1>7, <1>9, <2>3, <3>1 DEF SplitsOff, Splits, Drawn
    <3>4. Stores(t, n, c, K, V)'
      BY <1>6, <1>7, <2>3, <3>1 DEF Stores, Storing, full
    <3> QED
      BY <3>2, <3>3, <3>4 DEF InsertAt
  <2> QED
    BY <2>1, <2>2, <2>3
<1>14. Seen(t, n, c, K, V)'
  BY <1>3, <1>5, <1>12, <1>13, ReadStep
<1> QED
  BY <1>2, <1>4, <1>11, <1>14, SeenStep

LEMMA FetchStep ==
  ASSUME OneEntryLoad, InsertInv, NEW t \in Threads, Fetch(t)
  PROVE  StepInv(t)
<1>1. /\ LockInv /\ LocalTypes(t) /\ SharedTypes
      /\ DOMAIN pc = Threads /\ DOMAIN my = Threads /\ DOMAIN my[t] = Fields
  BY DEF InsertInv, LockInv
<1>2. Goes(t) /\ my[t].op # "none"
  BY <1>1, PlainGoes DEF Plain
<1>3. /\ pc[t] = "fetch"
      /\ UNCHANGED <<table, syn, next, keys, vals, present>>
  BY DEF Fetch, At, Frame
<1>4. Inside(t)
  BY <1>3, InsertPc DEF Splits
<1>5. PICK n, c, K, V : Seen(t, n, c, K, V)
  BY <1>4, Enter
<1> DEFINE m == my[t]
<1>6. /\ next = n /\ used = n /\ keys = K /\ vals = V /\ n \in Nat /\ n < SynonymMax - 1 /\ n <= Pool
      /\ Chosen(n, c, K, m.p, m.key) /\ m.cur = c[m.p] /\ m.idx = c[m.p]
      /\ ~ has(K, m.key) /\ m.ok = TRUE /\ K[m.cur][N - 1] # InvalidKey
  BY <1>3, <1>5 DEF Seen, Order, ShowsTo, Drawn, Storing, InsertAt, Walks, SplitsOff, Splits
<1>7. /\ my'[t].key = m.key /\ my'[t].op = m.op /\ my'[t].cur = m.cur /\ my'[t].idx = m.idx
      /\ my'[t].p = m.p /\ my'[t].chain = m.chain /\ my'[t].ok = m.ok
      /\ \/ used = Pool /\ used' = used /\ pc'[t] = "crashed"
         \/ used # Pool /\ used' = used + 1 /\ my'[t].new = used /\ pc'[t] = "emplace"
  BY <1>1 DEF Fetch, Local, Goto, Fields
<1>8. LocalTypes(t)'
  BY <1>1, <1>7 DEF LocalTypes
<1>9. SharedTypes'
  <2>1. used' \in 1 .. Pool
    BY <1>1, <1>7, StartAssumption DEF SharedTypes
  <2> QED
    BY <1>1, <1>3, <2>1 DEF SharedTypes
<1>10. \A s : link(s)' = link(s)
  BY <1>3 DEF link
<1>11. pc[t] \notin Storing /\ pc[t] \notin Drawn /\ pc'[t] \notin Storing /\ ~ Added(t) /\ ~ Added(t)'
  BY <1>3, <1>7 DEF Drawn, Storing, Added
<1>12. HoldsFor(t, K)'
  BY <1>3, <1>5, <1>11 DEF Seen, HoldsFor
<1>13. ShowsTo(t, n, c, K, V)'
  BY <1>3, <1>5, <1>6, <1>7, <1>10 DEF Seen, ShowsTo, Drawn
<1>14. InsertAt(t, n, c, K, V)'
  <2>1. CASE used = Pool
    <3>1. pc'[t] = "crashed"
      BY <1>7, <2>1
    <3> QED
      BY <1>6, <2>1, <3>1 DEF InsertAt, Walks, SplitsOff, Stores, Splits, Drawn, Storing
  <2>2. CASE used # Pool
    <3>1. pc'[t] = "emplace" /\ my'[t].new = n /\ used' = n + 1
      BY <1>6, <1>7, <2>2
    <3>2. n < Pool
      BY <1>6, <2>2, StartAssumption
    <3>3. Walks(t, n, c, K)'
      BY <1>6, <1>7, <3>1 DEF Walks, Splits, Drawn
    <3>4. SplitsOff(t, n, c, K)'
      BY <1>6, <1>7, <3>1, <3>2 DEF SplitsOff, Splits, Drawn
    <3>5. Stores(t, n, c, K, V)'
      BY <3>1 DEF Stores, Storing
    <3> QED
      BY <3>3, <3>4, <3>5 DEF InsertAt
  <2> QED
    BY <2>1, <2>2
<1>15. Seen(t, n, c, K, V)'
  BY <1>5, <1>12, <1>13, <1>14 DEF Seen
<1> QED
  BY <1>2, <1>4, <1>8, <1>9, <1>15, SeenStep

\* What is known while a leaf has been drawn and its slot is not in the table
LEMMA DrawnFacts ==
  ASSUME NEW t \in Threads, pc[t] \in Drawn, NEW n, NEW c, NEW K, NEW V, Seen(t, n, c, K, V)
  PROVE  /\ keys = K /\ vals = V /\ used = n + 1 /\ n < SynonymMax - 1 /\ n < Pool /\ my[t].new = n
         /\ Order(n, c) /\ n \in Nat /\ 0 < n
         /\ Chosen(n, c, K, my[t].p, my[t].key) /\ my[t].p \in 0 .. n - 1
         /\ my[t].cur = c[my[t].p] /\ my[t].idx = c[my[t].p]
         /\ ~ has(K, my[t].key) /\ my[t].ok = TRUE /\ K[my[t].cur][N - 1] # InvalidKey
         /\ pc[t] \notin Storing /\ ~ Added(t)
<1>1. pc[t] \in Splits /\ pc[t] \notin Storing /\ ~ Added(t)
  BY DEF Splits, Drawn, Storing, Added
<1> QED
  BY <1>1 DEF Seen, Order, ShowsTo, InsertAt, Walks, SplitsOff, Chosen

\* The part of Seen that a step of the split to another such step keeps
LEMMA DrawnKept ==
  ASSUME NEW t \in Threads, pc[t] \in Drawn, pc'[t] \in Drawn, NEW n, NEW c, NEW K, NEW V,
         Seen(t, n, c, K, V), UNCHANGED <<keys, vals, used, present>>,
         my'[t].key = my[t].key, my'[t].cur = my[t].cur, my'[t].idx = my[t].idx,
         my'[t].p = my[t].p, my'[t].ok = my[t].ok, my'[t].new = my[t].new,
         \A s \in 1 .. n - 1 : syn'[s].leaf_num = syn[s].leaf_num,
         pc'[t] \notin {"link", "fill"} => next' = n,
         pc'[t] # "fill" => \A p \in 0 .. n - 1 : link(c[p])' = Succ(n, c, p),
         pc'[t] \in {"bump", "link", "fill"} => my'[t].s = n,
         pc'[t] \in {"link", "fill"} => next' = n + 1,
         pc'[t] = "fill" =>
           /\ my'[t].at = Succ(n, c, my[t].p)
           /\ \A p \in 0 .. n - 1 : link(c[p])' = IF p = my[t].p THEN n ELSE Succ(n, c, p)
  PROVE  Seen(t, n, c, K, V)'
<1>1. /\ keys = K /\ vals = V /\ used = n + 1 /\ n < SynonymMax - 1 /\ n < Pool /\ my[t].new = n
      /\ Order(n, c) /\ n \in Nat /\ 0 < n
      /\ Chosen(n, c, K, my[t].p, my[t].key) /\ my[t].p \in 0 .. n - 1
      /\ my[t].cur = c[my[t].p] /\ my[t].idx = c[my[t].p]
      /\ ~ has(K, my[t].key) /\ my[t].ok = TRUE /\ K[my[t].cur][N - 1] # InvalidKey
      /\ pc[t] \notin Storing /\ ~ Added(t)
  BY DrawnFacts, Zenon
<1> DEFINE m == my[t]
<1>2. /\ pc'[t] \in Splits /\ pc'[t] \notin Storing /\ ~ Added(t)'
      /\ pc'[t] \notin {"collect", "choose", "look", "looping", "crashed", "fetch", "move", "shiftkeys"}
      /\ pc'[t] \notin {"shiftvals", "putkey", "putval"}
  BY DEF Splits, Drawn, Storing, Added
<1>3. ShowsTo(t, n, c, K, V)'
  BY <1>1, <1>2 DEF Seen, ShowsTo
<1>4. HoldsFor(t, K)'
  BY <1>1, <1>2 DEF Seen, HoldsFor
<1>5. Walks(t, n, c, K)'
  BY <1>1, <1>2 DEF Walks
<1>6. SplitsOff(t, n, c, K)'
  BY <1>1, <1>2 DEF SplitsOff
<1>7. Stores(t, n, c, K, V)'
  BY <1>2 DEF Stores
<1> QED
  BY <1>3, <1>4, <1>5, <1>6, <1>7 DEF Seen, InsertAt

LEMMA EmplaceStep ==
  ASSUME OneEntryLoad, InsertInv, NEW t \in Threads, Emplace(t)
  PROVE  StepInv(t)
<1>1. /\ LockInv /\ LocalTypes(t) /\ SharedTypes
      /\ DOMAIN pc = Threads /\ DOMAIN my = Threads /\ DOMAIN my[t] = Fields
  BY DEF InsertInv, LockInv
<1>2. Goes(t) /\ my[t].op # "none"
  BY <1>1, PlainGoes DEF Plain
<1>3. /\ pc[t] = "emplace"
      /\ UNCHANGED <<table, syn, next, keys, vals, used, present>>
  BY DEF Emplace, At, Frame, shared
<1>4. Inside(t) /\ my[t].i = 0 /\ my[t].key \in Keys
  BY <1>1, <1>2, <1>3, InsertPc, EntryZero DEF Splits, Drawn
<1>5. PICK n, c, K, V : Seen(t, n, c, K, V)
  BY <1>4, Enter
<1> DEFINE m == my[t]
<1>6. /\ next \in Nat /\ n \in Nat /\ n < SynonymMax - 1 /\ \A p \in 0 .. n - 1 : link(c[p]) = Succ(n, c, p)
      /\ pc[t] \notin {"link", "fill"} => next = n
  <2>1. pc[t] \in Drawn
    BY <1>3 DEF Drawn
  <2> QED
    BY <1>1, <1>3, <1>5, <2>1, DrawnFacts DEF Seen, ShowsTo, SharedTypes
<1>7. /\ pc'[t] = "take"
      /\ my'[t].op = m.op /\ my'[t].key = m.key /\ my'[t].cur = m.cur /\ my'[t].idx = m.idx
      /\ my'[t].p = m.p /\ my'[t].chain = m.chain /\ my'[t].ok = m.ok /\ my'[t].new = m.new
  <2>1. next # SynonymMax - 1
    BY <1>3, <1>6, ConcAssumption
  <2> QED
    BY <1>1, <2>1 DEF Emplace, Goto
<1>8. LocalTypes(t)'
  BY <1>1, <1>7 DEF LocalTypes
<1>9. SharedTypes'
  BY <1>1, <1>3 DEF SharedTypes
<1>10. Seen(t, n, c, K, V)'
  <2>1. pc[t] \in Drawn /\ pc'[t] \in Drawn
    BY <1>3, <1>7 DEF Drawn
  <2>2. \A s : link(s)' = link(s)
    BY <1>3 DEF link
  <2> QED
    BY <1>3, <1>5, <1>6, <1>7, <2>1, <2>2, DrawnKept
<1> QED
  BY <1>2, <1>4, <1>8, <1>9, <1>10, SeenStep

LEMMA TakeStep ==
  ASSUME OneEntryLoad, InsertInv, NEW t \in Threads, Take(t)
  PROVE  StepInv(t)
<1>1. /\ LockInv /\ LocalTypes(t) /\ SharedTypes
      /\ DOMAIN pc = Threads /\ DOMAIN my = Threads /\ DOMAIN my[t] = Fields
  BY DEF InsertInv, LockInv
<1>2. Goes(t) /\ my[t].op # "none"
  BY <1>1, PlainGoes DEF Plain
<1>3. /\ pc[t] = "take"
      /\ UNCHANGED <<table, syn, next, keys, vals, used, present>>
  BY DEF Take, At, Frame, shared
<1>4. Inside(t) /\ my[t].i = 0 /\ my[t].key \in Keys
  BY <1>1, <1>2, <1>3, InsertPc, EntryZero DEF Splits, Drawn
<1>5. PICK n, c, K, V : Seen(t, n, c, K, V)
  BY <1>4, Enter
<1> DEFINE m == my[t]
<1>6. /\ next \in Nat /\ n \in Nat /\ n < SynonymMax - 1 /\ \A p \in 0 .. n - 1 : link(c[p]) = Succ(n, c, p)
      /\ pc[t] \notin {"link", "fill"} => next = n
  <2>1. pc[t] \in Drawn
    BY <1>3 DEF Drawn
  <2> QED
    BY <1>1, <1>3, <1>5, <2>1, DrawnFacts DEF Seen, ShowsTo, SharedTypes
<1>7. /\ pc'[t] = "bump"
      /\ my'[t].op = m.op /\ my'[t].key = m.key /\ my'[t].cur = m.cur /\ my'[t].idx = m.idx
      /\ my'[t].p = m.p /\ my'[t].chain = m.chain /\ my'[t].ok = m.ok /\ my'[t].new = m.new
      /\ my'[t].s = next
  BY <1>1 DEF Take, Goto, Local, Fields
<1>8. LocalTypes(t)'
  BY <1>1, <1>7 DEF LocalTypes
<1>9. SharedTypes'
  BY <1>1, <1>3 DEF SharedTypes
<1>10. Seen(t, n, c, K, V)'
  <2>1. pc[t] \in Drawn /\ pc'[t] \in Drawn
    BY <1>3, <1>7 DEF Drawn
  <2>2. \A s : link(s)' = link(s)
    BY <1>3 DEF link
  <2> QED
    BY <1>3, <1>5, <1>6, <1>7, <2>1, <2>2, DrawnKept
<1> QED
  BY <1>2, <1>4, <1>8, <1>9, <1>10, SeenStep

LEMMA BumpStep ==
  ASSUME OneEntryLoad, InsertInv, NEW t \in Threads, Bump(t)
  PROVE  StepInv(t)
<1>1. /\ LockInv /\ LocalTypes(t) /\ SharedTypes
      /\ DOMAIN pc = Threads /\ DOMAIN my = Threads /\ DOMAIN my[t] = Fields
  BY DEF InsertInv, LockInv
<1>2. Goes(t) /\ my[t].op # "none"
  BY <1>1, PlainGoes DEF Plain
<1>3. /\ pc[t] = "bump"
      /\ UNCHANGED <<table, syn, keys, vals, used, present>>
  BY DEF Bump, At, Frame, shared
<1>4. Inside(t) /\ my[t].i = 0 /\ my[t].key \in Keys
  BY <1>1, <1>2, <1>3, InsertPc, EntryZero DEF Splits, Drawn
<1>5. PICK n, c, K, V : Seen(t, n, c, K, V)
  BY <1>4, Enter
<1> DEFINE m == my[t]
<1>6. /\ next \in Nat /\ n \in Nat /\ n < SynonymMax - 1 /\ \A p \in 0 .. n - 1 : link(c[p]) = Succ(n, c, p)
      /\ pc[t] \notin {"link", "fill"} => next = n
  <2>1. pc[t] \in Drawn
    BY <1>3 DEF Drawn
  <2> QED
    BY <1>1, <1>3, <1>5, <2>1, DrawnFacts DEF Seen, ShowsTo, SharedTypes
<1>7. /\ pc'[t] = "link"
      /\ my'[t].op = m.op /\ my'[t].key = m.key /\ my'[t].cur = m.cur /\ my'[t].idx = m.idx
      /\ my'[t].p = m.p /\ my'[t].chain = m.chain /\ my'[t].ok = m.ok /\ my'[t].new = m.new
      /\ my'[t].s = m.s /\ m.s = n /\ next' = n + 1
  <2>1. m.s = n
    BY <1>3, <1>5 DEF Seen, InsertAt, SplitsOff
  <2> QED
    BY <1>1, <2>1 DEF Bump, Goto
<1>8. LocalTypes(t)'
  BY <1>1, <1>7 DEF LocalTypes
<1>9. SharedTypes'
  BY <1>1, <1>3, <1>6, <1>7 DEF SharedTypes
<1>10. Seen(t, n, c, K, V)'
  <2>1. pc[t] \in Drawn /\ pc'[t] \in Drawn
    BY <1>3, <1>7 DEF Drawn
  <2>2. \A s : link(s)' = link(s)
    BY <1>3 DEF link
  <2> QED
    BY <1>3, <1>5, <1>6, <1>7, <2>1, <2>2, DrawnKept
<1> QED
  BY <1>2, <1>4, <1>8, <1>9, <1>10, SeenStep

LEMMA LinkStep ==
  ASSUME OneEntryLoad, InsertInv, NEW t \in Threads, Link(t)
  PROVE  StepInv(t)
<1>1. /\ LockInv /\ LocalTypes(t) /\ SharedTypes
      /\ DOMAIN pc = Threads /\ DOMAIN my = Threads /\ DOMAIN my[t] = Fields
  BY DEF InsertInv, LockInv
<1>2. Goes(t) /\ my[t].op # "none"
  BY <1>1, PlainGoes DEF Plain
<1>3. /\ pc[t] = "link"
      /\ UNCHANGED <<next, keys, vals, used, present>>
  BY DEF Link, At, Frame, shared
<1>4. Inside(t) /\ my[t].i = 0 /\ my[t].key \in Keys
  BY <1>1, <1>2, <1>3, InsertPc, EntryZero DEF Splits, Drawn
<1>5. PICK n, c, K, V : Seen(t, n, c, K, V)
  BY <1>4, Enter
<1> DEFINE m == my[t]
<1>6. /\ next \in Nat /\ n \in Nat /\ n < SynonymMax - 1 /\ \A q \in 0 .. n - 1 : link(c[q]) = Succ(n, c, q)
      /\ next = n + 1 /\ m.s = n /\ m.p \in 0 .. n - 1 /\ m.idx = c[m.p] /\ Order(n, c)
  <2>1. pc[t] \in Drawn
    BY <1>3 DEF Drawn
  <2>2. n \in Nat /\ n < SynonymMax - 1 /\ m.p \in 0 .. n - 1 /\ m.idx = c[m.p] /\ Order(n, c)
    BY <1>5, <2>1, DrawnFacts
  <2> QED
    BY <1>1, <1>3, <1>5, <2>2 DEF Seen, ShowsTo, SharedTypes, InsertAt, SplitsOff
<1>7. /\ c \in [0 .. n - 1 -> 0 .. n - 1] /\ \A q, r \in 0 .. n - 1 : c[q] = c[r] => q = r
  BY <1>6 DEF Order
<1>8. /\ pc'[t] = "fill"
      /\ my'[t].op = m.op /\ my'[t].key = m.key /\ my'[t].cur = m.cur /\ my'[t].idx = m.idx
      /\ my'[t].p = m.p /\ my'[t].chain = m.chain /\ my'[t].ok = m.ok /\ my'[t].new = m.new
      /\ my'[t].s = m.s /\ my'[t].at = link(m.idx)
      /\ m.idx = 0 => table' = [table EXCEPT ![0].synonym_leaf = n] /\ syn' = syn
      /\ m.idx # 0 => syn' = [syn EXCEPT ![m.idx].synonym_leaf = n] /\ table' = table
  <2>1. CASE m.idx = 0
    BY <1>1, <1>4, <1>6, <2>1 DEF Link, Goto, Local, Fields, link
  <2>2. CASE m.idx # 0
    BY <1>1, <1>4, <1>6, <2>2 DEF Link, Goto, Local, Fields, link
  <2> QED
    BY <2>1, <2>2
<1>9. LocalTypes(t)'
  BY <1>1, <1>8 DEF LocalTypes
<1>10. m.idx \in 0 .. n - 1 /\ n \in 0 .. SynonymMax /\ (m.idx # 0 => m.idx \in Indexes)
  <2>1. m.idx \in 0 .. n - 1
    BY <1>6, <1>7
  <2>2. \A l \in 0 .. n - 1 : l # 0 => l \in Indexes
    BY <1>6, ConcAssumption DEF Indexes
  <2> QED
    BY <1>6, <2>1, <2>2, ConcAssumption
<1>11. /\ \A s \in 0 .. n - 1 : link(s)' = IF s = m.idx THEN n ELSE link(s)
       /\ \A s \in Indexes : syn'[s].leaf_num = syn[s].leaf_num
  <2>1. CASE m.idx = 0
    <3>1. table'[0].synonym_leaf = n
      BY <1>1, <1>8, <2>1 DEF SharedTypes
    <3> QED
      BY <1>8, <2>1, <3>1 DEF link
  <2>2. CASE m.idx # 0
    <3>1. syn'[m.idx].synonym_leaf = n /\ \A s \in Indexes : s # m.idx => syn'[s] = syn[s]
      BY <1>1, <1>8, <1>10, <2>2 DEF SharedTypes
    <3>2. \A s \in Indexes : syn'[s].leaf_num = syn[s].leaf_num
      BY <1>1, <1>8, <1>10, <2>2 DEF SharedTypes
    <3>3. \A s \in 0 .. n - 1 : s = 0 \/ s \in Indexes
      BY <1>6, ConcAssumption DEF Indexes
    <3> QED
      BY <1>8, <2>2, <3>1, <3>2, <3>3 DEF link
  <2> QED
    BY <2>1, <2>2
<1>12. SharedTypes'
  <2>1. CASE m.idx = 0
    BY <1>1, <1>3, <1>8, <1>10, <2>1 DEF SharedTypes
  <2>2. CASE m.idx # 0
    BY <1>1, <1>3, <1>8, <1>10, <2>2 DEF SharedTypes
  <2> QED
    BY <2>1, <2>2
<1>13. Seen(t, n, c, K, V)'
  <2>1. pc[t] \in Drawn /\ pc'[t] \in Drawn
    BY <1>3, <1>8 DEF Drawn
  <2>2. my'[t].at = Succ(n, c, m.p) /\ my'[t].s = n /\ next' = n + 1
    BY <1>3, <1>6, <1>8
  <2>3. \A q \in 0 .. n - 1 : link(c[q])' = IF q = m.p THEN n ELSE Succ(n, c, q)
    BY <1>6, <1>7, <1>11
  <2>4. \A s \in 1 .. n - 1 : syn'[s].leaf_num = syn[s].leaf_num
    <3>1. \A s \in 1 .. n - 1 : s \in Indexes
      BY <1>6, ConcAssumption DEF Indexes
    <3> QED
      BY <1>11, <3>1
  <2> QED
    BY <1>3, <1>5, <1>8, <2>1, <2>2, <2>3, <2>4, DrawnKept
<1> QED
  BY <1>2, <1>4, <1>9, <1>12, <1>13, SeenStep

LEMMA FillStep ==
  ASSUME OneEntryLoad, InsertInv, NEW t \in Threads, Fill(t)
  PROVE  StepInv(t)
<1>1. /\ LockInv /\ LocalTypes(t) /\ SharedTypes
      /\ DOMAIN pc = Threads /\ DOMAIN my = Threads /\ DOMAIN my[t] = Fields
  BY DEF InsertInv, LockInv
<1>2. Goes(t) /\ my[t].op # "none"
  BY <1>1, PlainGoes DEF Plain
<1>3. /\ pc[t] = "fill"
      /\ UNCHANGED <<table, next, keys, vals, used, present>>
  BY DEF Fill, At, Frame, shared
<1>4. Inside(t) /\ my[t].i = 0 /\ my[t].key \in Keys
  BY <1>1, <1>2, <1>3, InsertPc, EntryZero DEF Splits, Drawn
<1>5. PICK n, c, K, V : Seen(t, n, c, K, V)
  BY <1>4, Enter
<1> DEFINE m == my[t]
<1>6. /\ keys = K /\ vals = V /\ used = n + 1 /\ n < SynonymMax - 1 /\ n < Pool /\ my[t].new = n
      /\ Order(n, c) /\ n \in Nat /\ 0 < n
      /\ Chosen(n, c, K, my[t].p, my[t].key) /\ my[t].p \in 0 .. n - 1
      /\ my[t].cur = c[my[t].p] /\ my[t].idx = c[my[t].p]
      /\ ~ has(K, my[t].key) /\ my[t].ok = TRUE /\ K[my[t].cur][N - 1] # InvalidKey
      /\ pc[t] \notin Storing /\ ~ Added(t)
  <2>1. pc[t] \in Drawn
    BY <1>3 DEF Drawn
  <2> QED
    BY <1>5, <2>1, DrawnFacts
<1>7. /\ next = n + 1 /\ m.s = n /\ m.at = Succ(n, c, m.p)
      /\ \A q \in 0 .. n - 1 : link(c[q]) = IF q = m.p THEN n ELSE Succ(n, c, q)
      /\ \A s \in 1 .. n - 1 : syn[s].leaf_num = s
      /\ Leaves(n, c, K, V) /\ HoldsFor(t, K)
  BY <1>3, <1>5 DEF Seen, InsertAt, SplitsOff, ShowsTo
<1>8. n \in Indexes
  BY <1>6, ConcAssumption DEF Indexes
<1>9. /\ pc'[t] = "move" /\ my' = my
      /\ syn' = [syn EXCEPT ![n] = [leaf_num |-> n, synonym_leaf |-> m.at]]
  BY <1>1, <1>6, <1>7, <1>8 DEF Fill, Goto
<1>10. LocalTypes(t)'
  BY <1>1, <1>9 DEF LocalTypes
<1>11. SharedTypes'
  <2>1. m.at \in 0 .. SynonymMax /\ n \in 0 .. Pool + 1
    <3>1. m.at \in 0 .. n - 1
      BY <1>6, <1>7, SuccLemma
    <3> QED
      BY <1>6, <3>1, ConcAssumption, StartAssumption
  <2> QED
    BY <1>1, <1>3, <1>8, <1>9, <2>1 DEF SharedTypes
<1>12. PICK p \in 0 .. n - 1 : p = m.p
  BY <1>6
<1> DEFINE d == Longer(n, c, p)
           l == n + 1
<1>13. /\ d[p] = c[p] /\ d[p + 1] = n
       /\ \A q \in 0 .. n - 1 : Later(p, q) \in 0 .. n /\ d[Later(p, q)] = c[q]
       /\ \A q \in 0 .. n : q # p + 1 => \E r \in 0 .. n - 1 : q = Later(p, r)
       /\ Succ(n + 1, d, p + 1) = Succ(n, c, p)
       /\ \A q \in 0 .. n - 1 :
            Succ(n + 1, d, Later(p, q)) = IF q = p THEN n ELSE Succ(n, c, q)
  <2>1. Order(n, c) /\ p \in 0 .. n - 1
    BY <1>6, <1>12
  <2> QED
    BY <2>1, LongerLemma
<1>14. Order(n + 1, d)
  BY <1>6, <1>12, LongerOrder
<1>15. /\ Leaves(n + 1, d, K, V) /\ Chosen(n + 1, d, K, p, m.key)
       /\ \A x \in Slots : K[n][x] = InvalidKey
  BY <1>4, <1>6, <1>7, <1>12, LongerLeaves
<1>16. l \in Nat /\ l - 1 = n /\ p + 1 < l /\ l = n + 1
  BY <1>6
<1>17. /\ \A s \in 0 .. n - 1 : link(s)' = link(s)
       /\ link(n)' = m.at
  <2>0. \A s \in 0 .. n - 1 : s # n /\ (s = 0 \/ s \in Indexes)
    BY <1>6, ConcAssumption DEF Indexes
  <2>1. \A s \in Indexes : s # n => syn'[s] = syn[s]
    BY <1>1, <1>9 DEF SharedTypes
  <2>2. syn'[n].synonym_leaf = m.at /\ n # 0
    BY <1>1, <1>6, <1>8, <1>9 DEF SharedTypes
  <2> QED
    BY <1>3, <2>0, <2>1, <2>2 DEF link
<1> HIDE DEF d, l
<1>18. \A q \in 0 .. l - 1 : link(d[q])' = Succ(l, d, q)
  <2> SUFFICES ASSUME NEW q \in 0 .. n PROVE link(d[q])' = Succ(l, d, q)
    BY <1>16
  <2>1. CASE q = p + 1
    BY <1>7, <1>12, <1>13, <1>16, <1>17, <2>1
  <2>2. CASE q # p + 1
    <3>1. PICK r \in 0 .. n - 1 : q = Later(p, r)
      BY <1>13, <2>2
    <3>2. c[r] \in 0 .. n - 1
      BY <1>6 DEF Order
    <3>3. link(d[q])' = link(c[r])
      BY <1>13, <1>17, <3>1, <3>2
    <3> QED
      BY <1>7, <1>12, <1>13, <1>16, <3>1, <3>3
  <2> QED
    BY <2>1, <2>2
<1>19. \A s \in 1 .. l - 1 : syn'[s].leaf_num = s
  <2> SUFFICES ASSUME NEW s \in 1 .. n PROVE syn'[s].leaf_num = s
    BY <1>16
  <2>1. CASE s = n
    BY <1>1, <1>8, <1>9, <2>1 DEF SharedTypes
  <2>2. CASE s # n
    <3>1. s \in 1 .. n - 1
      BY <1>6, <2>2
    <3> QED
      BY <1>7, <1>9, <2>2, <3>1
  <2> QED
    BY <2>1, <2>2
<1>20. /\ pc'[t] \notin Storing /\ pc'[t] \notin Drawn /\ pc'[t] \in Splits /\ ~ Added(t)'
       /\ pc'[t] \notin {"link", "fill", "bump", "fetch", "shiftkeys"}
  BY <1>9 DEF Storing, Drawn, Splits, Added
<1>21. ShowsTo(t, l, d, K, V)'
  BY <1>3, <1>6, <1>7, <1>16, <1>18, <1>19, <1>20 DEF ShowsTo
<1>22. HoldsFor(t, K)'
  BY <1>3, <1>6, <1>7, <1>20 DEF HoldsFor
<1>23. InsertAt(t, l, d, K, V)'
  <2>1. Walks(t, l, d, K)'
    BY <1>6, <1>9, <1>12, <1>13, <1>15, <1>16, <1>20 DEF Walks
  <2>2. SplitsOff(t, l, d, K)'
    BY <1>6, <1>9, <1>12, <1>13, <1>15, <1>16, <1>20 DEF SplitsOff
  <2>3. Stores(t, l, d, K, V)'
    BY <1>9, <1>20 DEF Stores
  <2> QED
    BY <2>1, <2>2, <2>3 DEF InsertAt
<1>24. Seen(t, l, d, K, V)'
  BY <1>14, <1>15, <1>16, <1>21, <1>22, <1>23 DEF Seen
<1> QED
  BY <1>2, <1>4, <1>10, <1>11, <1>24, SeenStep

LEMMA MoveStep ==
  ASSUME OneEntryLoad, N % 2 = 0, InsertInv, NEW t \in Threads, Move(t)
  PROVE  StepInv(t)
<1>1. /\ LockInv /\ LocalTypes(t) /\ SharedTypes
      /\ DOMAIN pc = Threads /\ DOMAIN my = Threads /\ DOMAIN my[t] = Fields
  BY DEF InsertInv, LockInv
<1>2. Goes(t) /\ my[t].op # "none"
  BY <1>1, PlainGoes DEF Plain
<1>3. /\ pc[t] = "move"
      /\ UNCHANGED <<table, syn, next, used, present>>
  BY DEF Move, At, Frame, shared
<1>4. Inside(t) /\ my[t].i = 0 /\ my[t].key \in Keys
  BY <1>1, <1>2, <1>3, InsertPc, EntryZero DEF Splits
<1>5. PICK n, c, K, V : Seen(t, n, c, K, V)
  BY <1>4, Enter
<1> DEFINE m == my[t]
<1>6. /\ Order(n, c) /\ Leaves(n, c, K, V) /\ HoldsFor(t, K) /\ keys = K /\ vals = V
      /\ Chosen(n, c, K, m.p, m.key) /\ m.cur = c[m.p] /\ m.p \in 0 .. n - 1
      /\ ~ has(K, m.key) /\ m.ok = TRUE /\ K[m.cur][N - 1] # InvalidKey
      /\ m.p + 1 < n /\ m.new = c[m.p + 1] /\ \A x \in Slots : K[m.new][x] = InvalidKey
  BY <1>3, <1>5 DEF Seen, ShowsTo, Drawn, Storing, InsertAt, Walks, SplitsOff, Splits, Chosen
<1>7. PICK p \in 0 .. n - 1, k \in Keys : p = m.p /\ k = m.key
  BY <1>4, <1>6
<1> DEFINE a == c[p]
           b == c[p + 1]
           L == MovedKeys(K, a, b)
           W == MovedVals(V, a, b)
           to == IF k >= K[a][Half] THEN b ELSE a
<1>8. /\ Leaves(n, c, L, W)
      /\ \A j \in Keys : has(L, j) <=> has(K, j)
      /\ L[to][N - 1] = InvalidKey
      /\ \E q \in 0 .. n - 1 : Chosen(n, c, L, q, k) /\ to = c[q]
  BY <1>6, <1>7, MoveLemma
<1>9. a = m.cur /\ b = m.new
  BY <1>6, <1>7
<1> HIDE DEF a, b
<1>10. /\ pc'[t] = "shiftkeys" /\ keys' = L /\ vals' = W /\ my'[t].cur = to
       /\ my'[t].op = m.op /\ my'[t].key = m.key /\ my'[t].p = m.p /\ my'[t].chain = m.chain
       /\ my'[t].ok = m.ok
  <2>1. pc'[t] = "shiftkeys" /\ keys' = L /\ vals' = W
    BY <1>1, <1>6, <1>9 DEF Move, Goto, MovedKeys, MovedVals, Half
  <2>2. CASE k >= K[a][Half]
    <3>1. Local(t, "cur", m.new)
      BY <1>6, <1>7, <1>9, <2>2 DEF Move, Half
    <3> QED
      BY <1>1, <1>9, <2>1, <2>2, <3>1 DEF Local, Fields
  <2>3. CASE ~ (k >= K[a][Half])
    <3>1. my' = my
      BY <1>6, <1>7, <1>9, <2>3 DEF Move, Half
    <3> QED
      BY <1>9, <2>1, <2>3, <3>1
  <2> QED
    BY <2>2, <2>3
<1> HIDE DEF to, L, W
<1>11. PICK q \in 0 .. n - 1 : Chosen(n, c, L, q, k) /\ to = c[q]
  BY <1>8
<1>12. to \in 0 .. Pool - 1
  <2>1. to \in 0 .. n - 1 /\ n \in Nat /\ n <= Pool
    BY <1>6, <1>11 DEF Order
  <2> QED
    BY <2>1, StartAssumption
<1>13. LocalTypes(t)' /\ SharedTypes'
  BY <1>1, <1>3, <1>10, <1>12 DEF LocalTypes, SharedTypes
<1>14. /\ pc[t] \notin Storing /\ pc[t] \notin Drawn /\ pc'[t] \notin Storing /\ pc'[t] \notin Drawn
       /\ pc[t] \notin {"link", "fill"} /\ pc'[t] \notin Splits /\ ~ Added(t) /\ ~ Added(t)'
       /\ pc'[t] \notin {"link", "fill"}
  BY <1>3, <1>10 DEF Storing, Drawn, Splits, Added
<1>15. \A s : link(s)' = link(s)
  BY <1>3 DEF link
<1>16. ShowsTo(t, n, c, L, W)'
  BY <1>3, <1>5, <1>10, <1>14, <1>15 DEF Seen, ShowsTo
<1>17. HoldsFor(t, L)'
  BY <1>3, <1>6, <1>8, <1>14 DEF HoldsFor
<1>18. InsertAt(t, n, c, L, W)'
  <2>1. ~ has(L, k) /\ my'[t].key = k /\ my'[t].ok = TRUE
    BY <1>6, <1>7, <1>8, <1>10
  <2>2. Walks(t, n, c, L)'
    BY <1>10, <1>14 DEF Walks
  <2>3. SplitsOff(t, n, c, L)'
    BY <1>10, <1>14, <2>1 DEF SplitsOff
  <2>4. Stores(t, n, c, L, W)'
    BY <1>8, <1>10, <1>11, <1>14, <2>1 DEF Stores
  <2> QED
    BY <2>2, <2>3, <2>4 DEF InsertAt
<1>19. Seen(t, n, c, L, W)'
  BY <1>6, <1>8, <1>16, <1>17, <1>18 DEF Seen
<1> QED
  BY <1>2, <1>4, <1>13, <1>19, SeenStep

\* ... and its stores one by one
Shifted(F, cur, i, j) == [F EXCEPT ![cur] = ShiftUp(@, i, j)]
Written(F, cur, i, k) == [F EXCEPT ![cur][i] = k]

LEMMA ShiftTypes ==
  ASSUME NEW F \in KeyArrays, NEW cur \in 0 .. Pool - 1, NEW i \in Slots, NEW j, NEW k \in Keys
  PROVE  /\ Shifted(F, cur, i, j) \in KeyArrays
         /\ Stored(F, cur, i, j, k) = Written(Shifted(F, cur, i, j), cur, i, k)
<1> DEFINE G == Shifted(F, cur, i, j)
<1>1. F \in [0 .. Pool - 1 -> [Slots -> 0 .. InvalidKey]] /\ Slots = 0 .. N - 1 /\ N \in Nat
  BY ConcAssumption DEF KeyArrays, Slots
<1>2. \A x \in Slots : i < x => x - 1 \in Slots
  BY <1>1
<1>3. ShiftUp(F[cur], i, j) \in [Slots -> 0 .. InvalidKey]
  BY <1>1, <1>2 DEF ShiftUp
<1>4. /\ G \in [0 .. Pool - 1 -> [Slots -> 0 .. InvalidKey]]
      /\ G[cur] = ShiftUp(F[cur], i, j)
      /\ \A l \in 0 .. Pool - 1 : l # cur => G[l] = F[l]
  BY <1>1, <1>3 DEF Shifted
<1> HIDE DEF G
<1>5. [G EXCEPT ![cur][i] = k] = [G EXCEPT ![cur] = [G[cur] EXCEPT ![i] = k]]
  OBVIOUS
<1>6. [G EXCEPT ![cur] = [G[cur] EXCEPT ![i] = k]] = [F EXCEPT ![cur] = [G[cur] EXCEPT ![i] = k]]
  BY <1>1, <1>4
<1> QED
  BY <1>4, <1>5, <1>6 DEF Stored, Put, KeyArrays, Written, G

LEMMA ShiftKeysStep ==
  ASSUME OneEntryLoad, InsertInv, NEW t \in Threads, ShiftKeys(t)
  PROVE  StepInv(t)
<1>1. /\ LockInv /\ LocalTypes(t) /\ SharedTypes
      /\ DOMAIN pc = Threads /\ DOMAIN my = Threads /\ DOMAIN my[t] = Fields
  BY DEF InsertInv, LockInv
<1>2. Goes(t) /\ my[t].op # "none"
  BY <1>1, PlainGoes DEF Plain
<1>3. /\ pc[t] = "shiftkeys"
      /\ UNCHANGED <<table, syn, next, vals, used, present>>
  BY DEF ShiftKeys, At, Frame, shared
<1>4. Inside(t) /\ my[t].i = 0 /\ my[t].key \in Keys
  BY <1>1, <1>2, <1>3, InsertPc, EntryZero DEF Splits, Drawn
<1>5. PICK n, c, K, V : Seen(t, n, c, K, V)
  BY <1>4, Enter
<1> DEFINE m == my[t]
<1>6. /\ Order(n, c) /\ Leaves(n, c, K, V) /\ HoldsFor(t, K) /\ keys = K /\ vals = V
      /\ ~ has(K, m.key) /\ m.ok = TRUE /\ K[m.cur][N - 1] = InvalidKey
      /\ \E p \in 0 .. n - 1 : Chosen(n, c, K, p, m.key) /\ m.cur = c[p]
  BY <1>3, <1>5 DEF Seen, ShowsTo, Drawn, Storing, InsertAt, SplitsOff, Stores, Splits
<1>7. PICK p \in 0 .. n - 1 : Chosen(n, c, K, p, m.key) /\ m.cur = c[p]
  BY <1>6
<1>8. PICK k \in Keys : k = m.key
  BY <1>4
<1> DEFINE cur == c[p]
           i == Least(Above(K[cur], k))
           j == Least(Unused(K[cur], k))
           L == Stored(K, cur, i, j, k)
           W == Stored(V, cur, i, j, k)
           G == Shifted(K, cur, i, j)
<1>9. /\ Above(K[cur], k) # {} /\ Unused(K[cur], k) # {} /\ i \in Slots /\ j \in Slots
      /\ \A x \in Slots : K[cur][x] # k
      /\ Leaves(n, c, L, W)
      /\ \A l \in Keys : has(L, l) <=> has(K, l) \/ l = k
  <2>1. Chosen(n, c, K, p, k) /\ ~ has(K, k) /\ K[c[p]][N - 1] = InvalidKey
    BY <1>6, <1>7, <1>8
  <2> QED
    BY <1>6, <2>1, StoreLemma
<1>10. cur = m.cur /\ cur \in 0 .. n - 1 /\ cur \in 0 .. Pool - 1 /\ K \in KeyArrays /\ V \in KeyArrays
  <2>1. /\ n \in Nat /\ n <= Pool /\ c \in [0 .. n - 1 -> 0 .. n - 1]
    BY <1>6 DEF Order
  <2>2. cur \in 0 .. n - 1
    BY <2>1
  <2> QED
    BY <1>6, <1>7, <2>1, <2>2, StartAssumption DEF Leaves
<1> HIDE DEF cur
<1>11. /\ Above(K[cur], k) = {x \in Slots : keys[m.cur][x] >= m.key}
       /\ found(m.cur, m.key) = {}
  BY <1>6, <1>8, <1>9, <1>10 DEF Above, found
<1>12. Unused(K[cur], k) = {x \in Slots : x >= i /\ keys[m.cur][x] = InvalidKey}
  BY <1>6, <1>10 DEF Unused
<1>13. /\ pc'[t] = "shiftvals" /\ keys' = G /\ my'[t].at = i /\ my'[t].s = j
       /\ my'[t].op = m.op /\ my'[t].key = m.key /\ my'[t].p = m.p /\ my'[t].chain = m.chain
       /\ my'[t].ok = m.ok /\ my'[t].cur = m.cur
  <2> HIDE DEF L, W
  <2>1. /\ keys' = [keys EXCEPT ![m.cur] = ShiftUp(@, i, j)]
        /\ my' = [my EXCEPT ![t].at = i, ![t].s = j] /\ pc' = [pc EXCEPT ![t] = "shiftvals"]
    BY <1>9, <1>11, <1>12 DEF ShiftKeys, Goto
  <2> QED
    BY <1>1, <1>6, <1>10, <2>1 DEF Fields, Shifted
<1>14. G \in KeyArrays /\ L = Written(G, cur, i, k)
  <2>1. K \in KeyArrays /\ cur \in 0 .. Pool - 1 /\ i \in Slots
    BY <1>9, <1>10
  <2> HIDE DEF i, j
  <2> QED
    BY <2>1, ShiftTypes
<1>15. W = [vals EXCEPT ![cur] = [ShiftUp(@, i, j) EXCEPT ![i] = k]]
  BY <1>6 DEF Stored, Put
<1> HIDE DEF i, j, G, L, W
<1>16. LocalTypes(t)' /\ SharedTypes'
  BY <1>1, <1>3, <1>13 DEF LocalTypes, SharedTypes
<1>17. /\ pc[t] \notin Storing /\ pc[t] \notin Drawn /\ pc'[t] \in Storing /\ pc'[t] \notin Drawn
       /\ pc[t] \notin {"link", "fill"} /\ pc'[t] \notin Splits /\ ~ Added(t) /\ Added(t)'
       /\ pc'[t] \notin {"link", "fill"}
  BY <1>3, <1>13 DEF Storing, Drawn, Splits, Added
<1>18. \A s : link(s)' = link(s)
  BY <1>3 DEF link
<1>19. ShowsTo(t, n, c, L, W)'
  BY <1>3, <1>5, <1>13, <1>17, <1>18 DEF Seen, ShowsTo
<1>20. HoldsFor(t, L)'
  BY <1>3, <1>6, <1>8, <1>9, <1>13, <1>17 DEF HoldsFor
<1>21. InsertAt(t, n, c, L, W)'
  <2>1. Walks(t, n, c, L)'
    BY <1>13, <1>17 DEF Walks
  <2>2. SplitsOff(t, n, c, L)'
    BY <1>13, <1>17 DEF SplitsOff
  <2>3. Stores(t, n, c, L, W)'
    <3>1. pc'[t] = "shiftvals" /\ vals' = vals /\ my'[t].ok = TRUE /\ vals \in KeyArrays
      BY <1>3, <1>6, <1>10, <1>13
    <3>2. /\ my'[t].cur = cur /\ my'[t].at = i /\ my'[t].s = j /\ my'[t].key = k /\ keys' = G
      BY <1>8, <1>10, <1>13
    <3> QED
      BY <1>9, <1>10, <1>14, <1>15, <3>1, <3>2 DEF Stores, Written
  <2> QED
    BY <2>1, <2>2, <2>3 DEF InsertAt
<1>22. Seen(t, n, c, L, W)'
  BY <1>6, <1>9, <1>19, <1>20, <1>21 DEF Seen
<1> QED
  BY <1>2, <1>4, <1>16, <1>22, SeenStep


LEMMA WriteTwice ==
  ASSUME NEW F \in KeyArrays, NEW cur \in 0 .. Pool - 1, NEW i \in Slots, NEW k
  PROVE  Written(Written(F, cur, i, k), cur, i, k) = Written(F, cur, i, k)
<1> DEFINE G == Written(F, cur, i, k)
<1>1. F = [l \in 0 .. Pool - 1 |-> F[l]] /\ F[cur] = [x \in Slots |-> F[cur][x]]
  BY DEF KeyArrays
<1>2. G[cur] = [F[cur] EXCEPT ![i] = k]
  BY <1>1 DEF Written
<1>3. G = [l \in 0 .. Pool - 1 |-> G[l]] /\ G[cur] = [x \in Slots |-> G[cur][x]] /\ G[cur][i] = k
  BY <1>1, <1>2 DEF Written
<1> HIDE DEF G
<1>4. [G[cur] EXCEPT ![i] = k] = G[cur]
  BY <1>3
<1>5. [G EXCEPT ![cur] = [G[cur] EXCEPT ![i] = k]] = G
  BY <1>3, <1>4
<1>6. Written(G, cur, i, k) = [G EXCEPT ![cur] = [G[cur] EXCEPT ![i] = k]]
  BY DEF Written
<1> QED
  BY <1>5, <1>6 DEF G

LEMMA ShiftValsStep ==
  ASSUME OneEntryLoad, InsertInv, NEW t \in Threads, ShiftVals(t)
  PROVE  StepInv(t)
<1>1. /\ LockInv /\ LocalTypes(t) /\ SharedTypes
      /\ DOMAIN pc = Threads /\ DOMAIN my = Threads /\ DOMAIN my[t] = Fields
  BY DEF InsertInv, LockInv
<1>2. Goes(t) /\ my[t].op # "none"
  BY <1>1, PlainGoes DEF Plain
<1>3. /\ pc[t] = "shiftvals"
      /\ UNCHANGED <<table, syn, next, keys, used, present, my>>
  BY DEF ShiftVals, At, Frame, shared
<1>4. Inside(t) /\ my[t].i = 0 /\ my[t].key \in Keys
  BY <1>1, <1>2, <1>3, InsertPc, EntryZero DEF Splits, Drawn, Storing
<1>5. PICK n, c, K, V : Seen(t, n, c, K, V)
  BY <1>4, Enter
<1> DEFINE m == my[t]
<1>6. /\ Order(n, c) /\ Leaves(n, c, K, V) /\ HoldsFor(t, K) /\ m.ok = TRUE
      /\ m.cur \in 0 .. n - 1 /\ m.at \in Slots /\ m.cur \in 0 .. Pool - 1
      /\ keys \in KeyArrays /\ vals \in KeyArrays /\ K = Written(keys, m.cur, m.at, m.key)
  BY <1>1, <1>3, <1>5 DEF Seen, Storing, InsertAt, Stores, LocalTypes, Written
<1>7. /\ pc'[t] = "putkey" /\ vals' = Shifted(vals, m.cur, m.at, m.s)
      /\ my' = my
      /\ my'[t].op = m.op /\ my'[t].key = m.key /\ my'[t].p = m.p /\ my'[t].chain = m.chain
      /\ my'[t].ok = m.ok /\ my'[t].cur = m.cur /\ my'[t].at = m.at
  BY <1>1, <1>3 DEF ShiftVals, Goto, Shifted
<1>8. vals' \in KeyArrays /\ V = Written(vals', m.cur, m.at, m.key)
  <2>1. V = Stored(vals, m.cur, m.at, m.s, m.key)
    BY <1>3, <1>5 DEF Seen, InsertAt, Stores, Stored, Put
  <2> QED
    BY <1>4, <1>6, <1>7, <2>1, ShiftTypes
<1>9. LocalTypes(t)' /\ SharedTypes'
  BY <1>1, <1>3, <1>7 DEF LocalTypes, SharedTypes
<1>10. /\ pc[t] \in Storing /\ pc[t] \notin Drawn /\ pc'[t] \notin Drawn
       /\ pc[t] \notin {"link", "fill"} /\ pc'[t] \notin Splits /\ Added(t) /\ Added(t)'
       /\ pc'[t] \notin {"link", "fill"}
  BY <1>3, <1>6, <1>7 DEF Storing, Drawn, Splits, Added
<1>11. \A s : link(s)' = link(s)
  BY <1>3 DEF link
<1>12. ShowsTo(t, n, c, K, V)'
  BY <1>3, <1>5, <1>7, <1>8, <1>10, <1>11 DEF Seen, ShowsTo, Storing
<1>13. HoldsFor(t, K)'
  BY <1>3, <1>6, <1>7, <1>10 DEF HoldsFor
<1>14. InsertAt(t, n, c, K, V)'
  <2>1. Walks(t, n, c, K)'
    BY <1>7, <1>10 DEF Walks
  <2>2. SplitsOff(t, n, c, K)'
    BY <1>7, <1>10 DEF SplitsOff
  <2>3. Stores(t, n, c, K, V)'
    <3>1. /\ my'[t].cur \in 0 .. n - 1 /\ my'[t].at \in Slots /\ my'[t].ok = TRUE
          /\ keys' \in KeyArrays /\ vals' \in KeyArrays
          /\ K = Written(keys', my'[t].cur, my'[t].at, my'[t].key)
          /\ V = Written(vals', my'[t].cur, my'[t].at, my'[t].key)
      BY <1>3, <1>6, <1>7, <1>8
    <3>2. my'[t].s \in Slots
      BY <1>3, <1>5, <1>7 DEF Seen, InsertAt, Stores, Storing
    <3>3. pc'[t] # "shiftkeys" /\ pc'[t] # "shiftvals" /\ (pc'[t] = "putval" => keys' = K)
      BY <1>7
    <3> QED
      BY <3>1, <3>2, <3>3 DEF Stores, Written
  <2> QED
    BY <2>1, <2>2, <2>3 DEF InsertAt
<1>15. Seen(t, n, c, K, V)'
  BY <1>6, <1>12, <1>13, <1>14 DEF Seen
<1> QED
  BY <1>2, <1>4, <1>9, <1>15, SeenStep

LEMMA PutKeyStep ==
  ASSUME OneEntryLoad, InsertInv, NEW t \in Threads, PutKey(t)
  PROVE  StepInv(t)
<1>1. /\ LockInv /\ LocalTypes(t) /\ SharedTypes
      /\ DOMAIN pc = Threads /\ DOMAIN my = Threads /\ DOMAIN my[t] = Fields
  BY DEF InsertInv, LockInv
<1>2. Goes(t) /\ my[t].op # "none"
  BY <1>1, PlainGoes DEF Plain
<1>3. /\ pc[t] = "putkey"
      /\ UNCHANGED <<table, syn, next, vals, used, present, my>>
  BY DEF PutKey, At, Frame, shared
<1>4. Inside(t) /\ my[t].i = 0 /\ my[t].key \in Keys
  BY <1>1, <1>2, <1>3, InsertPc, EntryZero DEF Splits, Drawn, Storing
<1>5. PICK n, c, K, V : Seen(t, n, c, K, V)
  BY <1>4, Enter
<1> DEFINE m == my[t]
<1>6. /\ Order(n, c) /\ Leaves(n, c, K, V) /\ HoldsFor(t, K) /\ m.ok = TRUE
      /\ m.cur \in 0 .. n - 1 /\ m.at \in Slots /\ m.cur \in 0 .. Pool - 1
      /\ keys \in KeyArrays /\ vals \in KeyArrays /\ K = Written(keys, m.cur, m.at, m.key)
  BY <1>1, <1>3, <1>5 DEF Seen, Storing, InsertAt, Stores, LocalTypes, Written
<1>7. /\ pc'[t] = "putval" /\ keys' = K
      /\ my' = my
      /\ my'[t].op = m.op /\ my'[t].key = m.key /\ my'[t].p = m.p /\ my'[t].chain = m.chain
      /\ my'[t].ok = m.ok /\ my'[t].cur = m.cur /\ my'[t].at = m.at
  BY <1>1, <1>3, <1>6 DEF PutKey, Goto, Written
<1>8. /\ K \in KeyArrays /\ K = Written(K, m.cur, m.at, m.key)
      /\ V = Written(vals, m.cur, m.at, m.key)
  <2>1. K \in KeyArrays /\ V = Written(vals, m.cur, m.at, m.key)
    BY <1>3, <1>5, <1>6 DEF Leaves, Seen, InsertAt, Stores, Written
  <2>2. K = Written(K, m.cur, m.at, m.key)
    BY <1>6, WriteTwice
  <2> QED
    BY <2>1, <2>2
<1>9. LocalTypes(t)' /\ SharedTypes'
  BY <1>1, <1>3, <1>7 DEF LocalTypes, SharedTypes
<1>10. /\ pc[t] \in Storing /\ pc[t] \notin Drawn /\ pc'[t] \notin Drawn
       /\ pc[t] \notin {"link", "fill"} /\ pc'[t] \notin Splits /\ Added(t) /\ Added(t)'
       /\ pc'[t] \notin {"link", "fill"}
  BY <1>3, <1>6, <1>7 DEF Storing, Drawn, Splits, Added
<1>11. \A s : link(s)' = link(s)
  BY <1>3 DEF link
<1>12. ShowsTo(t, n, c, K, V)'
  BY <1>3, <1>5, <1>7, <1>8, <1>10, <1>11 DEF Seen, ShowsTo, Storing
<1>13. HoldsFor(t, K)'
  BY <1>3, <1>6, <1>7, <1>10 DEF HoldsFor
<1>14. InsertAt(t, n, c, K, V)'
  <2>1. Walks(t, n, c, K)'
    BY <1>7, <1>10 DEF Walks
  <2>2. SplitsOff(t, n, c, K)'
    BY <1>7, <1>10 DEF SplitsOff
  <2>3. Stores(t, n, c, K, V)'
    <3>1. /\ my'[t].cur \in 0 .. n - 1 /\ my'[t].at \in Slots /\ my'[t].ok = TRUE
          /\ keys' \in KeyArrays /\ vals' \in KeyArrays
          /\ K = Written(keys', my'[t].cur, my'[t].at, my'[t].key)
          /\ V = Written(vals', my'[t].cur, my'[t].at, my'[t].key)
      BY <1>3, <1>6, <1>7, <1>8
    <3>2. my'[t].s \in Slots
      BY <1>3, <1>5, <1>7 DEF Seen, InsertAt, Stores, Storing
    <3>3. pc'[t] # "shiftkeys" /\ pc'[t] # "shiftvals" /\ (pc'[t] = "putval" => keys' = K)
      BY <1>7
    <3> QED
      BY <3>1, <3>2, <3>3 DEF Stores, Written
  <2> QED
    BY <2>1, <2>2, <2>3 DEF InsertAt
<1>15. Seen(t, n, c, K, V)'
  BY <1>6, <1>12, <1>13, <1>14 DEF Seen
<1> QED
  BY <1>2, <1>4, <1>9, <1>15, SeenStep

LEMMA PutValStep ==
  ASSUME OneEntryLoad, InsertInv, NEW t \in Threads, PutVal(t)
  PROVE  StepInv(t)
<1>1. /\ LockInv /\ LocalTypes(t) /\ SharedTypes
      /\ DOMAIN pc = Threads /\ DOMAIN my = Threads /\ DOMAIN my[t] = Fields
  BY DEF InsertInv, LockInv
<1>2. Goes(t) /\ my[t].op # "none"
  BY <1>1, PlainGoes DEF Plain
<1>3. /\ pc[t] = "putval"
      /\ UNCHANGED <<table, syn, next, keys, used, present, my>>
  BY DEF PutVal, At, Frame, shared
<1>4. Inside(t) /\ my[t].i = 0 /\ my[t].key \in Keys
  BY <1>1, <1>2, <1>3, InsertPc, EntryZero DEF Splits, Drawn, Storing
<1>5. PICK n, c, K, V : Seen(t, n, c, K, V)
  BY <1>4, Enter
<1> DEFINE m == my[t]
<1>6. /\ Order(n, c) /\ Leaves(n, c, K, V) /\ HoldsFor(t, K) /\ m.ok = TRUE
      /\ m.cur \in 0 .. n - 1 /\ m.at \in Slots /\ m.cur \in 0 .. Pool - 1
      /\ keys \in KeyArrays /\ vals \in KeyArrays /\ K = Written(keys, m.cur, m.at, m.key)
  BY <1>1, <1>3, <1>5 DEF Seen, Storing, InsertAt, Stores, LocalTypes, Written
<1>7. /\ pc'[t] = "csunlock" /\ vals' = V
      /\ my' = my
      /\ my'[t].op = m.op /\ my'[t].key = m.key /\ my'[t].p = m.p /\ my'[t].chain = m.chain
      /\ my'[t].ok = m.ok /\ my'[t].cur = m.cur /\ my'[t].at = m.at
  BY <1>1, <1>3, <1>4, <1>5 DEF PutVal, Goto, Inside, Seen, InsertAt, Stores
<1>8. keys = K
  BY <1>3, <1>5 DEF Seen, InsertAt, Stores
<1>9. LocalTypes(t)' /\ SharedTypes'
  BY <1>1, <1>3, <1>7 DEF LocalTypes, SharedTypes
<1>10. /\ pc[t] \in Storing /\ pc[t] \notin Drawn /\ pc'[t] \notin Drawn
       /\ pc[t] \notin {"link", "fill"} /\ pc'[t] \notin Splits /\ Added(t) /\ Added(t)'
       /\ pc'[t] \notin {"link", "fill"}
  BY <1>3, <1>6, <1>7 DEF Storing, Drawn, Splits, Added
<1>11. \A s : link(s)' = link(s)
  BY <1>3 DEF link
<1>12. ShowsTo(t, n, c, K, V)'
  BY <1>3, <1>5, <1>7, <1>8, <1>10, <1>11 DEF Seen, ShowsTo, Storing
<1>13. HoldsFor(t, K)'
  BY <1>3, <1>6, <1>7, <1>10 DEF HoldsFor
<1>14. InsertAt(t, n, c, K, V)'
  <2>1. Walks(t, n, c, K)'
    BY <1>7, <1>10 DEF Walks
  <2>2. SplitsOff(t, n, c, K)'
    BY <1>7, <1>10 DEF SplitsOff
  <2>3. Stores(t, n, c, K, V)'
    BY <1>7 DEF Stores, Storing
  <2> QED
    BY <2>1, <2>2, <2>3 DEF InsertAt
<1>15. Seen(t, n, c, K, V)'
  BY <1>6, <1>12, <1>13, <1>14 DEF Seen
<1> QED
  BY <1>2, <1>4, <1>9, <1>15, SeenStep


\* The locals of a thread that is in no call
LEMMA IdleTypes ==
  ASSUME SharedTypes, NEW t \in Threads, my'[t] = Idle, pc'[t] = "idle"
  PROVE  LocalTypes(t)' /\ ~ Inside(t)' /\ pc'[t] \in Outer
<1>1. 0 \in 0 .. Pool - 1
  BY StartAssumption DEF SharedTypes
<1>2. /\ my'[t].op = "none" /\ my'[t].chain = <<>> /\ my'[t].p = 0 /\ my'[t].cur = 0
      /\ my'[t].ok = FALSE
  BY DEF Idle
<1>3. my'[t].chain \in Seq(Indexes) /\ my'[t].p \in 0 .. Len(my'[t].chain)
  BY <1>2
<1>4. LocalTypes(t)'
  BY <1>1, <1>2, <1>3 DEF LocalTypes
<1> QED
  BY <1>2, <1>4 DEF Inside, Outer

LEMMA CsUnlockStep ==
  ASSUME OneEntryLoad, InsertInv, NEW t \in Threads, CsUnlock(t)
  PROVE  StepInv(t)
<1>1. /\ LockInv /\ LocalTypes(t) /\ SharedTypes
      /\ DOMAIN pc = Threads /\ DOMAIN my = Threads /\ DOMAIN my[t] = Fields
  BY DEF InsertInv, LockInv
<1>2. /\ pc[t] = "csunlock" /\ pc'[t] = "idle" /\ my'[t] = Idle /\ Keeps(t)
      /\ UNCHANGED <<table, syn, next, keys, vals, used>>
      /\ present' = IF my[t].op = "insert" /\ my[t].ok THEN present \cup {my[t].key} ELSE present
  BY <1>1 DEF CsUnlock, Return, Goto, At, Keeps, Idle, Fields
<1>3. Inside(t)
  BY <1>2, InsertPc
<1>4. my[t].key \in Keys /\ my[t].op = "insert"
  BY <1>1, <1>3, EntryZero DEF Inside
<1>5. PICK n, c, K, V : Seen(t, n, c, K, V)
  BY <1>3, Enter
<1>6. /\ pc[t] \notin Drawn /\ pc[t] \notin Storing /\ pc[t] \notin {"link", "fill"}
      /\ Added(t) <=> my[t].ok
  BY <1>2 DEF Drawn, Storing, Added
<1>7. \A s : link(s)' = link(s)
  BY <1>2 DEF link
<1>8. /\ next = n /\ used = n /\ keys = K /\ vals = V
      /\ \A p \in 0 .. n - 1 : link(c[p]) = Succ(n, c, p)
      /\ \A s \in 1 .. n - 1 : syn[s].leaf_num = s
  BY <1>5, <1>6 DEF Seen, ShowsTo
<1>9. \A k \in Keys : has(K, k) <=> k \in present'
  BY <1>2, <1>4, <1>5, <1>6 DEF Seen, HoldsFor
<1>10. Rest(n, c, K, V)'
  BY <1>2, <1>5, <1>7, <1>8, <1>9 DEF Seen, Rest
<1>11. Apart(t)
  BY <1>3, Enter
<1>12. LocalTypes(t)' /\ ~ Inside(t)' /\ pc'[t] \in Outer
  BY <1>1, <1>2, IdleTypes
<1>13. Memory(n, c, K, V)'
  BY <1>2, <1>10, <1>11, <1>12, RestMemory
<1>14. SharedTypes'
  BY <1>1, <1>2 DEF SharedTypes
<1> QED
  BY <1>12, <1>13, <1>14 DEF StepInv

LEMMA CsLockStep ==
  ASSUME OneEntryLoad, InsertInv, NEW t \in Threads, CsLock(t)
  PROVE  StepInv(t)
<1>1. /\ LockInv /\ LocalTypes(t) /\ SharedTypes
      /\ DOMAIN pc = Threads /\ DOMAIN my = Threads /\ DOMAIN my[t] = Fields
  BY DEF InsertInv, LockInv
<1>2. /\ pc[t] = "cslock" /\ pc'[t] = "first" /\ my' = my /\ Keeps(t)
      /\ UNCHANGED <<table, syn, next, keys, vals, used, present>>
      /\ ~ csLocks[my[t].i]
  BY <1>1 DEF CsLock, Goto, At, Keeps, Frame
<1>3. my[t].op = "insert" /\ my[t].i = 0
  <2>1. my[t].op \in {"none", "insert", "search"} /\ pc[t] \in StepsOf(my[t].op)
    BY <1>1 DEF LockInv, LocalTypes
  <2>2. my[t].op = "insert"
    BY <1>2, <2>1 DEF StepsOf, Walk
  <2> QED
    BY <1>1, <2>2, EntryZero
<1>4. ASSUME NEW u \in Threads PROVE ~ Inside(u) /\ pc[u] \in Outer
  <2>1. ~ Inside(u)
    <3> SUFFICES ASSUME Inside(u) PROVE FALSE
      OBVIOUS
    <3>1. my[u].i = 0
      BY <1>1, EntryZero DEF Inside
    <3> QED
      BY <1>1, <1>2, <1>3, <3>1 DEF LockInv
  <2> QED
    BY <1>1, <2>1, OuterLemma DEF InsertInv
<1>5. Apart(t)
  BY <1>4 DEF Apart
<1>6. PICK n, c, K, V : Memory(n, c, K, V)
  BY DEF InsertInv
<1>7. Rest(n, c, K, V)
  BY <1>4, <1>6, RestLemma
<1>8. /\ pc'[t] \notin Drawn /\ pc'[t] \notin Storing /\ pc'[t] \notin {"link", "fill"}
      /\ pc'[t] \notin Splits /\ ~ Added(t)'
  BY <1>2 DEF Drawn, Storing, Added, Splits
<1>9. \A s : link(s)' = link(s)
  BY <1>2 DEF link
<1>10. ShowsTo(t, n, c, K, V)'
  BY <1>2, <1>7, <1>8, <1>9 DEF Rest, ShowsTo
<1>11. HoldsFor(t, K)'
  BY <1>2, <1>7, <1>8 DEF Rest, HoldsFor
<1>12. InsertAt(t, n, c, K, V)'
  BY <1>2, <1>8 DEF InsertAt, Walks, SplitsOff, Stores
<1>13. Seen(t, n, c, K, V)'
  BY <1>7, <1>10, <1>11, <1>12 DEF Seen, Rest
<1>14. Memory(n, c, K, V)'
  BY <1>2, <1>5, <1>13, SeenMemory
<1>15. LocalTypes(t)' /\ SharedTypes'
  BY <1>1, <1>2 DEF LocalTypes, SharedTypes
<1> QED
  BY <1>14, <1>15 DEF StepInv

\* The steps outside the section
LEMMA OutsideStep ==
  ASSUME OneEntryLoad, InsertInv, NEW t \in Threads,
         \/ \E op \in Load.ops[t], k \in Load.targets[t] : Begin(t, op, k)
         \/ Route(t) \/ Test(t) \/ Base(t) \/ Scan(t) \/ Probe(t) \/ SeeVal(t) \/ Answer(t)
  PROVE  StepInv(t)
<1>1. /\ LockInv /\ LocalTypes(t) /\ SharedTypes /\ load \in DOMAIN Loads
      /\ DOMAIN pc = Threads /\ DOMAIN my = Threads /\ DOMAIN my[t] = Fields
  BY DEF InsertInv, LockInv
<1>2. /\ my[t].op \in {"none", "insert", "search"} /\ pc[t] \in StepsOf(my[t].op)
      /\ my[t].chain \in Seq(Indexes) /\ my[t].p \in 0 .. Len(my[t].chain)
      /\ my[t].cur \in 0 .. Pool - 1 /\ my[t].ok \in BOOLEAN
  BY <1>1 DEF LockInv, LocalTypes
<1>3. CASE \E op \in Load.ops[t], k \in Load.targets[t] : Begin(t, op, k)
  <2>1. PICK op \in Load.ops[t], k \in Load.targets[t] : Begin(t, op, k)
    BY <1>3
  <2>2. op \in {"insert", "search"}
    BY <2>1 DEF OneEntryLoad
  <2>3. /\ pc[t] = "idle" /\ pc'[t] = "route" /\ Keeps(t)
        /\ my'[t] = [Idle EXCEPT !.op = op, !.key = k, !.i = Load.hi[k], !.there = k \in present]
        /\ UNCHANGED <<table, syn, next, keys, vals, used, present>>
    BY <1>1, <2>1 DEF Begin, Goto, At, Keeps, Idle, Fields, shared
  <2>4. /\ my'[t].op = op /\ my'[t].chain = <<>> /\ my'[t].p = 0 /\ my'[t].cur = 0
        /\ my'[t].ok = FALSE
    BY <2>3 DEF Idle
  <2>5. 0 \in 0 .. Pool - 1 /\ my'[t].chain \in Seq(Indexes) /\ my'[t].p \in 0 .. Len(my'[t].chain)
    BY <1>1, <2>4, StartAssumption DEF SharedTypes
  <2>6. LocalTypes(t)'
    BY <2>2, <2>3, <2>4, <2>5 DEF LocalTypes
  <2>7. pc[t] \in Outer /\ pc'[t] \in Outer /\ ~ Inside(t)'
    BY <2>3 DEF Outer, Inside, Section
  <2> QED
    BY <2>3, <2>6, <2>7, OuterStep
<1>4. CASE Route(t)
  <2>1. /\ pc[t] = "route" /\ Keeps(t)
        /\ UNCHANGED <<table, syn, next, keys, vals, used, present>>
        /\ my'[t].op = my[t].op /\ my'[t].chain = my[t].chain /\ my'[t].p = my[t].p
        /\ my'[t].cur = my[t].cur /\ my'[t].ok = my[t].ok
    BY <1>1, <1>4 DEF Route, Goto, Local, At, Keeps, Frame, Fields, shared
  <2>2. pc'[t] \in {"route", "test", "base", "seelock"} /\ (pc'[t] = "seelock" => my[t].op = "none")
    BY <1>1, <1>2, <1>4 DEF Route, Goto, At
  <2>3. my[t].op # "none" /\ my[t].chain = <<>>
    BY <1>1, <1>2, <2>1 DEF StepsOf, LocalTypes
  <2>4. LocalTypes(t)'
    BY <1>2, <2>1, <2>2, <2>3 DEF LocalTypes
  <2>5. pc[t] \in Outer /\ pc'[t] \in Outer /\ ~ Inside(t)'
    BY <2>1, <2>2, <2>3 DEF Outer, Inside, Section
  <2> QED
    BY <2>1, <2>4, <2>5, OuterStep
<1>5. CASE Test(t) /\ next = SynonymMax - 1
  <2>1. /\ pc[t] = "test" /\ pc'[t] = "idle" /\ my'[t] = Idle /\ Keeps(t)
        /\ UNCHANGED <<table, syn, next, keys, vals, used, present>>
    BY <1>1, <1>5 DEF Test, Return, Goto, At, Keeps, Idle, Fields, shared
  <2>2. LocalTypes(t)' /\ ~ Inside(t)' /\ pc'[t] \in Outer
    BY <1>1, <2>1, IdleTypes
  <2>3. pc[t] \in Outer
    BY <2>1 DEF Outer
  <2> QED
    BY <2>1, <2>2, <2>3, OuterStep
<1>6. CASE Test(t) /\ next # SynonymMax - 1
  <2>1. /\ pc[t] = "test" /\ pc'[t] = "cslock" /\ my' = my /\ Keeps(t)
        /\ UNCHANGED <<table, syn, next, keys, vals, used, present>>
    BY <1>1, <1>6 DEF Test, Goto, At, Keeps, Frame, shared
  <2>2. LocalTypes(t)'
    BY <1>1, <2>1 DEF LocalTypes
  <2>3. pc[t] \in Outer /\ pc'[t] \in Outer /\ ~ Inside(t)'
    BY <2>1 DEF Outer, Inside, Section
  <2> QED
    BY <2>1, <2>2, <2>3, OuterStep
<1>7. CASE Base(t)
  <2>1. /\ pc[t] = "base" /\ Keeps(t)
        /\ UNCHANGED <<table, syn, next, keys, vals, used, present>>
        /\ my'[t].op = my[t].op /\ my'[t].chain = my[t].chain /\ my'[t].p = my[t].p
        /\ my'[t].ok = my[t].ok
        /\ \/ pc'[t] = "first" /\ my'[t].cur = my[t].cur
           \/ pc'[t] = "probe" /\ my'[t].idx = 0 /\ my'[t].cur = table[my[t].i].leaf_num
    BY <1>1, <1>7 DEF Base, See, Missing, Goto, Local, At, Keeps, Frame, Fields, shared
  <2>2. my[t].op = "search" /\ my[t].chain = <<>>
    BY <1>1, <1>2, <2>1 DEF StepsOf, LocalTypes, Section, Walk
  <2>3. my'[t].cur \in 0 .. Pool - 1
    <3>1. table[my[t].i].leaf_num = 0 /\ 0 \in 0 .. Pool - 1
      BY <1>1, <2>2, EntryZero, StartAssumption DEF SharedTypes
    <3> QED
      BY <1>2, <2>1, <3>1
  <2>4. LocalTypes(t)'
    BY <1>2, <2>1, <2>2, <2>3 DEF LocalTypes
  <2>5. pc[t] \in Outer /\ pc'[t] \in Outer /\ ~ Inside(t)'
    BY <2>1, <2>2 DEF Outer, Inside, Walk
  <2> QED
    BY <2>1, <2>4, <2>5, OuterStep
<1>8. CASE Scan(t)
  <2>1. /\ pc[t] = "scan" /\ Keeps(t)
        /\ UNCHANGED <<table, syn, next, keys, vals, used, present>>
        /\ my'[t].op = my[t].op /\ my'[t].chain = my[t].chain /\ my'[t].ok = my[t].ok
    BY <1>1, <1>8 DEF Scan, See, Missing, Goto, Local, At, Keeps, Frame, Fields, shared
  <2>2. my[t].op = "search"
    BY <1>2, <2>1 DEF StepsOf, Section, Walk
  <2>3. \/ pc'[t] \in {"notfound", "crashed"} /\ my'[t].p = my[t].p /\ my'[t].cur = my[t].cur
        \/ pc'[t] = "scan" /\ my[t].p # 0 /\ my'[t].p = my[t].p - 1 /\ my'[t].cur = my[t].cur
        \/ /\ pc'[t] = "probe" /\ my[t].p # 0 /\ my'[t].p = my[t].p
           /\ my'[t].idx # 0 /\ my'[t].cur \in 0 .. Pool - 1
    <3>1. CASE my[t].p = 0
      BY <1>1, <1>8, <3>1 DEF Scan, Goto
    <3>2. CASE my[t].p # 0 /\ Absent(LeafAt(t))
      BY <1>1, <1>8, <3>2 DEF Scan, Goto
    <3>3. CASE my[t].p # 0 /\ ~ Absent(LeafAt(t))
      <4>1. my[t].chain[my[t].p] \in Indexes /\ my[t].chain[my[t].p] # 0
        <5>1. my[t].p \in 1 .. Len(my[t].chain)
          BY <1>2, <3>3
        <5>2. my[t].chain[my[t].p] \in Indexes
          BY <1>2, <5>1
        <5> QED
          BY <5>2, ConcAssumption DEF Indexes
      <4>2. LeafAt(t) \in 0 .. Pool + 1
        BY <1>1, <3>3, <4>1 DEF LeafAt, SharedTypes
      <4>3. LeafAt(t) \in 0 .. Pool - 1
        BY <1>1, <3>3, <4>2, StartAssumption DEF Absent, SharedTypes
      <4>4. See(t, LeafAt(t), my[t].chain[my[t].p])
        BY <1>8, <3>3 DEF Scan
      <4> QED
        BY <1>1, <2>1, <3>3, <4>1, <4>3, <4>4 DEF See, Missing, Goto, Local, Fields
    <3> QED
      BY <3>1, <3>2, <3>3
  <2>4. my'[t].p \in 0 .. Len(my'[t].chain) /\ my'[t].cur \in 0 .. Pool - 1
    BY <1>2, <2>1, <2>3
  <2>5. LocalTypes(t)'
    BY <1>2, <2>1, <2>2, <2>3, <2>4 DEF LocalTypes
  <2>6. pc[t] \in Outer /\ pc'[t] \in Outer /\ ~ Inside(t)'
    BY <2>1, <2>2, <2>3 DEF Outer, Inside, Walk
  <2> QED
    BY <2>1, <2>5, <2>6, OuterStep
<1>9. CASE Probe(t) \/ SeeVal(t)
  <2>1. /\ pc[t] \in {"probe", "seeval"} /\ Keeps(t)
        /\ UNCHANGED <<table, syn, next, keys, vals, used, present>>
        /\ my'[t].op = my[t].op /\ my'[t].chain = my[t].chain /\ my'[t].ok = my[t].ok
        /\ my'[t].cur = my[t].cur /\ my'[t].idx = my[t].idx
    BY <1>1, <1>9 DEF Probe, SeeVal, Missing, Goto, Local, At, Keeps, Frame, Fields, shared
  <2>2. my[t].op = "search"
    BY <1>2, <2>1 DEF StepsOf, Section, Walk
  <2>3. \/ pc'[t] \in {"seeval", "found"} /\ my'[t].p = my[t].p
        \/ pc[t] = "probe" /\ pc'[t] = "probe" /\ my'[t].p = my[t].p
        \/ pc[t] = "probe" /\ pc'[t] = "first" /\ my[t].idx = 0 /\ my'[t].p = my[t].p
        \/ pc[t] = "probe" /\ pc'[t] = "scan" /\ my[t].idx # 0 /\ my'[t].p = my[t].p - 1
    BY <1>1, <1>9 DEF Probe, SeeVal, Missing, Goto, Local, At, Fields
  <2>4. pc[t] = "probe" => IF my[t].idx = 0 THEN my[t].chain = <<>> ELSE my[t].p > 0
    BY <1>1 DEF LocalTypes
  <2>5. my'[t].p \in 0 .. Len(my'[t].chain)
    BY <1>2, <2>1, <2>3, <2>4
  <2>6. LocalTypes(t)'
    BY <1>2, <2>1, <2>2, <2>3, <2>4, <2>5 DEF LocalTypes
  <2>7. pc[t] \in Outer /\ pc'[t] \in Outer /\ ~ Inside(t)'
    BY <2>1, <2>2, <2>3 DEF Outer, Inside, Walk
  <2> QED
    BY <2>1, <2>6, <2>7, OuterStep
<1>10. CASE Answer(t)
  <2>1. pc[t] \in {"found", "notfound"}
    BY <1>10 DEF Answer, At
  <2>2. my[t].op = "search"
    BY <1>2, <2>1 DEF StepsOf, Section, Walk
  <2>3. /\ pc'[t] = "idle" /\ my'[t] = Idle /\ Keeps(t)
        /\ UNCHANGED <<table, syn, next, keys, vals, used, present>>
    BY <1>1, <1>10, <2>2 DEF Answer, Return, Goto, Keeps, Idle, Fields, shared
  <2>4. LocalTypes(t)' /\ ~ Inside(t)' /\ pc'[t] \in Outer
    BY <1>1, <2>3, IdleTypes
  <2>5. pc[t] \in Outer
    BY <2>1 DEF Outer
  <2> QED
    BY <2>3, <2>4, <2>5, OuterStep
<1> QED
  BY <1>3, <1>4, <1>5, <1>6, <1>7, <1>8, <1>9, <1>10

\* Update and remove are not called.
LEMMA NoOtherStep ==
  ASSUME InsertInv, NEW t \in Threads
  PROVE  ~ (\/ SeeLock(t) \/ SetLock(t) \/ ClearLock(t) \/ Find(t) \/ DropKey(t)
            \/ DropVal(t) \/ DropLast(t) \/ Unlink(t))
<1>1. my[t].op \in {"none", "insert", "search"} /\ pc[t] \in StepsOf(my[t].op)
  BY DEF InsertInv, LockInv, LocalTypes
<1>2. pc[t] \notin {"seelock", "setlock", "clearlock", "find", "dropkey", "dropval", "droplast",
                    "unlink"}
  BY <1>1 DEF StepsOf, Section, Walk
<1> QED
  BY <1>2 DEF SeeLock, SetLock, ClearLock, Find, DropKey, DropVal, DropLast, Unlink, At

LEMMA StepKeeps ==
  ASSUME LockInv, NEW t \in Threads,
         (\E op \in Load.ops[t], k \in Load.targets[t] : Begin(t, op, k)) \/ Step(t)
  PROVE  Keeps(t) /\ load' = load
<1>1. /\ DOMAIN pc = Threads /\ DOMAIN my = Threads /\ DOMAIN my[t] = Fields
  BY DEF LockInv
<1>2. DOMAIN Idle = Fields
  BY DEF Idle, Fields
<1>3. CASE \E op \in Load.ops[t], k \in Load.targets[t] : Begin(t, op, k)
  BY <1>1, <1>2, <1>3 DEF Begin, Goto, Keeps, shared
<1>4. ASSUME NEW ok, Return(t, ok) PROVE Keeps(t) /\ load' = load
  BY <1>1, <1>2, <1>4 DEF Return, Goto, Keeps
<1>5. CASE Test(t) \/ CsUnlock(t) \/ ClearLock(t) \/ Answer(t)
  <2>1. (\E ok : Return(t, ok)) \/ (Test(t) /\ Goto(t, "cslock") /\ UNCHANGED <<load, my>>)
    BY <1>5, Zenon DEF Test, CsUnlock, ClearLock, Answer, Frame
  <2> QED
    BY <1>1, <1>4, <2>1 DEF Goto, Keeps
<1>6. CASE Route(t) \/ CsLock(t) \/ SeeLock(t) \/ SetLock(t)
  BY <1>1, <1>6 DEF Route, CsLock, SeeLock, SetLock, Goto, Local, Keeps, Fields, Frame
<1>7. CASE Plain(t)
  BY <1>7, PlainGoes DEF Goes
<1> QED
  BY <1>3, <1>5, <1>6, <1>7 DEF Step, Plain

LEMMA InsertStep ==
  ASSUME OneEntryLoad, N % 2 = 0
  PROVE  InsertInv /\ [Next]_vars => InsertInv'
<1> SUFFICES ASSUME InsertInv, [Next]_vars PROVE InsertInv'
  OBVIOUS
<1>1. LockInv'
  BY LockStep DEF InsertInv
<1>2. CASE UNCHANGED vars
  <2>1. /\ UNCHANGED <<load, table, syn, next, keys, vals, used, csLocks, pc, my, calls, present>>
    BY <1>2 DEF vars, shared
  <2>2. SharedTypes' /\ \A t \in Threads : LocalTypes(t)'
    BY <2>1 DEF InsertInv, SharedTypes, LocalTypes
  <2>3. PICK n, c, K, V : Memory(n, c, K, V)
    BY DEF InsertInv
  <2>4. /\ \A s : link(s)' = link(s)
        /\ \A t \in Threads : (Inside(t)' <=> Inside(t)) /\ (Added(t)' <=> Added(t))
    BY <2>1 DEF link, Inside, Added
  <2>5. Shows(n, c, K, V)' /\ Holds(K)'
    BY <2>1, <2>3, <2>4 DEF Memory, Shows, Holds
  <2>6. ASSUME NEW t \in Threads, Inside(t)' PROVE InsertAt(t, n, c, K, V)'
    <3>1. InsertAt(t, n, c, K, V)
      BY <2>3, <2>4, <2>6 DEF Memory
    <3> QED
      BY <2>1, <2>4, <3>1 DEF InsertAt, Walks, SplitsOff, Stores
  <2>7. Memory(n, c, K, V)'
    BY <2>3, <2>5, <2>6 DEF Memory
  <2> QED
    BY <1>1, <2>2, <2>7 DEF InsertInv
<1>3. CASE Next
  <2>1. PICK t \in Threads : \/ \E op \in Load.ops[t], k \in Load.targets[t] : Begin(t, op, k)
                             \/ Step(t)
    BY <1>3 DEF Next
  <2>2. StepInv(t)
    <3>1. CASE \/ \E op \in Load.ops[t], k \in Load.targets[t] : Begin(t, op, k)
               \/ Route(t) \/ Test(t) \/ Base(t) \/ Scan(t) \/ Probe(t) \/ SeeVal(t) \/ Answer(t)
      BY <3>1, OutsideStep
    <3>2. CASE CsLock(t) \/ CsUnlock(t)
      BY <3>2, CsLockStep, CsUnlockStep
    <3>3. CASE First(t) \/ Collect(t) \/ Choose(t) \/ Look(t)
      BY <3>3, FirstStep, CollectStep, ChooseStep, LookStep
    <3>4. CASE Fetch(t) \/ Emplace(t) \/ Take(t) \/ Bump(t) \/ Link(t) \/ Fill(t) \/ Move(t)
      BY <3>4, FetchStep, EmplaceStep, TakeStep, BumpStep, LinkStep, FillStep, MoveStep
    <3>5. CASE ShiftKeys(t) \/ ShiftVals(t) \/ PutKey(t) \/ PutVal(t)
      BY <3>5, ShiftKeysStep, ShiftValsStep, PutKeyStep, PutValStep
    <3> QED
      BY <2>1, <3>1, <3>2, <3>3, <3>4, <3>5, NoOtherStep DEF Step
  <2>3. Keeps(t)
    BY <2>1, StepKeeps DEF InsertInv
  <2>4. ASSUME NEW u \in Threads PROVE LocalTypes(u)'
    <3>1. CASE u = t
      BY <2>2, <3>1 DEF StepInv
    <3>2. CASE u # t
      BY <2>3, <3>2 DEF InsertInv, LocalTypes, Keeps
    <3> QED
      BY <3>1, <3>2
  <2> QED
    BY <1>1, <2>2, <2>4 DEF InsertInv, StepInv
<1> QED
  BY <1>2, <1>3
-----------------------------------------------------------------------------
\* How a table of one entry starts: one chain through all synonym slots in use.
LEMMA StartedChain ==
  ASSUME OneEntryLoad, load \in DOMAIN Loads
  PROVE  LET ch == Chains[0]
             n == Len(LeafKeys)
         IN  /\ T = 1 /\ StartSlots = n - 1
             /\ n \in Nat /\ 0 < n /\ n < SynonymMax /\ n <= Pool
             /\ Len(ch) = n - 1 /\ ch \in Seq(1 .. n - 1) /\ ch \in [1 .. n - 1 -> 1 .. n - 1]
             /\ \A p, q \in 1 .. n - 1 : ch[p] = ch[q] => p = q
             /\ \A s \in 1 .. n - 1 : \E p \in 1 .. n - 1 : ch[p] = s
             /\ LeafKeys \in [1 .. n -> Seq(Keys)]
             /\ \A l \in 1 .. n : /\ Len(LeafKeys[l]) <= N
                                  /\ \A x, y \in DOMAIN LeafKeys[l] :
                                       x < y => LeafKeys[l][x] < LeafKeys[l][y]
             /\ \A p \in 1 .. n - 1 :
                  /\ \A x \in DOMAIN LeafKeys[1], y \in DOMAIN LeafKeys[1 + ch[p]] :
                       LeafKeys[1][x] < LeafKeys[1 + ch[p]][y]
                  /\ \A q \in 1 .. p - 1 :
                       \A x \in DOMAIN LeafKeys[1 + ch[q]], y \in DOMAIN LeafKeys[1 + ch[p]] :
                         LeafKeys[1 + ch[q]][x] < LeafKeys[1 + ch[p]][y]
<1> DEFINE ch == Chains[0]
           n == Len(LeafKeys)
<1>1. Started(Load)
  BY StartAssumption DEF Load
<1>2. Entries = {0} /\ Cardinality({0}) = 1
  BY FS_Singleton DEF OneEntryLoad
<1>3. /\ n >= 1 /\ n <= Pool /\ 1 .. n - 1 \subseteq 1 .. SynonymMax - 2
      /\ LeafKeys \in Seq(Seq(Keys))
      /\ \A l \in DOMAIN LeafKeys :
           /\ Len(LeafKeys[l]) <= N
           /\ \A x, y \in DOMAIN LeafKeys[l] : x < y => LeafKeys[l][x] < LeafKeys[l][y]
      /\ ch \in Seq(1 .. n - 1)
      /\ \A s \in 1 .. n - 1 : \E p \in DOMAIN ch : ch[p] = s
      /\ \A p \in DOMAIN ch, q \in DOMAIN ch : ch[p] = ch[q] => p = q
      /\ \A p \in DOMAIN ch :
           /\ \A x \in DOMAIN LeafKeys[1], y \in DOMAIN LeafKeys[1 + ch[p]] :
                LeafKeys[1][x] < LeafKeys[1 + ch[p]][y]
           /\ \A q \in 1 .. p - 1 :
                \A x \in DOMAIN LeafKeys[1 + ch[q]], y \in DOMAIN LeafKeys[1 + ch[p]] :
                  LeafKeys[1 + ch[q]][x] < LeafKeys[1 + ch[p]][y]
  <2>1. /\ Load.chains = Chains /\ Load.leaf_keys = LeafKeys /\ DOMAIN Load.chains = {0}
        /\ Cardinality(DOMAIN Load.chains) = 1 /\ 0 + 1 = 1
    BY <1>2 DEF Entries, Chains, LeafKeys
  <2>2. n >= 1 /\ n <= Pool /\ 1 .. n - 1 \subseteq 1 .. SynonymMax - 2 /\ LeafKeys \in Seq(Seq(Keys))
    BY <1>1, <2>1 DEF Started
  <2>3. \A l \in DOMAIN LeafKeys :
           /\ Len(LeafKeys[l]) <= N
           /\ \A x, y \in DOMAIN LeafKeys[l] : x < y => LeafKeys[l][x] < LeafKeys[l][y]
    BY <1>1, <2>1 DEF Started
  <2>4. Chains \in [{0} -> Seq(1 .. n - 1)]
    BY <1>1, <2>1 DEF Started
  <2>5. \A s \in 1 .. n - 1 : \E p \in DOMAIN ch : ch[p] = s
    BY <1>1, <2>1 DEF Started
  <2>6. \A p \in DOMAIN ch, q \in DOMAIN ch : ch[p] = ch[q] => p = q
    BY <1>1, <2>1 DEF Started
  <2>7. ASSUME NEW p \in DOMAIN ch
        PROVE  /\ \A x \in DOMAIN LeafKeys[1], y \in DOMAIN LeafKeys[1 + ch[p]] :
                    LeafKeys[1][x] < LeafKeys[1 + ch[p]][y]
               /\ \A q \in 1 .. p - 1 :
                    \A x \in DOMAIN LeafKeys[1 + ch[q]], y \in DOMAIN LeafKeys[1 + ch[p]] :
                      LeafKeys[1 + ch[q]][x] < LeafKeys[1 + ch[p]][y]
    BY <1>1, <2>1 DEF Started
  <2> QED
    BY <2>2, <2>3, <2>4, <2>5, <2>6, <2>7
<1>4. n \in Nat /\ 0 < n /\ Len(ch) \in Nat /\ DOMAIN LeafKeys = 1 .. n /\ DOMAIN ch = 1 .. Len(ch)
  <2>1. LeafKeys \in Seq(Seq(Keys)) /\ ch \in Seq(1 .. n - 1) /\ n >= 1
    BY <1>3
  <2> QED
    BY <2>1
<1>5. Len(ch) = n - 1
  <2> DEFINE S == 1 .. Len(ch)
             R == 1 .. n - 1
  <2>1. ch \in [S -> R]
    BY <1>3
  <2>2. ch \in Bijection(S, R)
    <3>1. (\A a, b \in S : ch[a] = ch[b] => a = b) /\ (\A s \in R : \E p \in S : ch[p] = s)
      BY <1>3, <1>4
    <3> HIDE DEF S, R, ch
    <3> QED
      BY <2>1, <3>1 DEF Bijection, Injection, Surjection, IsInjective
  <2>3. IsFiniteSet(S) /\ Cardinality(S) = Len(ch) /\ IsFiniteSet(R) /\ Cardinality(R) = n - 1
    <3>1. ASSUME NEW b \in Nat PROVE IsFiniteSet(1 .. b) /\ Cardinality(1 .. b) = b
      <4>1. IsFiniteSet(1 .. b) /\ Cardinality(1 .. b) = IF 1 > b THEN 0 ELSE b - 1 + 1
        BY FS_Interval
      <4> QED
        BY <4>1
    <3>2. Len(ch) \in Nat /\ n - 1 \in Nat
      BY <1>4
    <3> HIDE DEF n, ch
    <3> QED
      BY <3>1, <3>2
  <2>4. Cardinality(R) = Cardinality(S)
    <3> HIDE DEF S, R, ch, n
    <3>1. ExistsBijection(S, R)
      BY <2>2 DEF ExistsBijection
    <3> QED
      BY <2>3, <3>1, FS_Bijection
  <2> QED
    BY <2>3, <2>4
<1>6. n < SynonymMax
  <2>1. 1 .. n - 1 \subseteq 1 .. SynonymMax - 2 /\ n \in Nat /\ 0 < n
    BY <1>3, <1>4
  <2> HIDE DEF n
  <2>2. n = 1 \/ n - 1 \in 1 .. n - 1
    BY <2>1
  <2> QED
    BY <2>1, <2>2, ConcAssumption, StartAssumption
<1>7. T = 1 /\ StartSlots = n - 1
  BY <1>2 DEF T, StartSlots
<1>8. ch \in [1 .. n - 1 -> 1 .. n - 1] /\ LeafKeys \in [1 .. n -> Seq(Keys)]
  <2>1. LeafKeys \in Seq(Seq(Keys)) /\ ch \in Seq(1 .. n - 1)
    BY <1>3
  <2>2. ch \in [1 .. Len(ch) -> 1 .. n - 1] /\ LeafKeys \in [1 .. n -> Seq(Keys)]
    BY <2>1
  <2> QED
    BY <1>5, <2>2
<1> HIDE DEF n, ch
<1> QED
  BY <1>3, <1>4, <1>5, <1>6, <1>7, <1>8 DEF n, ch

StartChain == [p \in 0 .. Len(LeafKeys) - 1 |-> IF p = 0 THEN 0 ELSE Chains[0][p]]

LEMMA StartOrder ==
  ASSUME OneEntryLoad, load \in DOMAIN Loads
  PROVE  Order(Len(LeafKeys), StartChain)
<1> DEFINE n == Len(LeafKeys)
           ch == Chains[0]
           c == StartChain
<1>1. /\ n \in Nat /\ 0 < n /\ n < SynonymMax /\ n <= Pool
      /\ ch \in [1 .. n - 1 -> 1 .. n - 1]
      /\ \A p, q \in 1 .. n - 1 : ch[p] = ch[q] => p = q
      /\ \A s \in 1 .. n - 1 : \E p \in 1 .. n - 1 : ch[p] = s
  BY StartedChain
<1>2. /\ DOMAIN c = 0 .. n - 1 /\ c[0] = 0 /\ c = [p \in 0 .. n - 1 |-> c[p]]
      /\ \A p \in 1 .. n - 1 : c[p] = ch[p]
  BY <1>1 DEF StartChain
<1> HIDE DEF n, ch, c
<1>3. \A p \in 0 .. n - 1 : p = 0 \/ p \in 1 .. n - 1
  BY <1>1
<1>4. \A p \in 1 .. n - 1 : c[p] \in 1 .. n - 1 /\ c[p] # 0
  <2>1. \A s \in 1 .. n - 1 : s # 0
    BY <1>1
  <2>2. \A p \in 1 .. n - 1 : ch[p] \in 1 .. n - 1
    BY <1>1
  <2> QED
    BY <1>2, <2>1, <2>2
<1>5. \A s \in 1 .. n - 1 : s \in 0 .. n - 1
  BY <1>1
<1>6. 0 \in 0 .. n - 1
  BY <1>1
<1>7. c \in [0 .. n - 1 -> 0 .. n - 1]
  BY <1>2, <1>3, <1>4, <1>5, <1>6
<1>8. \A p, q \in 0 .. n - 1 : c[p] = c[q] => p = q
  BY <1>1, <1>2, <1>3, <1>4
<1>9. \A s \in 0 .. n - 1 : \E p \in 0 .. n - 1 : c[p] = s
  BY <1>1, <1>2, <1>3, <1>5, <1>6
<1> QED
  BY <1>1, <1>2, <1>7, <1>8, <1>9 DEF Order, n, c

LEMMA StartFollower ==
  ASSUME OneEntryLoad, load \in DOMAIN Loads, NEW p \in 1 .. Len(LeafKeys) - 1
  PROVE  Follower(Chains[0][p]) = IF p = Len(LeafKeys) - 1 THEN 0 ELSE Chains[0][p + 1]
<1> DEFINE n == Len(LeafKeys)
           ch == Chains[0]
<1>1. /\ n \in Nat /\ 0 < n /\ n < SynonymMax /\ Len(ch) = n - 1
      /\ \A q, r \in 1 .. n - 1 : ch[q] = ch[r] => q = r
  BY StartedChain
<1>2. Entries = {0} /\ p \in 1 .. n - 1 /\ SynonymMax \in Nat
  BY ConcAssumption DEF OneEntryLoad
<1> DEFINE s == ch[p]
           before(i, q) == q < Len(Chains[i]) /\ Chains[i][q] = s
<1>3. ASSUME NEW i \in Entries, NEW q \in Indexes, before(i, q) PROVE i = 0 /\ q = p /\ p < n - 1
  <2>1. i = 0 /\ q < n - 1 /\ ch[q] = ch[p]
    BY <1>1, <1>2, <1>3
  <2>2. q \in 1 .. n - 1
    BY <1>1, <2>1 DEF Indexes
  <2> QED
    BY <1>1, <1>2, <2>1, <2>2
<1>4. p < n - 1 => before(0, p) /\ 0 \in Entries /\ p \in Indexes
  <2>1. p \in Indexes
    <3> HIDE DEF n
    <3> QED
      BY <1>1, <1>2 DEF Indexes
  <2> QED
    BY <1>1, <1>2, <2>1
<1>5. CASE p = n - 1
  <2>1. ~ \E i \in Entries, q \in Indexes : before(i, q)
    BY <1>1, <1>3, <1>5
  <2> QED
    BY <1>5, <2>1 DEF Follower
<1>6. CASE p # n - 1
  <2>1. p < n - 1
    <3> HIDE DEF n
    <3> QED
      BY <1>1, <1>2, <1>6
  <2>2. \E i \in Entries, q \in Indexes : before(i, q)
    BY <1>4, <2>1
  <2> DEFINE at == CHOOSE ip \in Entries \X Indexes : before(ip[1], ip[2])
  <2>3. <<0, p>> \in Entries \X Indexes /\ before(<<0, p>>[1], <<0, p>>[2])
    BY <1>4, <2>1
  <2>4. at \in Entries \X Indexes /\ before(at[1], at[2])
    <3> HIDE DEF before
    <3> QED
      BY <2>3
  <2>5. at[1] = 0 /\ at[2] = p
    <3> HIDE DEF at
    <3>1. at[1] \in Entries /\ at[2] \in Indexes
      BY <2>4
    <3> QED
      BY <1>3, <2>4, <3>1
  <2>6. Follower(s) = Chains[at[1]][at[2] + 1]
    BY <2>2 DEF Follower
  <2> QED
    BY <1>6, <2>5, <2>6
<1> QED
  BY <1>5, <1>6

StartRows == [l \in 0 .. Pool - 1 |-> StartLeaf(l)]

LEMMA StartLeaves ==
  ASSUME OneEntryLoad, load \in DOMAIN Loads
  PROVE  /\ Leaves(Len(LeafKeys), StartChain, StartRows, StartRows)
         /\ \A k \in Keys : has(StartRows, k) <=>
              \E l \in DOMAIN LeafKeys : \E x \in DOMAIN LeafKeys[l] : LeafKeys[l][x] = k
<1> DEFINE n == Len(LeafKeys)
           ch == Chains[0]
           c == StartChain
           A == StartRows
           Row(l) == LeafKeys[l + 1]
<1>1. /\ n \in Nat /\ 0 < n /\ n <= Pool /\ Pool \in Nat
      /\ ch \in [1 .. n - 1 -> 1 .. n - 1]
      /\ LeafKeys \in [1 .. n -> Seq(Keys)]
  BY StartedChain, StartAssumption
<1>2. \A l \in 1 .. n : /\ Len(LeafKeys[l]) <= N
                        /\ \A x, y \in DOMAIN LeafKeys[l] : x < y => LeafKeys[l][x] < LeafKeys[l][y]
  BY StartedChain
<1>3. \A p \in 1 .. n - 1 :
        /\ \A x \in DOMAIN LeafKeys[1], y \in DOMAIN LeafKeys[1 + ch[p]] :
             LeafKeys[1][x] < LeafKeys[1 + ch[p]][y]
        /\ \A q \in 1 .. p - 1 :
             \A x \in DOMAIN LeafKeys[1 + ch[q]], y \in DOMAIN LeafKeys[1 + ch[p]] :
               LeafKeys[1 + ch[q]][x] < LeafKeys[1 + ch[p]][y]
  BY StartedChain
<1>4. N \in Nat /\ N > 1 /\ InvalidKey \in Nat
  BY ConcAssumption
<1>5. /\ c[0] = 0 /\ \A p \in 1 .. n - 1 : c[p] = ch[p]
  BY <1>1 DEF StartChain
<1>6. Order(n, c)
  BY StartOrder
<1> HIDE DEF n, ch, c
<1>7. ASSUME NEW l \in 0 .. n - 1
      PROVE  /\ l \in 0 .. Pool - 1 /\ l + 1 \in 1 .. n /\ Row(l) \in Seq(Keys)
             /\ Len(Row(l)) \in Nat /\ Len(Row(l)) <= N /\ DOMAIN Row(l) = 1 .. Len(Row(l))
             /\ \A x \in DOMAIN Row(l) : Row(l)[x] \in Keys
             /\ \A x \in Slots : A[l][x] = IF x < Len(Row(l)) THEN Row(l)[x + 1] ELSE InvalidKey
             /\ \A x \in Slots : x < Len(Row(l)) => x + 1 \in DOMAIN Row(l)
  <2>1. l \in 0 .. Pool - 1 /\ l + 1 \in 1 .. n /\ l < n
    BY <1>1
  <2>2. Row(l) \in Seq(Keys)
    BY <1>1, <2>1
  <2>3. A[l] = StartLeaf(l)
    BY <2>1 DEF StartRows
  <2>4. \A x \in Slots : A[l][x] = IF x < Len(Row(l)) THEN Row(l)[x + 1] ELSE InvalidKey
    BY <2>1, <2>3 DEF StartLeaf, n
  <2>5. Len(Row(l)) <= N
    BY <1>2, <2>1
  <2>6. /\ Len(Row(l)) \in Nat /\ DOMAIN Row(l) = 1 .. Len(Row(l))
        /\ \A x \in DOMAIN Row(l) : Row(l)[x] \in Keys
    BY <2>2
  <2>7. \A x \in Slots : x < Len(Row(l)) => x + 1 \in DOMAIN Row(l)
    BY <1>4, <2>6 DEF Slots
  <2> QED
    BY <2>1, <2>2, <2>4, <2>5, <2>6, <2>7
<1>8. ASSUME NEW l \in n .. Pool - 1 PROVE \A x \in Slots : A[l][x] = InvalidKey
  <2>1. l \in 0 .. Pool - 1 /\ ~ (l < n)
    BY <1>1
  <2>2. A[l] = StartLeaf(l)
    BY <2>1 DEF StartRows
  <2>3. \A x \in Slots : ~ (x < Len(<<>>))
    BY <1>4 DEF Slots
  <2> QED
    BY <2>1, <2>2, <2>3 DEF StartLeaf, n
<1>9. \A l \in 0 .. Pool - 1 : l \in 0 .. n - 1 \/ l \in n .. Pool - 1
  BY <1>1
<1>10. ASSUME NEW l \in 0 .. Pool - 1, NEW x \in Slots PROVE A[l][x] \in 0 .. InvalidKey
  <2>1. CASE l \in 0 .. n - 1
    <3>1. x < Len(Row(l)) => Row(l)[x + 1] \in Keys
      BY <1>7, <2>1
    <3>2. \A k \in Keys : k \in 0 .. InvalidKey
      BY <1>4 DEF Keys
    <3>3. A[l][x] = IF x < Len(Row(l)) THEN Row(l)[x + 1] ELSE InvalidKey
      BY <1>7, <2>1
    <3>4. InvalidKey \in 0 .. InvalidKey
      BY <1>4
    <3> HIDE DEF Row, A
    <3> QED
      BY <3>1, <3>2, <3>3, <3>4
  <2>2. CASE l \in n .. Pool - 1
    BY <1>4, <1>8, <2>2
  <2> QED
    BY <1>9, <2>1, <2>2
<1>11. A \in KeyArrays
  <2>1. A = [l \in 0 .. Pool - 1 |-> A[l]] /\ \A l \in 0 .. Pool - 1 : A[l] = [x \in Slots |-> A[l][x]]
    BY DEF StartRows, StartLeaf
  <2> HIDE DEF A
  <2> QED
    BY <1>10, <2>1 DEF KeyArrays
<1>12. ASSUME NEW l \in 0 .. Pool - 1 PROVE SortedKeys(A[l])
  <2> SUFFICES ASSUME NEW x \in Slots, NEW y \in Slots, x < y, A[l][y] # InvalidKey
               PROVE  A[l][x] < A[l][y]
    BY DEF SortedKeys
  <2>1. l \in 0 .. n - 1
    BY <1>8, <1>9
  <2>2. y < Len(Row(l)) /\ A[l][y] = Row(l)[y + 1] /\ y + 1 \in DOMAIN Row(l)
    BY <1>7, <2>1
  <2>3. x < Len(Row(l)) /\ x + 1 < y + 1
    <3>1. Len(Row(l)) \in Nat
      BY <1>7, <2>1
    <3> HIDE DEF Row
    <3> QED
      BY <1>4, <2>2, <3>1 DEF Slots
  <2>4. A[l][x] = Row(l)[x + 1] /\ x + 1 \in DOMAIN Row(l)
    BY <1>7, <2>1, <2>3
  <2>5. \A v, w \in DOMAIN Row(l) : v < w => Row(l)[v] < Row(l)[w]
    BY <1>2, <1>7, <2>1
  <2> HIDE DEF Row, A
  <2> QED
    BY <2>2, <2>3, <2>4, <2>5
<1>13. Rising(n, c, A)
  <2> SUFFICES ASSUME NEW p \in 0 .. n - 1, NEW q \in 0 .. n - 1, p < q, NEW x \in Slots, NEW y \in Slots,
                      A[c[p]][x] # InvalidKey, A[c[q]][y] # InvalidKey
               PROVE  A[c[p]][x] < A[c[q]][y]
    BY DEF Rising
  <2>1. c[p] \in 0 .. n - 1 /\ c[q] \in 0 .. n - 1
    BY <1>6 DEF Order
  <2>2. A[c[p]][x] = Row(c[p])[x + 1] /\ x + 1 \in DOMAIN Row(c[p])
    BY <1>7, <2>1
  <2>3. A[c[q]][y] = Row(c[q])[y + 1] /\ y + 1 \in DOMAIN Row(c[q])
    BY <1>7, <2>1
  <2>4. q \in 1 .. n - 1 /\ (p = 0 \/ (p \in 1 .. q - 1 /\ p \in 1 .. n - 1))
    BY <1>1
  <2>5. c[q] = ch[q] /\ (p = 0 => c[p] = 0) /\ (p # 0 => c[p] = ch[p])
    BY <1>5, <2>4
  <2>6. 1 + c[p] = c[p] + 1 /\ 1 + c[q] = c[q] + 1 /\ 0 + 1 = 1
    <3>1. \A l \in 0 .. n - 1 : 1 + l = l + 1
      BY <1>1
    <3> QED
      BY <2>1, <3>1
  <2>7. \A v \in DOMAIN Row(c[p]), w \in DOMAIN Row(c[q]) : Row(c[p])[v] < Row(c[q])[w]
    <3>1. CASE p = 0
      BY <1>3, <2>4, <2>5, <2>6, <3>1
    <3>2. CASE p # 0
      BY <1>3, <2>4, <2>5, <2>6, <3>2
    <3> QED
      BY <3>1, <3>2
  <2> HIDE DEF Row, A
  <2> QED
    BY <2>2, <2>3, <2>7
<1>14. Leaves(n, c, A, A)
  BY <1>8, <1>11, <1>12, <1>13 DEF Leaves
<1>15. ASSUME NEW k \in Keys
       PROVE  has(A, k) <=> \E l \in DOMAIN LeafKeys : \E x \in DOMAIN LeafKeys[l] : LeafKeys[l][x] = k
  <2>1. k # InvalidKey
    BY <1>4 DEF Keys
  <2>2. ASSUME has(A, k)
        PROVE  \E l \in DOMAIN LeafKeys : \E x \in DOMAIN LeafKeys[l] : LeafKeys[l][x] = k
    <3>1. PICK l \in 0 .. Pool - 1, x \in Slots : A[l][x] = k
      BY <2>2 DEF has
    <3>2. l \in 0 .. n - 1
      BY <1>8, <1>9, <2>1, <3>1
    <3>3. l + 1 \in DOMAIN LeafKeys /\ x + 1 \in DOMAIN Row(l) /\ Row(l)[x + 1] = k
      BY <1>1, <1>7, <2>1, <3>1, <3>2
    <3> QED
      BY <3>3
  <2>3. ASSUME NEW l \in DOMAIN LeafKeys, NEW x \in DOMAIN LeafKeys[l], LeafKeys[l][x] = k
        PROVE  has(A, k)
    <3>1. l - 1 \in 0 .. n - 1 /\ l - 1 + 1 = l
      BY <1>1
    <3>2. /\ Len(LeafKeys[l]) \in Nat /\ Len(LeafKeys[l]) <= N /\ x \in 1 .. Len(LeafKeys[l])
          /\ \A y \in Slots : A[l - 1][y] = IF y < Len(LeafKeys[l]) THEN LeafKeys[l][y + 1] ELSE InvalidKey
      BY <1>7, <3>1
    <3>3. x - 1 \in Slots /\ x - 1 < Len(LeafKeys[l]) /\ x - 1 + 1 = x
      <4> DEFINE z == Len(LeafKeys[l])
      <4>1. z \in Nat /\ z <= N /\ x \in 1 .. z
        BY <3>2
      <4> HIDE DEF z
      <4> QED
        BY <1>4, <4>1 DEF Slots, z
    <3>4. A[l - 1][x - 1] = k
      BY <2>3, <3>2, <3>3
    <3>5. l - 1 \in 0 .. Pool - 1
      BY <1>7, <3>1
    <3> QED
      BY <3>3, <3>4, <3>5 DEF has
  <2> QED
    BY <2>2, <2>3
<1> QED
  BY <1>14, <1>15 DEF n, c

LEMMA InsertInit ==
  ASSUME Init, OneEntryLoad
  PROVE  InsertInv
<1> DEFINE n == Len(LeafKeys)
           ch == Chains[0]
           c == StartChain
           A == StartRows
<1>1. load \in DOMAIN Loads /\ LockInv /\ Entries = {0}
  BY LockInit DEF Init, OneEntryLoad
<1>2. /\ T = 1 /\ StartSlots = n - 1
      /\ n \in Nat /\ 0 < n /\ n < SynonymMax /\ n <= Pool
      /\ Len(ch) = n - 1 /\ ch \in Seq(1 .. n - 1) /\ ch \in [1 .. n - 1 -> 1 .. n - 1]
      /\ \A s \in 1 .. n - 1 : \E p \in 1 .. n - 1 : ch[p] = s
  BY <1>1, StartedChain
<1>3. /\ table = [i \in Entries |-> [leaf_num |-> i, lock |-> 0,
                    synonym_leaf |-> IF Chains[i] = <<>> THEN 0 ELSE Chains[i][1]]]
      /\ next = StartSlots + 1 /\ used = n
      /\ keys = A /\ vals = A
      /\ present = UNION {{ks[x] : x \in DOMAIN ks} : ks \in {LeafKeys[l] : l \in DOMAIN LeafKeys}}
      /\ \A t \in Threads : pc[t] = "idle" /\ my[t] = Idle
  BY DEF Init, StartRows
<1>4. PICK te \in Garbage :
        syn = [s \in Indexes |-> IF s > StartSlots THEN te
                                 ELSE [leaf_num |-> T + s - 1, synonym_leaf |-> Follower(s)]]
  BY DEF Init
<1>5. next = n /\ used = n
  BY <1>2, <1>3
<1>6. /\ Order(n, c) /\ Leaves(n, c, A, A)
      /\ \A k \in Keys : has(A, k) <=>
           \E l \in DOMAIN LeafKeys : \E x \in DOMAIN LeafKeys[l] : LeafKeys[l][x] = k
  BY <1>1, StartOrder, StartLeaves
<1>7. c[0] = 0 /\ \A p \in 1 .. n - 1 : c[p] = ch[p]
  BY <1>2 DEF StartChain
<1>8. \A p \in 1 .. n - 1 : Follower(ch[p]) = IF p = n - 1 THEN 0 ELSE ch[p + 1]
  BY <1>1, StartFollower
<1>9. ch = <<>> <=> n = 1
  <2>1. ch = <<>> => n = 1
    BY <1>2
  <2>2. n = 1 => ch = <<>>
    <3>1. ch \in Seq(1 .. n - 1) /\ (n = 1 => Len(ch) = 0)
      BY <1>2
    <3> QED
      BY <3>1
  <2> QED
    BY <2>1, <2>2
<1> HIDE DEF n, ch, c, A
<1>10. /\ table[0] = [leaf_num |-> 0, lock |-> 0, synonym_leaf |-> IF n = 1 THEN 0 ELSE ch[1]]
       /\ DOMAIN table = {0}
  BY <1>1, <1>3, <1>9 DEF ch
<1>11. /\ SynonymMax \in Nat /\ Pool \in Nat
       /\ te \in [leaf_num : 0 .. Pool + 1, synonym_leaf : 0 .. SynonymMax]
  BY <1>4, ConcAssumption, StartAssumption
<1>12. ASSUME NEW s \in 1 .. n - 1
       PROVE  /\ s \in Indexes /\ syn[s].leaf_num = s /\ syn[s].synonym_leaf = Follower(s)
              /\ Follower(s) \in 0 .. n - 1
              /\ syn[s] \in [leaf_num : 0 .. Pool + 1, synonym_leaf : 0 .. SynonymMax]
  <2>1. s \in Indexes /\ ~ (s > n - 1) /\ 1 + s - 1 = s /\ s \in 0 .. Pool + 1
    BY <1>2, <1>11 DEF Indexes
  <2>2. syn[s] = [leaf_num |-> s, synonym_leaf |-> Follower(s)]
    BY <1>2, <1>4, <2>1
  <2>3. PICK p \in 1 .. n - 1 : ch[p] = s
    BY <1>2
  <2>4. p # n - 1 => p + 1 \in 1 .. n - 1
    BY <1>2
  <2>5. \A r \in 1 .. n - 1 : r \in 0 .. n - 1
    BY <1>2
  <2>6. 0 \in 0 .. n - 1
    BY <1>2
  <2>7. Follower(s) \in 0 .. n - 1
    BY <1>2, <1>8, <2>3, <2>4, <2>5, <2>6
  <2>8. \A r \in 0 .. n - 1 : r \in 0 .. SynonymMax
    BY <1>2, <1>11
  <2> QED
    BY <2>1, <2>2, <2>7, <2>8
<1>13. SharedTypes
  <2>1. ASSUME NEW s \in Indexes
        PROVE  syn[s] \in [leaf_num : 0 .. Pool + 1, synonym_leaf : 0 .. SynonymMax]
    <3>1. CASE s > n - 1
      BY <1>2, <1>4, <1>11, <3>1
    <3>2. CASE ~ (s > n - 1)
      <4>1. s \in 1 .. n - 1
        BY <1>2, <1>11, <3>2 DEF Indexes
      <4> QED
        BY <1>12, <4>1
    <3> QED
      BY <3>1, <3>2
  <2>2. syn \in [Indexes -> [leaf_num : 0 .. Pool + 1, synonym_leaf : 0 .. SynonymMax]]
    <3>1. syn = [s \in Indexes |-> syn[s]]
      BY <1>4
    <3> QED
      BY <2>1, <3>1
  <2>3. table[0] \in [leaf_num : {0}, synonym_leaf : 0 .. SynonymMax, lock : {0}]
    <3>1. n # 1 => ch[1] \in 1 .. n - 1
      BY <1>2
    <3>2. \A r \in 1 .. n - 1 : r \in 0 .. SynonymMax
      BY <1>2, <1>11
    <3>3. 0 \in 0 .. SynonymMax
      BY <1>11
    <3> QED
      BY <1>10, <3>1, <3>2, <3>3
  <2>4. next \in Nat /\ used \in 1 .. Pool
    BY <1>2, <1>5, <1>11
  <2> QED
    BY <1>10, <2>2, <2>3, <2>4 DEF SharedTypes
<1>14. ASSUME NEW t \in Threads PROVE LocalTypes(t) /\ ~ Inside(t) /\ ~ Added(t)
  <2>1. 0 \in 0 .. Pool - 1
    BY <1>2, <1>11
  <2>2. /\ my[t].op = "none" /\ my[t].chain = <<>> /\ my[t].p = 0 /\ my[t].cur = 0
        /\ my[t].ok = FALSE /\ pc[t] = "idle"
    BY <1>3 DEF Idle
  <2>3. my[t].chain \in Seq(Indexes) /\ my[t].p \in 0 .. Len(my[t].chain)
    BY <2>2
  <2> QED
    BY <2>1, <2>2, <2>3 DEF LocalTypes, Inside, Added, Storing
<1>15. \A p \in 0 .. n - 1 : link(c[p]) = Succ(n, c, p)
  <2> SUFFICES ASSUME NEW p \in 0 .. n - 1 PROVE link(c[p]) = Succ(n, c, p)
    OBVIOUS
  <2>1. CASE p = 0
    <3>1. 0 = n - 1 <=> n = 1
      BY <1>2
    <3>2. n # 1 => 1 \in 1 .. n - 1
      BY <1>2
    <3>3. link(0) = IF n = 1 THEN 0 ELSE ch[1]
      BY <1>10 DEF link
    <3>4. 0 + 1 = 1
      OBVIOUS
    <3> QED
      BY <1>7, <2>1, <3>1, <3>2, <3>3, <3>4 DEF Succ
  <2>2. CASE p # 0
    <3>1. p \in 1 .. n - 1 /\ (p # n - 1 => p + 1 \in 1 .. n - 1)
      BY <1>2, <2>2
    <3>2. ch[p] \in 1 .. n - 1 /\ ch[p] # 0
      <4>1. \A s \in 1 .. n - 1 : s # 0
        BY <1>2
      <4> QED
        BY <1>2, <3>1, <4>1
    <3>3. link(ch[p]) = Follower(ch[p])
      BY <1>12, <3>2 DEF link
    <3> QED
      BY <1>7, <1>8, <3>1, <3>3 DEF Succ
  <2> QED
    BY <2>1, <2>2
<1>16. Shows(n, c, A, A)
  BY <1>3, <1>5, <1>12, <1>15 DEF Shows
<1>17. Holds(A)
  <2>1. \A k : k \in present <=>
          \E l \in DOMAIN LeafKeys : \E x \in DOMAIN LeafKeys[l] : LeafKeys[l][x] = k
    BY <1>3
  <2> QED
    BY <1>6, <1>14, <2>1 DEF Holds
<1>18. Memory(n, c, A, A)
  BY <1>6, <1>14, <1>16, <1>17 DEF Memory
<1> QED
  BY <1>1, <1>13, <1>14, <1>18 DEF InsertInv
-----------------------------------------------------------------------------
\* The load never changes, and the inserts of one that has one entry keep InsertInv.
OneEntryInv == LockInv /\ (OneEntryLoad => InsertInv)

LEMMA LoadKept ==
  ASSUME LockInv, [Next]_vars
  PROVE  OneEntryLoad' <=> OneEntryLoad
<1>1. load' = load
  BY StepKeeps DEF Next, vars
<1> QED
  BY <1>1 DEF OneEntryLoad, Entries, Chains, Load

LEMMA OneEntryInit == Init => OneEntryInv
BY LockInit, InsertInit DEF OneEntryInv

LEMMA OneEntryStep ==
  ASSUME N % 2 = 0
  PROVE  OneEntryInv /\ [Next]_vars => OneEntryInv'
BY LockStep, LoadKept, InsertStep DEF OneEntryInv
-----------------------------------------------------------------------------
(***************************************************************************)
(* What Links reads off the table: the places 1 .. n-1 of the chain. From  *)
(* is the function that Links defines; its equation has a solution.        *)
(***************************************************************************)
Deeper(f, d) ==
  [s \in 0 .. SynonymMax |->
     IF s \notin Indexes \/ d = 0 THEN <<>> ELSE <<s>> \o f[d - 1][syn[s].synonym_leaf]]

From == CHOOSE f : f = [d \in 0 .. SynonymMax |-> Deeper(f, d)]

LEMMA FromExists == From = [d \in 0 .. SynonymMax |-> Deeper(From, d)]
<1> DEFINE D == 0 .. SynonymMax
           Solves(g, m) == \A d \in D : d < m => g[d] = Deeper(g, d)
<1>1. SynonymMax \in Nat
  BY ConcAssumption
<1>2. ASSUME NEW g, NEW h, NEW d \in D, d # 0 => h[d - 1] = g[d - 1]
      PROVE  Deeper(h, d) = Deeper(g, d)
  BY <1>2 DEF Deeper
<1> HIDE DEF D
<1> DEFINE S == {m \in Nat : ~ \E g : Solves(g, m)}
<1>3. S = {}
  <2> SUFFICES ASSUME S # {} PROVE FALSE
    OBVIOUS
  <2>1. PICK m \in S : \A l \in S : m <= l
    BY LeastNumber
  <2>2. CASE m = 0
    <3>1. Solves(<<>>, 0)
      BY <1>1 DEF D
    <3> QED
      BY <2>1, <2>2, <3>1
  <2>3. CASE m # 0
    <3>1. m - 1 \in Nat /\ m - 1 \notin S
      <4>1. m \in Nat /\ \A l \in S : m <= l
        BY <2>1
      <4> HIDE DEF S
      <4> QED
        BY <2>3, <4>1
    <3>2. PICK g : Solves(g, m - 1)
      BY <3>1
    <3> DEFINE h == [d \in D |-> Deeper(g, d)]
    <3>3. ASSUME NEW d \in D, d < m PROVE h[d] = Deeper(h, d)
      <4>1. d # 0 => d - 1 \in D /\ d - 1 < m - 1
        BY <1>1, <2>1, <3>3 DEF D
      <4>2. d # 0 => h[d - 1] = g[d - 1]
        BY <3>2, <4>1
      <4>3. h[d] = Deeper(g, d)
        OBVIOUS
      <4> HIDE DEF h
      <4> QED
        BY <1>2, <4>2, <4>3
    <3>4. Solves(h, m)
      BY <3>3
    <3> HIDE DEF h, Solves
    <3>5. m \notin S
      BY <3>4
    <3> QED
      BY <2>1, <3>5
  <2> QED
    BY <2>2, <2>3
<1>4. PICK g : Solves(g, SynonymMax + 1)
  <2>1. SynonymMax + 1 \in Nat /\ SynonymMax + 1 \notin S
    BY <1>1, <1>3
  <2> HIDE DEF Solves
  <2> QED
    BY <2>1
<1> DEFINE h == [d \in D |-> Deeper(g, d)]
<1>5. \A d \in D : g[d] = Deeper(g, d)
  BY <1>1, <1>4 DEF D
<1>6. ASSUME NEW d \in D PROVE Deeper(h, d) = Deeper(g, d)
  <2>1. d # 0 => d - 1 \in D
    BY <1>1 DEF D
  <2>2. d # 0 => h[d - 1] = g[d - 1]
    BY <1>5, <2>1
  <2> HIDE DEF h
  <2> QED
    BY <1>2, <2>2
<1>7. h = [d \in D |-> Deeper(h, d)]
  BY <1>6
<1> HIDE DEF h
<1>8. \E f : f = [d \in D |-> Deeper(f, d)]
  BY <1>7
<1> QED
  BY <1>8 DEF From, D

LEMMA PrependLemma ==
  ASSUME NEW S, NEW s \in S, NEW t \in Seq(S)
  PROVE  /\ <<s>> \o t \in Seq(S) /\ Len(<<s>> \o t) = Len(t) + 1
         /\ (<<s>> \o t)[1] = s
         /\ \A i \in 1 .. Len(t) : (<<s>> \o t)[i + 1] = t[i]
<1>1. <<s>> \in Seq(S) /\ Len(<<s>>) = 1 /\ <<s>>[1] = s
  OBVIOUS
<1> QED
  BY <1>1

LEMMA SequenceOf ==
  ASSUME NEW S, NEW m \in Nat, NEW f \in [1 .. m -> S]
  PROVE  f \in Seq(S) /\ Len(f) = m
OBVIOUS

\* The last r places of the chain
LastLinks(n, c, r) == [p \in 1 .. r |-> c[n - r + p - 1]]

LEMMA LastLinksLemma ==
  ASSUME NEW n, NEW c, Order(n, c), NEW r \in 1 .. n - 1
  PROVE  <<c[n - r]>> \o LastLinks(n, c, r - 1) = LastLinks(n, c, r)
<1>1. n \in Nat /\ 0 < n /\ r \in Nat /\ r < n /\ 0 < r /\ c \in [0 .. n - 1 -> 0 .. n - 1]
  BY DEF Order
<1> DEFINE S == 0 .. n - 1
           a == LastLinks(n, c, r - 1)
           b == LastLinks(n, c, r)
           e == <<c[n - r]>>
<1>2. /\ n - r \in S /\ r - 1 \in Nat
      /\ \A p \in 1 .. r : n - r + p - 1 \in S
      /\ \A p \in 1 .. r - 1 : n - (r - 1) + p - 1 \in S /\ n - (r - 1) + p - 1 = n - r + p
  BY <1>1
<1>3. \A q \in S : c[q] \in S
  BY <1>1
<1>4. a \in [1 .. r - 1 -> S] /\ b \in [1 .. r -> S]
  BY <1>2, <1>3 DEF LastLinks
<1>5. /\ \A p \in 1 .. r - 1 : a[p] = c[n - r + p]
      /\ \A p \in 1 .. r : b[p] = c[n - r + p - 1]
  BY <1>2 DEF LastLinks
<1>6. c[n - r] \in S
  BY <1>2, <1>3
<1> HIDE DEF S, a, b
<1>7. a \in Seq(S) /\ Len(a) = r - 1 /\ b \in Seq(S) /\ Len(b) = r
  BY <1>1, <1>2, <1>4, SequenceOf, Zenon
<1>9. /\ e \o a \in Seq(S) /\ Len(e \o a) = r /\ (e \o a)[1] = c[n - r]
      /\ \A p \in 1 .. r - 1 : (e \o a)[p + 1] = c[n - r + p]
  <2>1. /\ e \o a \in Seq(S) /\ Len(e \o a) = Len(a) + 1 /\ (e \o a)[1] = c[n - r]
        /\ \A p \in 1 .. Len(a) : (e \o a)[p + 1] = a[p]
    BY <1>6, <1>7, PrependLemma
  <2> DEFINE g == e \o a
  <2>2. /\ g \in Seq(S) /\ Len(g) = Len(a) + 1 /\ g[1] = c[n - r]
        /\ \A p \in 1 .. Len(a) : g[p + 1] = a[p]
    BY <2>1, Zenon
  <2> HIDE DEF g
  <2>3. r - 1 + 1 = r
    BY <1>1
  <2>4. /\ g \in Seq(S) /\ Len(g) = r /\ g[1] = c[n - r]
        /\ \A p \in 1 .. r - 1 : g[p + 1] = c[n - r + p]
    BY <1>5, <1>7, <2>2, <2>3
  <2> QED
    BY <2>4, Zenon DEF g
<1> HIDE DEF e
<1>10. ASSUME NEW p \in 1 .. r PROVE (e \o a)[p] = b[p]
  <2>1. CASE p = 1
    <3>1. b[1] = c[n - r]
      <4>1. n - r + 1 - 1 = n - r /\ 1 \in 1 .. r
        BY <1>1
      <4> QED
        BY <1>5, <4>1
    <3> QED
      BY <1>9, <2>1, <3>1
  <2>2. CASE p # 1
    <3>1. p - 1 \in 1 .. r - 1 /\ p - 1 + 1 = p /\ n - r + (p - 1) = n - r + p - 1
      BY <1>1, <2>2
    <3>2. (e \o a)[p] = c[n - r + (p - 1)]
      BY <1>9, <3>1
    <3> QED
      BY <1>5, <3>1, <3>2
  <2> QED
    BY <2>1, <2>2
<1>11. e \o a = b
  BY <1>7, <1>9, <1>10
<1> QED
  BY <1>11 DEF a, b, e

LEMMA LinksLemma ==
  ASSUME NEW n, NEW c, Order(n, c), \A p \in 0 .. n - 1 : link(c[p]) = Succ(n, c, p)
  PROVE  Links(0) = [p \in 1 .. n - 1 |-> c[p]]
<1>1. /\ n \in Nat /\ 0 < n /\ n < SynonymMax /\ SynonymMax \in Nat /\ c[0] = 0
      /\ c \in [0 .. n - 1 -> 0 .. n - 1]
      /\ \A p, q \in 0 .. n - 1 : c[p] = c[q] => p = q
  BY ConcAssumption DEF Order
<1>2. /\ From = [d \in 0 .. SynonymMax |-> Deeper(From, d)]
      /\ Links(0) = From[SynonymMax][table[0].synonym_leaf]
  BY FromExists DEF Links, From, Deeper
<1> DEFINE Reads(r) == \A d \in r .. SynonymMax : From[d][Succ(n, c, n - r - 1)] = LastLinks(n, c, r)
           S == {r \in 0 .. n - 1 : ~ Reads(r)}
<1>3. S = {}
  <2> SUFFICES ASSUME S # {} PROVE FALSE
    OBVIOUS
  <2>1. S \in SUBSET Nat
    BY <1>1
  <2>2. PICK r \in S : \A l \in S : r <= l
    <3> HIDE DEF S
    <3> QED
      BY <2>1, LeastNumber
  <2>3. r \in 0 .. n - 1 /\ ~ Reads(r)
    BY <2>2
  <2>4. PICK d \in r .. SynonymMax : From[d][Succ(n, c, n - r - 1)] # LastLinks(n, c, r)
    BY <2>3
  <2>5. d \in 0 .. SynonymMax
    BY <1>1, <2>3
  <2>6. From[d] = Deeper(From, d)
    BY <1>2, <2>5, Zenon
  <2>7. CASE r = 0
    <3>1. n - r - 1 = n - 1
      BY <1>1, <2>7
    <3>2. Succ(n, c, n - r - 1) = 0
      BY <3>1 DEF Succ
    <3>3. 0 \notin Indexes /\ 0 \in 0 .. SynonymMax
      BY <1>1 DEF Indexes
    <3>4. From[d][0] = <<>>
      BY <2>6, <3>3 DEF Deeper
    <3>5. LastLinks(n, c, 0) = <<>>
      <4>1. 1 .. 0 = {}
        OBVIOUS
      <4> QED
        BY <4>1 DEF LastLinks
    <3> QED
      BY <2>4, <2>7, <3>2, <3>4, <3>5
  <2>8. CASE r # 0
    <3>1. /\ r \in 1 .. n - 1 /\ r - 1 \in 0 .. n - 1 /\ r - 1 < r /\ d # 0
          /\ d - 1 \in r - 1 .. SynonymMax
      BY <1>1, <2>3, <2>8
    <3> DEFINE q == n - r
    <3>2. /\ q \in 1 .. n - 1 /\ q \in 0 .. n - 1 /\ n - r - 1 = q - 1 /\ q - 1 # n - 1 /\ q - 1 + 1 = q
          /\ n - (r - 1) - 1 = q /\ 0 \in 0 .. n - 1 /\ q # 0
      BY <1>1, <3>1
    <3>3. Succ(n, c, n - r - 1) = c[q]
      BY <3>2 DEF Succ
    <3>4. c[q] \in Indexes /\ c[q] \in 0 .. SynonymMax /\ c[q] # 0
      <4>1. c[q] \in 0 .. n - 1 /\ c[q] # 0
        BY <1>1, <3>2
      <4>2. \A l \in 0 .. n - 1 : l # 0 => l \in Indexes /\ l \in 0 .. SynonymMax
        BY <1>1 DEF Indexes
      <4> QED
        BY <4>1, <4>2
    <3>5. From[d][c[q]] = <<c[q]>> \o From[d - 1][syn[c[q]].synonym_leaf]
      <4>1. Deeper(From, d)[c[q]] = <<c[q]>> \o From[d - 1][syn[c[q]].synonym_leaf]
        BY <3>1, <3>4 DEF Deeper
      <4> QED
        BY <2>6, <4>1
    <3>6. syn[c[q]].synonym_leaf = Succ(n, c, q)
      BY <3>2, <3>4 DEF link
    <3>7. From[d - 1][Succ(n, c, q)] = LastLinks(n, c, r - 1)
      <4>1. r - 1 \notin S
        <5> HIDE DEF S
        <5> QED
          BY <1>1, <2>2, <2>3, <3>1
      <4>2. Reads(r - 1)
        BY <3>1, <4>1
      <4> QED
        BY <3>1, <3>2, <4>2
    <3>8. <<c[q]>> \o LastLinks(n, c, r - 1) = LastLinks(n, c, r)
      BY <3>1, LastLinksLemma
    <3> QED
      BY <2>4, <3>3, <3>5, <3>6, <3>7, <3>8
  <2> QED
    BY <2>7, <2>8
<1>4. From[SynonymMax][Succ(n, c, 0)] = LastLinks(n, c, n - 1)
  <2> DEFINE r == n - 1
  <2>1. r \in 0 .. n - 1 /\ SynonymMax \in r .. SynonymMax /\ n - r - 1 = 0
    BY <1>1
  <2>2. Reads(r)
    BY <1>3, <2>1
  <2> HIDE DEF r
  <2>3. From[SynonymMax][Succ(n, c, n - r - 1)] = LastLinks(n, c, r)
    BY <2>1, <2>2
  <2> QED
    BY <2>1, <2>3 DEF r
<1>5. table[0].synonym_leaf = Succ(n, c, 0)
  <2>1. 0 \in 0 .. n - 1
    BY <1>1
  <2>2. link(0) = Succ(n, c, 0)
    BY <1>1, <2>1
  <2> QED
    BY <2>2 DEF link
<1>6. LastLinks(n, c, n - 1) = [p \in 1 .. n - 1 |-> c[p]]
  <2>1. \A p \in 1 .. n - 1 : n - (n - 1) + p - 1 = p
    BY <1>1
  <2> QED
    BY <2>1 DEF LastLinks
<1> QED
  BY <1>2, <1>4, <1>5, <1>6

\* ... and the leaves of the chain
LEMMA LeafNumsLemma ==
  ASSUME NEW n, NEW c, Order(n, c), \A p \in 0 .. n - 1 : link(c[p]) = Succ(n, c, p),
         \A s \in 1 .. n - 1 : syn[s].leaf_num = s
  PROVE  /\ DOMAIN Links(0) = 1 .. n - 1 /\ \A p \in 1 .. n - 1 : Links(0)[p] = c[p]
         /\ DOMAIN LeafNums(0) = 1 .. n /\ \A p \in 1 .. n : LeafNums(0)[p] = c[p - 1]
<1>1. /\ n \in Nat /\ 0 < n /\ c[0] = 0 /\ c \in [0 .. n - 1 -> 0 .. n - 1]
      /\ \A p, q \in 0 .. n - 1 : c[p] = c[q] => p = q
  BY DEF Order
<1>2. Links(0) = [p \in 1 .. n - 1 |-> c[p]]
  BY LinksLemma
<1>3. \A p \in 1 .. n - 1 : c[p] \in 1 .. n - 1
  <2>1. \A p \in 1 .. n - 1 : p \in 0 .. n - 1 /\ p # 0 /\ 0 \in 0 .. n - 1
    BY <1>1
  <2>2. \A p \in 1 .. n - 1 : c[p] \in 0 .. n - 1 /\ c[p] # 0
    BY <1>1, <2>1
  <2>3. \A s \in 0 .. n - 1 : s # 0 => s \in 1 .. n - 1
    BY <1>1
  <2> QED
    BY <2>2, <2>3
<1> DEFINE b == [p \in 1 .. n - 1 |-> c[p]]
<1>4. Links(0) \in Seq(1 .. n - 1) /\ Len(Links(0)) = n - 1
  <2>1. b \in [1 .. n - 1 -> 1 .. n - 1] /\ n - 1 \in Nat /\ Links(0) = b
    BY <1>1, <1>2, <1>3
  <2> HIDE DEF b
  <2> QED
    BY <2>1
<1>5. [p \in 1 .. Len(Links(0)) |-> syn[Links(0)[p]].leaf_num] = b
  BY <1>2, <1>3, <1>4
<1>6. LeafNums(0) = <<0>> \o b
  BY <1>5 DEF LeafNums
<1>7. b \in Seq(Nat) /\ Len(b) = n - 1 /\ \A p \in 1 .. n - 1 : b[p] = c[p]
  <2>1. \A s \in 1 .. n - 1 : s \in Nat
    BY <1>1
  <2>2. b \in [1 .. n - 1 -> Nat] /\ n - 1 \in Nat /\ \A p \in 1 .. n - 1 : b[p] = c[p]
    BY <1>1, <1>3, <2>1
  <2> HIDE DEF b
  <2> QED
    BY <2>2
<1> HIDE DEF b
<1>8. /\ Len(LeafNums(0)) = n /\ LeafNums(0) \in Seq(Nat) /\ LeafNums(0)[1] = 0
      /\ \A p \in 1 .. n - 1 : LeafNums(0)[p + 1] = b[p]
  <2>1. /\ <<0>> \o b \in Seq(Nat) /\ Len(<<0>> \o b) = Len(b) + 1 /\ (<<0>> \o b)[1] = 0
        /\ \A p \in 1 .. Len(b) : (<<0>> \o b)[p + 1] = b[p]
    BY <1>7, PrependLemma
  <2>2. /\ LeafNums(0) \in Seq(Nat) /\ Len(LeafNums(0)) = Len(b) + 1 /\ LeafNums(0)[1] = 0
        /\ \A p \in 1 .. Len(b) : LeafNums(0)[p + 1] = b[p]
    BY <1>6, <2>1, Zenon
  <2>3. n - 1 + 1 = n
    BY <1>1
  <2> QED
    BY <1>7, <2>2, <2>3
<1>9. ASSUME NEW p \in 1 .. n PROVE LeafNums(0)[p] = c[p - 1]
  <2>1. CASE p = 1
    BY <1>1, <1>8, <2>1
  <2>2. CASE p # 1
    <3>1. p - 1 \in 1 .. n - 1 /\ p - 1 + 1 = p
      BY <1>1, <2>2
    <3> QED
      BY <1>7, <1>8, <3>1
  <2> QED
    BY <2>1, <2>2
<1> QED
  BY <1>2, <1>8, <1>9
-----------------------------------------------------------------------------
(***************************************************************************)
(* What the runs check, from InsertInv                                     *)
(***************************************************************************)
\* A call is of an operation that its thread calls, and a lock is busy or not.
CallsInv ==
  /\ LockInv
  /\ csLocks \in [Entries -> BOOLEAN]
  /\ \A t \in Threads : my[t].op = "none" \/ my[t].op \in Load.ops[t]

LEMMA CallsInit == Init => CallsInv
<1> SUFFICES ASSUME Init PROVE CallsInv
  OBVIOUS
<1>1. LockInv
  BY LockInit
<1>2. csLocks = [i \in Entries |-> FALSE] /\ \A t \in Threads : my[t] = Idle
  BY DEF Init
<1>3. \A t \in Threads : my[t].op = "none"
  BY <1>2 DEF Idle
<1> QED
  BY <1>1, <1>2, <1>3 DEF CallsInv

LEMMA CallsStep == CallsInv /\ [Next]_vars => CallsInv'
<1> SUFFICES ASSUME CallsInv, [Next]_vars PROVE CallsInv'
  OBVIOUS
<1>1. LockInv /\ LockInv'
  BY LockStep DEF CallsInv
<1>2. CASE UNCHANGED vars
  BY <1>1, <1>2 DEF vars, shared, CallsInv, Entries, Chains, Load
<1>3. CASE Next
  <2>1. PICK t \in Threads : \/ \E op \in Load.ops[t], k \in Load.targets[t] : Begin(t, op, k)
                             \/ Step(t)
    BY <1>3 DEF Next
  <2>2. Keeps(t) /\ load' = load
    BY <1>1, <2>1, StepKeeps
  <2>3. Load' = Load /\ Entries' = Entries
    BY <2>2 DEF Load, Entries, Chains
  <2>4. /\ DOMAIN pc = Threads /\ DOMAIN my = Threads /\ DOMAIN my[t] = Fields
    BY <1>1 DEF LockInv
  <2>5. SUFFICES /\ csLocks' \in [Entries -> BOOLEAN]
                 /\ my'[t].op = "none" \/ my'[t].op \in Load.ops[t]
    BY <1>1, <2>2, <2>3 DEF CallsInv, Keeps
  <2>6. csLocks \in [Entries -> BOOLEAN] /\ (my[t].op = "none" \/ my[t].op \in Load.ops[t])
    BY DEF CallsInv
  <2>7. CASE \E op \in Load.ops[t], k \in Load.targets[t] : Begin(t, op, k)
    BY <2>4, <2>6, <2>7 DEF Begin, shared, Idle
  <2>8. CASE Plain(t)
    BY <1>1, <2>6, <2>8, PlainGoes DEF Goes
  <2>9. CASE Route(t)
    BY <2>4, <2>6, <2>9 DEF Route, Local, shared, Fields
  <2>10. CASE CsLock(t)
    BY <2>6, <2>10 DEF CsLock
  <2>11. CASE CsUnlock(t)
    BY <2>4, <2>6, <2>11 DEF CsUnlock, Return, Idle
  <2>12. CASE ClearLock(t)
    BY <2>4, <2>6, <2>12 DEF ClearLock, Return, Idle
  <2>13. CASE SeeLock(t) \/ SetLock(t)
    BY <2>6, <2>13 DEF SeeLock, SetLock, shared
  <2>14. CASE Answer(t)
    BY <2>4, <2>6, <2>14 DEF Answer, Return, shared, Idle
  <2>15. CASE Test(t) /\ pc'[t] = "idle"
    BY <2>4, <2>6, <2>15 DEF Test, Return, Goto, At, shared, Idle
  <2> QED
    BY <2>1, <2>7, <2>8, <2>9, <2>10, <2>11, <2>12, <2>13, <2>14, <2>15 DEF Step, Plain
<1> QED
  BY <1>2, <1>3

LEMMA NoneInside ==
  ASSUME LockInv, Quiet
  PROVE  \A u \in Threads : ~ Inside(u) /\ pc[u] \in Outer
BY DEF Quiet, Inside, Section, Outer

LEMMA ArrayTypes ==
  ASSUME OneEntryLoad, InsertInv
  PROVE  keys \in KeyArrays /\ vals \in KeyArrays
<1>1. CASE \E t \in Threads : pc[t] \in Storing
  <2>1. PICK t \in Threads : pc[t] \in Storing
    BY <1>1
  <2>2. Inside(t)
    BY <2>1, InsertPc
  <2>3. PICK n, c, K, V : Seen(t, n, c, K, V)
    BY <2>2, Enter
  <2> QED
    BY <2>1, <2>3 DEF Seen, InsertAt, Stores
<1>2. CASE \A t \in Threads : pc[t] \notin Storing
  <2>1. PICK n, c, K, V : Memory(n, c, K, V)
    BY DEF InsertInv
  <2> QED
    BY <1>2, <2>1 DEF Memory, Shows, Leaves
<1> QED
  BY <1>1, <1>2

LEMMA TypesLemma ==
  ASSUME OneEntryLoad, InsertInv, CallsInv
  PROVE  TypeOK
<1>1. /\ LockInv /\ SharedTypes /\ Entries = {0}
      /\ \A t \in Threads : LocalTypes(t)
  BY EntryZero DEF InsertInv
<1>2. T = 1
  BY <1>1, FS_Singleton DEF T
<1>3. \A i \in Entries : table[i].lock \in {0, 1} /\ table[i].leaf_num = i
  BY <1>1 DEF SharedTypes
<1>4. \A s \in Indexes : syn[s].synonym_leaf \in 0 .. SynonymMax /\ syn[s].leaf_num \in 0 .. Pool + 1
  BY <1>1 DEF SharedTypes
<1>5. keys \in KeyArrays /\ vals \in KeyArrays
  BY ArrayTypes
<1>6. used \in T .. Pool
  BY <1>1, <1>2 DEF SharedTypes
<1>7. csLocks \in [Entries -> BOOLEAN]
  BY DEF CallsInv
<1>8. \A t \in Threads : my[t].cur < Pool /\ my[t].p <= Len(my[t].chain)
  BY <1>1, StartAssumption DEF LocalTypes
<1> QED
  BY <1>3, <1>4, <1>5, <1>6, <1>7, <1>8 DEF TypeOK, KeyArrays

LEMMA AtRest ==
  ASSUME OneEntryLoad, InsertInv, Quiet
  PROVE  \E n, c, K, V : Rest(n, c, K, V)
<1>1. PICK n, c, K, V : Memory(n, c, K, V)
  BY DEF InsertInv
<1>2. \A u \in Threads : ~ Inside(u) /\ pc[u] \in Outer
  BY NoneInside DEF InsertInv
<1>3. Rest(n, c, K, V)
  BY <1>1, <1>2, RestLemma
<1> QED
  BY <1>3

LEMMA SortedLemma ==
  ASSUME OneEntryLoad, InsertInv
  PROVE  LeavesSorted
<1> SUFFICES ASSUME Quiet, NEW l \in 0 .. Pool - 1, NEW x \in Slots \ {0}
             PROVE  keys[l][x - 1] < keys[l][x] \/ keys[l][x] = InvalidKey
  BY DEF LeavesSorted
<1>1. PICK n, c, K, V : Rest(n, c, K, V)
  BY AtRest
<1>2. SortedKeys(keys[l])
  BY <1>1 DEF Rest, Leaves
<1>3. x - 1 \in Slots /\ x - 1 < x
  BY ConcAssumption DEF Slots
<1> QED
  BY <1>2, <1>3 DEF SortedKeys

LEMMA SlotsLemma ==
  ASSUME OneEntryLoad, InsertInv
  PROVE  SlotsGivenOnce
<1> SUFFICES ASSUME NEW t \in Splitting
             PROVE  /\ \A s \in Splitting : s # t => my[s].s # my[t].s
                    /\ \A i \in Entries : \A p \in DOMAIN Links(i) : Links(i)[p] # my[t].s
  BY DEF SlotsGivenOnce
<1>1. t \in Threads /\ pc[t] \in {"bump", "link"} /\ pc[t] \in Drawn /\ pc[t] \in Splits
  BY DEF Splitting, Drawn, Splits
<1>2. Inside(t)
  BY <1>1, InsertPc
<1>3. Apart(t)
  BY <1>1, <1>2, Enter
<1>4. PICK n, c, K, V : Seen(t, n, c, K, V)
  BY <1>1, <1>2, Enter
<1>5. ASSUME NEW s \in Splitting, s # t PROVE FALSE
  <2>1. pc[s] \in Outer
    BY <1>3, <1>5 DEF Splitting, Apart
  <2> QED
    BY <1>5, <2>1 DEF Splitting, Outer, Walk
<1>6. my[t].s = n
  BY <1>1, <1>4 DEF Seen, InsertAt, SplitsOff
<1>7. /\ Order(n, c) /\ \A p \in 0 .. n - 1 : link(c[p]) = Succ(n, c, p)
      /\ \A s \in 1 .. n - 1 : syn[s].leaf_num = s
  BY <1>1, <1>4 DEF Seen, ShowsTo
<1>8. DOMAIN Links(0) = 1 .. n - 1 /\ \A p \in 1 .. n - 1 : Links(0)[p] = c[p]
  BY <1>7, LeafNumsLemma
<1>9. \A p \in 1 .. n - 1 : c[p] # n
  <2>1. n \in Nat /\ c \in [0 .. n - 1 -> 0 .. n - 1]
    BY <1>7 DEF Order
  <2>2. \A p \in 1 .. n - 1 : p \in 0 .. n - 1
    BY <2>1
  <2>3. n \notin 0 .. n - 1
    BY <2>1
  <2> QED
    BY <2>1, <2>2, <2>3
<1>10. Entries = {0}
  BY EntryZero DEF InsertInv
<1> QED
  BY <1>5, <1>6, <1>8, <1>9, <1>10

LEMMA LinkedLemma ==
  ASSUME OneEntryLoad, InsertInv
  PROVE  SplitsLinked
<1> SUFFICES ASSUME NEW t \in Threads, pc[t] = "move"
             PROVE  \E i \in Entries, p \in 1 .. Pool :
                      p \in DOMAIN LeafNums(i) /\ LeafNums(i)[p] = my[t].new
  BY DEF SplitsLinked
<1>1. pc[t] \in Splits
  BY DEF Splits
<1>2. Inside(t)
  BY <1>1, InsertPc
<1>3. PICK n, c, K, V : Seen(t, n, c, K, V)
  BY <1>2, Enter
<1>4. /\ Order(n, c) /\ \A p \in 0 .. n - 1 : link(c[p]) = Succ(n, c, p)
      /\ \A s \in 1 .. n - 1 : syn[s].leaf_num = s
  BY <1>3 DEF Seen, ShowsTo
<1>5. DOMAIN LeafNums(0) = 1 .. n /\ \A p \in 1 .. n : LeafNums(0)[p] = c[p - 1]
  BY <1>4, LeafNumsLemma
<1>6. my[t].p + 1 < n /\ my[t].new = c[my[t].p + 1] /\ Chosen(n, c, K, my[t].p, my[t].key)
  BY <1>1, <1>3 DEF Seen, InsertAt, SplitsOff, Walks
<1> DEFINE q == my[t].p
<1>7. n \in Nat /\ n <= Pool /\ q \in 0 .. n - 1 /\ q + 1 < n
  BY <1>4, <1>6 DEF Order, Chosen
<1>8. my[t].new = c[q + 1]
  BY <1>6
<1> HIDE DEF q
<1> DEFINE r == q + 2
<1>9. r \in 1 .. n /\ r \in 1 .. Pool /\ r - 1 = q + 1
  BY <1>7, StartAssumption
<1> HIDE DEF r
<1>10. Entries = {0}
  BY EntryZero DEF InsertInv
<1>11. r \in DOMAIN LeafNums(0) /\ LeafNums(0)[r] = c[r - 1]
  BY <1>5, <1>9
<1>12. LeafNums(0)[r] = my[t].new
  BY <1>8, <1>9, <1>11
<1> QED
  BY <1>9, <1>10, <1>11, <1>12

\* A key is in one slot of the chain at most.
LEMMA OneSlot ==
  ASSUME NEW n, NEW c, NEW K, NEW V, Order(n, c), Leaves(n, c, K, V), NEW k \in Keys,
         NEW p \in 0 .. n - 1, NEW q \in 0 .. n - 1, NEW x \in Slots, NEW y \in Slots,
         K[c[p]][x] = k, K[c[q]][y] = k
  PROVE  p = q /\ x = y
<1>1. k \in Nat /\ k # InvalidKey
  BY ConcAssumption DEF Keys
<1>2. Rising(n, c, K)
  BY DEF Leaves
<1>3. ~ (p < q) /\ ~ (q < p)
  BY <1>1, <1>2 DEF Rising
<1>4. p = q
  BY <1>3 DEF Order
<1>5. c[p] \in 0 .. Pool - 1
  <2>1. n \in Nat /\ n <= Pool /\ c[p] \in 0 .. n - 1
    BY DEF Order
  <2> QED
    BY <2>1, StartAssumption
<1>6. SortedKeys(K[c[p]])
  BY <1>5 DEF Leaves
<1>7. ~ (x < y) /\ ~ (y < x)
  BY <1>1, <1>4, <1>6 DEF SortedKeys
<1> QED
  BY <1>4, <1>7, ConcAssumption DEF Slots

LEMMA EntryForLemma ==
  ASSUME OneEntryLoad, LockInv, NEW k \in Keys
  PROVE  EntryFor(k) = 0
<1>1. Entries = {0} /\ load \in DOMAIN Loads
  BY EntryZero DEF LockInv
<1>2. /\ Load.lo[k] \in Int /\ Load.hi[k] \in Int /\ Load.lo[k] <= Load.hi[k]
      /\ \A i \in Int : Load.lo[k] <= i /\ i <= Load.hi[k] => i \in Entries
  BY <1>1, StartedWindow
<1>3. Load.lo[k] = 0 /\ Load.hi[k] = 0
  BY <1>1, <1>2
<1>4. {i \in Load.lo[k] + 1 .. Load.hi[k] : insertHere(i, k)} = {}
  BY <1>3
<1> QED
  BY <1>3, <1>4 DEF EntryFor

\* The slots that hold a key, once the table is at rest
LEMMA HoldersLemma ==
  ASSUME OneEntryLoad, LockInv, NEW n, NEW c, NEW K, NEW V, Rest(n, c, K, V), NEW k \in Keys
  PROVE  /\ n \in Nat /\ DOMAIN LeafNums(EntryFor(k)) = 1 .. n
         /\ \A r \in 1 .. n : r - 1 \in 0 .. n - 1 /\ LeafNums(EntryFor(k))[r] = c[r - 1]
         /\ Holders(k) = {rx \in (1 .. n) \X Slots : K[c[rx[1] - 1]][rx[2]] = k}
<1>1. EntryFor(k) = 0
  BY EntryForLemma
<1>2. /\ Order(n, c) /\ \A p \in 0 .. n - 1 : link(c[p]) = Succ(n, c, p)
      /\ \A s \in 1 .. n - 1 : syn[s].leaf_num = s
  BY DEF Rest
<1>3. DOMAIN LeafNums(0) = 1 .. n /\ \A r \in 1 .. n : LeafNums(0)[r] = c[r - 1]
  BY <1>2, LeafNumsLemma
<1>4. n \in Nat /\ \A r \in 1 .. n : r - 1 \in 0 .. n - 1
  BY <1>2 DEF Order
<1>5. keys = K
  BY DEF Rest
<1>6. Holders(k) = {rx \in (1 .. n) \X Slots : K[LeafNums(0)[rx[1]]][rx[2]] = k}
  BY <1>1, <1>3, <1>5 DEF Holders
<1>7. \A rx \in (1 .. n) \X Slots : LeafNums(0)[rx[1]] = c[rx[1] - 1]
  BY <1>3
<1>8. Holders(k) = {rx \in (1 .. n) \X Slots : K[c[rx[1] - 1]][rx[2]] = k}
  BY <1>6, <1>7
<1> QED
  BY <1>1, <1>3, <1>4, <1>8

LEMMA MatchesLemma ==
  ASSUME OneEntryLoad, InsertInv
  PROVE  IndexMatches
<1> SUFFICES ASSUME Quiet, NEW k \in Keys
             PROVE  /\ k \in present => \E r \in DOMAIN LeafNums(EntryFor(k)), x \in Slots :
                         /\ Holders(k) = {<<r, x>>}
                         /\ vals[LeafNums(EntryFor(k))[r]][x] = k
                    /\ k \notin present => Holders(k) = {}
  BY DEF IndexMatches
<1>1. LockInv /\ \E n, c, K, V : Rest(n, c, K, V)
  BY AtRest DEF InsertInv
<1>2. PICK n, c, K, V : Rest(n, c, K, V)
  BY <1>1
<1> DEFINE L == LeafNums(EntryFor(k))
           H == Holders(k)
<1>3. /\ n \in Nat /\ DOMAIN L = 1 .. n
      /\ \A r \in 1 .. n : r - 1 \in 0 .. n - 1 /\ L[r] = c[r - 1]
      /\ H = {rx \in (1 .. n) \X Slots : K[c[rx[1] - 1]][rx[2]] = k}
  BY <1>1, <1>2, HoldersLemma
<1> SUFFICES /\ k \in present => \E r \in DOMAIN L, x \in Slots : H = {<<r, x>>} /\ vals[L[r]][x] = k
             /\ k \notin present => H = {}
  OBVIOUS
<1> HIDE DEF L, H
<1>4. /\ Order(n, c) /\ Leaves(n, c, K, V) /\ vals = V
      /\ has(K, k) <=> k \in present
  BY <1>2 DEF Rest
<1>5. /\ n <= Pool /\ c \in [0 .. n - 1 -> 0 .. n - 1]
      /\ \A s \in 0 .. n - 1 : \E p \in 0 .. n - 1 : c[p] = s
  BY <1>4 DEF Order
<1>6. k \in Nat /\ k # InvalidKey
  BY ConcAssumption DEF Keys
<1>7. \A s \in 0 .. n - 1 : s \in 0 .. Pool - 1
  BY <1>3, <1>5, StartAssumption
<1>8. CASE k \in present
  <2>1. PICK l \in 0 .. Pool - 1 : \E x \in Slots : K[l][x] = k
    BY <1>4, <1>8 DEF has
  <2>2. PICK x \in Slots : K[l][x] = k
    BY <2>1
  <2>3. l \notin n .. Pool - 1
    BY <1>4, <1>6, <2>2 DEF Leaves
  <2>4. l \in 0 .. n - 1
    BY <1>3, <1>5, <2>1, <2>3, StartAssumption
  <2>5. PICK p \in 0 .. n - 1 : c[p] = l
    BY <1>5, <2>4
  <2> DEFINE r == p + 1
  <2>6. r \in 1 .. n /\ r - 1 = p
    BY <1>3, <2>5
  <2> HIDE DEF r
  <2>7. <<r, x>> \in H
    BY <1>3, <2>2, <2>5, <2>6
  <2>8. ASSUME NEW rx \in H PROVE rx = <<r, x>>
    <3>1. /\ rx \in (1 .. n) \X Slots /\ K[c[rx[1] - 1]][rx[2]] = k
          /\ rx[1] \in 1 .. n /\ rx[2] \in Slots /\ rx[1] - 1 \in 0 .. n - 1
      BY <1>3, <2>8
    <3>2. rx[1] - 1 = p /\ rx[2] = x
      BY <1>4, <2>2, <2>5, <3>1, OneSlot
    <3>3. rx[1] = r
      BY <1>3, <2>6, <3>1, <3>2
    <3> QED
      BY <3>1, <3>2, <3>3
  <2>9. H = {<<r, x>>}
    BY <2>7, <2>8
  <2>10. L[r] = l
    BY <1>3, <2>5, <2>6
  <2>11. V[l][x] = K[l][x]
    BY <1>4, <1>6, <2>1, <2>2 DEF Leaves
  <2> QED
    BY <1>3, <1>4, <1>8, <2>2, <2>6, <2>9, <2>10, <2>11
<1>9. CASE k \notin present
  <2>1. ASSUME NEW rx \in H PROVE FALSE
    <3>1. rx[2] \in Slots /\ rx[1] - 1 \in 0 .. n - 1 /\ K[c[rx[1] - 1]][rx[2]] = k
      BY <1>3, <2>1
    <3>2. c[rx[1] - 1] \in 0 .. Pool - 1
      BY <1>5, <1>7, <3>1
    <3>3. has(K, k)
      BY <3>1, <3>2 DEF has
    <3> QED
      BY <1>4, <1>9, <3>3
  <2> QED
    BY <1>9, <2>1
<1> QED
  BY <1>8, <1>9
-----------------------------------------------------------------------------
(***************************************************************************)
(* A thread beside which nobody inserts: what its call answers, against    *)
(* what was in the index when it began.                                    *)
(***************************************************************************)
Undisturbed(t) == \A s \in Threads \ {t} : "insert" \notin Load.ops[s]

inLeaf(K, l, k) == \E x \in Slots : K[l][x] = k

InsertServed(t) ==
  LET m == my[t]
  IN  /\ pc[t] \in {"cslock", "first", "collect", "choose", "look"} => next # SynonymMax - 1
      /\ pc[t] \in Splits \cup Storing \cup {"shiftkeys"} => m.ok = TRUE /\ m.key \notin present
      /\ pc[t] = "csunlock" => (m.ok = TRUE <=> m.key \notin present)

\* A search has left out the leaves from the back of the chain down to place p, and
\* the entry's own, and the slots below `at` of the leaf it is in.
SearchServed(t, n, c, K) ==
  LET m == my[t]
      size == Len(m.chain)
      scanning == pc[t] = "scan" \/ (pc[t] = "probe" /\ m.idx # 0)
  IN  /\ pc[t] \in {"first", "collect"} \/ scanning => ~ inLeaf(K, 0, m.key)
      /\ pc[t] = "collect" \/ scanning => \A q \in 1 .. size : m.chain[q] = c[q]
      /\ pc[t] = "collect" => size <= n - 1 /\ m.s = Succ(n, c, size)
      /\ scanning => size = n - 1 /\ \A q \in m.p + 1 .. n - 1 : ~ inLeaf(K, c[q], m.key)
      /\ pc[t] = "probe" => /\ m.cur = IF m.idx = 0 THEN 0 ELSE c[m.p]
                            /\ \A x \in Slots : x < m.at => K[m.cur][x] # m.key
      /\ pc[t] \in {"probe", "seeval"} => m.cur \in 0 .. Pool - 1 /\ m.at \in Slots
      /\ pc[t] = "seeval" => K[m.cur][m.at] = m.key
      /\ pc[t] = "found" => has(K, m.key) /\ m.at = m.key
      /\ pc[t] = "notfound" => ~ has(K, m.key)
      /\ pc[t] \notin {"crashed", "looping"}

Served(t) ==
  /\ my[t].there \in BOOLEAN /\ (my[t].there = TRUE <=> my[t].key \in present)
  /\ my[t].op = "insert" => InsertServed(t)
  /\ my[t].op = "search" => \E n, c, K, V : Rest(n, c, K, V) /\ SearchServed(t, n, c, K)

ServedInv == \A t \in Threads : Undisturbed(t) /\ my[t].op # "none" => Served(t)

\* What a step of t has to keep
Same == UNCHANGED <<table, syn, next, keys, vals, used, present>>

\* A thread that does not insert leaves the memory and the index alone.
LEMMA OthersKeep ==
  ASSUME OneEntryLoad, InsertInv, NEW t \in Threads, my[t].op # "insert",
         \/ \E op \in Load.ops[t], k \in Load.targets[t] : Begin(t, op, k)
         \/ Step(t)
  PROVE  Same
<1>1. my[t].op \in {"none", "search"} /\ pc[t] \in StepsOf(my[t].op)
  BY DEF InsertInv, LockInv, LocalTypes
<1>2. pc[t] \in {"idle", "route", "base", "scan", "probe", "seeval", "found", "notfound", "first",
                 "collect", "crashed", "looping"}
  BY <1>1 DEF StepsOf, Walk
<1>3. CASE \E op \in Load.ops[t], k \in Load.targets[t] : Begin(t, op, k)
  BY <1>3 DEF Begin, shared, Same
<1>4. CASE Route(t) \/ First(t) \/ Collect(t) \/ Base(t) \/ Scan(t) \/ Probe(t) \/ SeeVal(t)
  BY <1>4 DEF Route, First, Collect, Base, Scan, Probe, SeeVal, shared, Frame, Same
<1>5. CASE Answer(t)
  BY <1>5 DEF Answer, Return, shared, Same
<1>6. CASE \/ Test(t) \/ CsLock(t) \/ CsUnlock(t) \/ Choose(t) \/ Look(t) \/ Fetch(t)
           \/ Emplace(t) \/ Take(t) \/ Bump(t) \/ Link(t) \/ Fill(t) \/ Move(t)
  BY <1>2, <1>6 DEF Test, CsLock, CsUnlock, Choose, Look, Fetch, Emplace, Take, Bump, Link,
                    Fill, Move, At
<1>7. CASE ShiftKeys(t) \/ ShiftVals(t) \/ PutKey(t) \/ PutVal(t)
  BY <1>2, <1>7 DEF ShiftKeys, ShiftVals, PutKey, PutVal, At
<1> QED
  BY <1>3, <1>4, <1>5, <1>6, <1>7, NoOtherStep DEF Step

\* Nobody is in the section beside a search that nobody inserts beside.
LEMMA AloneRest ==
  ASSUME OneEntryLoad, InsertInv, CallsInv, NEW t \in Threads, Undisturbed(t),
         my[t].op # "insert"
  PROVE  \E n, c, K, V : Rest(n, c, K, V)
<1>1. ASSUME NEW u \in Threads PROVE ~ Inside(u) /\ pc[u] \in Outer
  <2>1. u # t => my[u].op # "insert"
    BY DEF CallsInv, Undisturbed
  <2>2. ~ Inside(u)
    BY <2>1 DEF Inside
  <2> QED
    BY <2>2, OuterLemma DEF InsertInv
<1>2. PICK n, c, K, V : Memory(n, c, K, V)
  BY DEF InsertInv
<1>3. Rest(n, c, K, V)
  BY <1>1, <1>2, RestLemma
<1> QED
  BY <1>3

\* What a leaf at rest says of a key
LEMMA LeafLemma ==
  ASSUME NEW n, NEW c, NEW K, NEW V, Rest(n, c, K, V), NEW l \in 0 .. Pool - 1, NEW k \in Keys
  PROVE  /\ inLeaf(K, l, k) => insertHere(l, k)
         /\ \A x \in Slots : K[l][x] = k => vals[l][x] = k
<1>1. /\ keys = K /\ vals = V /\ K \in KeyArrays /\ SortedKeys(K[l])
      /\ \A x \in Slots : K[l][x] # InvalidKey => V[l][x] = K[l][x]
  BY DEF Rest, Leaves
<1>2. K[l] \in [Slots -> 0 .. InvalidKey]
  BY <1>1 DEF KeyArrays
<1>3. inLeaf(K, l, k) => K[l][0] <= k
  BY <1>1, <1>2, RowOrder DEF inLeaf
<1>4. 0 \in Slots /\ K[l][0] \in Int /\ k \in Int /\ k # InvalidKey
  BY <1>2, ConcAssumption DEF Slots, Keys
<1>5. inLeaf(K, l, k) => insertHere(l, k)
  BY <1>1, <1>3, <1>4 DEF insertHere
<1> QED
  BY <1>1, <1>4, <1>5

\* A key that is in no leaf of the chain is in none.
LEMMA NowhereLemma ==
  ASSUME NEW n, NEW c, NEW K, NEW V, Rest(n, c, K, V), NEW k \in Keys,
         ~ inLeaf(K, 0, k), \A q \in 1 .. n - 1 : ~ inLeaf(K, c[q], k)
  PROVE  ~ has(K, k)
<1> SUFFICES ASSUME has(K, k) PROVE FALSE
  OBVIOUS
<1>1. PICK l \in 0 .. Pool - 1, x \in Slots : K[l][x] = k
  BY DEF has
<1>2. k # InvalidKey
  BY ConcAssumption DEF Keys
<1>3. n \in Nat /\ c[0] = 0 /\ \A s \in 0 .. n - 1 : \E p \in 0 .. n - 1 : c[p] = s
  BY DEF Rest, Order
<1>4. l \notin n .. Pool - 1
  BY <1>1, <1>2 DEF Rest, Leaves
<1>5. l \in 0 .. n - 1
  BY <1>1, <1>3, <1>4, StartAssumption
<1>6. PICK q \in 0 .. n - 1 : c[q] = l
  BY <1>3, <1>5
<1>7. inLeaf(K, c[q], k)
  BY <1>1, <1>6 DEF inLeaf
<1>8. q = 0 \/ q \in 1 .. n - 1
  BY <1>3
<1> QED
  BY <1>3, <1>7, <1>8

LEMMA RestSame ==
  ASSUME NEW n, NEW c, NEW K, NEW V, Rest(n, c, K, V), Same
  PROVE  Rest(n, c, K, V)'
<1>1. \A s : link(s)' = link(s)
  BY DEF link, Same
<1> QED
  BY <1>1 DEF Rest, Same

\* What every step of a call but the last keeps
LEMMA CallKeeps ==
  ASSUME OneEntryLoad, InsertInv, NEW t \in Threads, Step(t), my'[t].op # "none"
  PROVE  /\ my'[t].op = my[t].op /\ my'[t].key = my[t].key /\ my'[t].there = my[t].there
         /\ present' = present /\ my[t].op # "none" /\ pc[t] # "idle"
<1>1. /\ LockInv /\ DOMAIN pc = Threads /\ DOMAIN my = Threads /\ DOMAIN my[t] = Fields
      /\ pc[t] \in StepsOf(my[t].op) /\ my[t].op \in {"none", "insert", "search"}
  BY DEF InsertInv, LockInv, LocalTypes
<1>2. ASSUME NEW ok PROVE ~ Return(t, ok)
  BY <1>1 DEF Return, Idle
<1>3. ~ (CsUnlock(t) \/ ClearLock(t) \/ Answer(t))
  BY <1>2 DEF CsUnlock, ClearLock, Answer
<1>4. CASE Test(t)
  <2>1. pc[t] = "test" /\ UNCHANGED <<my, present>>
    BY <1>2, <1>4 DEF Test, Frame, At
  <2> QED
    BY <1>1, <2>1 DEF StepsOf
<1>5. CASE Route(t) \/ CsLock(t)
  <2>1. /\ pc[t] \in {"route", "cslock"} /\ present' = present
        /\ my'[t].op = my[t].op /\ my'[t].key = my[t].key /\ my'[t].there = my[t].there
    BY <1>1, <1>5 DEF Route, CsLock, Local, Frame, At, Fields
  <2> QED
    BY <1>1, <2>1 DEF StepsOf
<1>6. CASE \/ First(t) \/ Collect(t) \/ Choose(t) \/ Look(t)
           \/ Base(t) \/ Scan(t) \/ Probe(t) \/ SeeVal(t)
  <2>1. present' = present /\ my'[t].there = my[t].there
    BY <1>1, <1>6 DEF First, Collect, Choose, Look, Base, Scan, Probe, SeeVal, See, Missing,
                      Local, Frame, Fields
  <2>2. Goes(t) /\ my[t].op # "none"
    BY <1>1, <1>6, PlainGoes DEF Plain
  <2> QED
    BY <1>1, <1>6, <2>1, <2>2 DEF Goes, First, Collect, Choose, Look, Base, Scan, Probe,
                                        SeeVal, At
<1>7. CASE Fetch(t) \/ Emplace(t) \/ Take(t) \/ Bump(t) \/ Link(t) \/ Fill(t) \/ Move(t)
  <2>1. present' = present /\ my'[t].there = my[t].there
    BY <1>1, <1>7 DEF Fetch, Emplace, Take, Bump, Link, Fill, Move, Local, Frame, Fields
  <2>2. Goes(t) /\ my[t].op # "none"
    BY <1>1, <1>7, PlainGoes DEF Plain
  <2> QED
    BY <1>1, <1>7, <2>1, <2>2 DEF Goes, Fetch, Emplace, Take, Bump, Link, Fill, Move, At
<1>8. CASE ShiftKeys(t) \/ ShiftVals(t) \/ PutKey(t) \/ PutVal(t)
  <2>1. present' = present /\ my'[t].there = my[t].there
    BY <1>1, <1>8 DEF ShiftKeys, ShiftVals, PutKey, PutVal, Frame, Fields
  <2>2. Goes(t) /\ my[t].op # "none"
    BY <1>1, <1>8, PlainGoes DEF Plain
  <2> QED
    BY <1>1, <1>8, <2>1, <2>2 DEF Goes, ShiftKeys, ShiftVals, PutKey, PutVal, At
<1> QED
  BY <1>3, <1>4, <1>5, <1>6, <1>7, <1>8, NoOtherStep DEF Step

\* A call that begins beside no insert
LEMMA BeginServed ==
  ASSUME OneEntryLoad, InsertInv, CallsInv, NEW t \in Threads, Undisturbed(t),
         NEW op \in Load.ops[t], NEW k \in Load.targets[t], Begin(t, op, k)
  PROVE  Served(t)'
<1>1. DOMAIN pc = Threads /\ DOMAIN my = Threads /\ pc[t] \in StepsOf(my[t].op)
  BY DEF InsertInv, LockInv
<1>2. /\ pc[t] = "idle" /\ pc'[t] = "route" /\ Same
      /\ my'[t] = [Idle EXCEPT !.op = op, !.key = k, !.i = Load.hi[k], !.there = k \in present]
  BY <1>1 DEF Begin, Goto, At, shared, Same
<1>3. my'[t].there = (k \in present) /\ my'[t].key = k
  BY <1>2, Zenon DEF Idle
<1>4. my'[t].there \in BOOLEAN /\ (my'[t].there = TRUE <=> k \in present)
  <2>1. CASE k \in present
    <3>1. my'[t].there = TRUE
      BY <1>3, <2>1
    <3> QED
      BY <2>1, <3>1
  <2>2. CASE k \notin present
    <3>1. (k \in present) = FALSE
      BY <2>2
    <3>2. my'[t].there = FALSE
      BY <1>3, <3>1, Zenon
    <3> QED
      BY <2>2, <3>2
  <2> QED
    BY <2>1, <2>2
<1>5. my[t].op # "insert"
  BY <1>1, <1>2 DEF StepsOf, Section
<1>6. PICK n, c, K, V : Rest(n, c, K, V)
  BY <1>5, AloneRest
<1>7. Rest(n, c, K, V)'
  BY <1>2, <1>6, RestSame
<1>8. SearchServed(t, n, c, K)'
  BY <1>2 DEF SearchServed
<1>9. InsertServed(t)'
  BY <1>2 DEF InsertServed, Splits, Storing, Drawn
<1> QED
  BY <1>2, <1>3, <1>4, <1>7, <1>8, <1>9 DEF Served, Same

\* A search goes on from a leaf that the key is not in.
LEMMA MissingServes ==
  ASSUME NEW t \in Threads, DOMAIN pc = Threads, DOMAIN my = Threads, DOMAIN my[t] = Fields,
         NEW s, Missing(t, s), NEW n \in Nat, NEW c, NEW K, ~ inLeaf(K, 0, my[t].key),
         s # 0 => /\ Len(my[t].chain) = n - 1 /\ my[t].p \in 1 .. n - 1
                  /\ \A q \in 1 .. Len(my[t].chain) : my[t].chain[q] = c[q]
                  /\ \A q \in my[t].p .. n - 1 : ~ inLeaf(K, c[q], my[t].key)
  PROVE  SearchServed(t, n, c, K)'
<1>1. CASE s = 0
  <2>1. pc'[t] = "first" /\ my' = my
    BY <1>1 DEF Missing, Goto
  <2> QED
    BY <2>1 DEF SearchServed
<1>2. CASE s # 0
  <2>1. /\ pc'[t] = "scan" /\ my'[t].p = my[t].p - 1 /\ my'[t].chain = my[t].chain
        /\ my'[t].key = my[t].key
    BY <1>2 DEF Missing, Goto, Local, Fields
  <2>2. my'[t].p + 1 = my[t].p
    BY <1>2, <2>1
  <2> QED
    BY <1>2, <2>1, <2>2 DEF SearchServed
<1> QED
  BY <1>1, <1>2

LEMMA SearchServes ==
  ASSUME OneEntryLoad, InsertInv, CallsInv, NEW t \in Threads, my[t].op = "search",
         Step(t), my'[t].op # "none", NEW n, NEW c, NEW K, NEW V,
         Rest(n, c, K, V), SearchServed(t, n, c, K)
  PROVE  SearchServed(t, n, c, K)'
<1>1. /\ LockInv /\ LocalTypes(t) /\ SharedTypes
      /\ DOMAIN pc = Threads /\ DOMAIN my = Threads /\ DOMAIN my[t] = Fields
      /\ pc[t] \in StepsOf("search") /\ my[t].chain \in Seq(Indexes) /\ my[t].p \in 0 .. Len(my[t].chain)
  BY DEF InsertInv, LockInv, LocalTypes
<1>2. /\ my'[t].op = "search" /\ my'[t].key = my[t].key
      /\ my[t].i = 0 /\ my[t].key \in Keys
  BY <1>1, CallKeeps, EntryZero
<1>3. pc[t] \in {"route", "base", "scan", "probe", "seeval", "found", "notfound", "first",
                 "collect"}
  BY <1>1 DEF StepsOf, Walk, SearchServed
<1>4. /\ n \in Nat /\ 0 < n /\ n < SynonymMax /\ n <= Pool /\ SynonymMax \in Nat /\ Pool \in Nat
      /\ Order(n, c) /\ c \in [0 .. n - 1 -> 0 .. n - 1] /\ c[0] = 0
      /\ \A q, r \in 0 .. n - 1 : c[q] = c[r] => q = r
      /\ \A q \in 0 .. n - 1 : link(c[q]) = Succ(n, c, q)
      /\ \A s \in 1 .. n - 1 : syn[s].leaf_num = s
      /\ used = n
  BY StartAssumption, ConcAssumption DEF Rest, Order
<1> DEFINE m == my[t]
           size == Len(m.chain)
<1>5. size \in Nat
  BY <1>1
<1>6. N - 1 \in Slots /\ 0 \in Slots /\ \A x \in Slots : ~ x < 0
  BY ConcAssumption DEF Slots
<1>7. CASE Route(t)
  <2>1. pc'[t] \in {"route", "test", "base", "seelock"}
    BY <1>1, <1>7 DEF Route, Goto, At
  <2> QED
    BY <2>1 DEF SearchServed
<1>8. CASE Base(t)
  <2>1. table[0].leaf_num = 0 /\ 0 \in 0 .. Pool - 1 /\ See(t, 0, 0)
    BY <1>1, <1>2, <1>4, <1>8 DEF SharedTypes, Base
  <2>2. CASE insertHere(0, m.key)
    <3>1. pc'[t] = "probe" /\ my'[t].cur = 0 /\ my'[t].idx = 0 /\ my'[t].at = 0
      BY <1>1, <2>1, <2>2 DEF See, Goto, Fields
    <3> QED
      BY <2>1, <3>1, <1>6 DEF SearchServed
  <2>3. CASE ~ insertHere(0, m.key)
    <3>1. Missing(t, 0) /\ ~ inLeaf(K, 0, m.key)
      BY <1>2, <2>1, <2>3, LeafLemma DEF See
    <3> QED
      BY <1>1, <1>4, <3>1, MissingServes
  <2> QED
    BY <2>2, <2>3
<1>9. CASE First(t)
  <2>1. /\ pc[t] = "first" /\ pc'[t] = "collect" /\ my'[t].s = link(0) /\ my'[t].chain = m.chain
    BY <1>1, <1>2, <1>9 DEF First, Goto, Local, At, Fields, link
  <2>2. m.chain = <<>>
    BY <1>1, <2>1 DEF LocalTypes
  <2>3. link(0) = Succ(n, c, 0) /\ 0 <= n - 1
    BY <1>4
  <2>4. ~ inLeaf(K, 0, m.key)
    BY <2>1 DEF SearchServed
  <2> QED
    BY <1>2, <2>1, <2>2, <2>3, <2>4 DEF SearchServed
<1>10. CASE Collect(t)
  <2>1. /\ pc[t] = "collect" /\ ~ inLeaf(K, 0, m.key) /\ \A q \in 1 .. size : m.chain[q] = c[q]
        /\ size <= n - 1 /\ m.s = Succ(n, c, size)
    BY <1>10 DEF Collect, At, SearchServed
  <2>2. size \in 0 .. n - 1 /\ size # SynonymMax
    BY <1>4, <1>5, <2>1
  <2>3. /\ m.s = 0 <=> size = n - 1
        /\ size < n - 1 => size + 1 \in 0 .. n - 1 /\ m.s = c[size + 1]
        /\ m.s \in 0 .. n - 1
    <3>1. /\ Succ(n, c, size) = 0 <=> size = n - 1
          /\ size < n - 1 => size + 1 \in 0 .. n - 1 /\ Succ(n, c, size) = c[size + 1]
          /\ Succ(n, c, size) \in 0 .. n - 1
      <4> HIDE DEF size
      <4> QED
        BY <1>4, <2>2, SuccLemma
    <3> QED
      BY <2>1, <3>1
  <2>4. CASE m.s = 0
    <3>1. my'[t].p = size /\ my'[t].chain = m.chain /\ pc'[t] = "scan"
      BY <1>1, <1>10, <2>4 DEF Collect, Goto, Fields
    <3>2. size = n - 1 /\ \A q \in my'[t].p + 1 .. n - 1 : ~ inLeaf(K, c[q], m.key)
      BY <1>4, <2>3, <2>4, <3>1
    <3> QED
      BY <1>2, <2>1, <3>1, <3>2 DEF SearchServed
  <2>5. CASE m.s # 0
    <3>1. m.s \in Indexes
      <4> DEFINE s == m.s
      <4>1. s \in 0 .. n - 1 /\ s # 0
        BY <2>3, <2>5
      <4> HIDE DEF s
      <4>2. s \in Indexes
        BY <1>4, <4>1 DEF Indexes
      <4> QED
        BY <4>2 DEF s
    <3>2. /\ my' = [my EXCEPT ![t].chain = Append(@, my[t].s), ![t].s = syn[my[t].s].synonym_leaf]
          /\ pc' = pc
      BY <1>10, <2>2, <2>5, <3>1 DEF Collect
    <3>3. my'[t].chain = Append(m.chain, m.s) /\ my'[t].s = syn[m.s].synonym_leaf
      BY <1>1, <3>2 DEF Fields
    <3>4. size + 1 \in 0 .. n - 1 /\ m.s = c[size + 1] /\ size + 1 <= n - 1
      <4>1. size # n - 1
        BY <2>3, <2>5
      <4>2. size < n - 1 /\ size + 1 <= n - 1
        <5> HIDE DEF size
        <5> QED
          BY <1>4, <2>2, <4>1
      <4> QED
        BY <2>3, <4>2
    <3>5. Len(my'[t].chain) = size + 1 /\ \A q \in 1 .. size + 1 : my'[t].chain[q] = c[q]
      <4>1. /\ Len(my'[t].chain) = size + 1 /\ my'[t].chain[size + 1] = m.s
            /\ \A q \in 1 .. size : my'[t].chain[q] = m.chain[q]
        BY <1>1, <3>1, <3>3
      <4> SUFFICES ASSUME NEW q \in 1 .. size + 1 PROVE my'[t].chain[q] = c[q]
        BY <4>1
      <4>2. q \in 1 .. size \/ q = size + 1
        BY <1>5
      <4> QED
        BY <2>1, <3>4, <4>1, <4>2
    <3>6. my'[t].s = Succ(n, c, size + 1)
      <4>1. link(m.s) = Succ(n, c, size + 1)
        BY <1>4, <3>4
      <4> QED
        BY <2>5, <3>3, <4>1 DEF link
    <3> QED
      BY <1>2, <2>1, <3>2, <3>4, <3>5, <3>6 DEF SearchServed
  <2> QED
    BY <2>4, <2>5
<1>11. CASE Scan(t)
  <2>1. /\ pc[t] = "scan" /\ ~ inLeaf(K, 0, m.key) /\ size = n - 1
        /\ \A q \in 1 .. size : m.chain[q] = c[q]
        /\ \A q \in m.p + 1 .. n - 1 : ~ inLeaf(K, c[q], m.key)
    BY <1>11 DEF Scan, At, SearchServed
  <2>2. CASE m.p = 0
    <3>1. pc'[t] = "notfound"
      BY <1>1, <1>11, <2>2 DEF Scan, Goto
    <3>2. \A q \in 1 .. n - 1 : ~ inLeaf(K, c[q], m.key)
      BY <2>1, <2>2
    <3>3. ~ has(K, m.key)
      BY <1>2, <2>1, <3>2, NowhereLemma
    <3> QED
      BY <1>2, <3>1, <3>3 DEF SearchServed
  <2>3. CASE m.p # 0
    <3> DEFINE p == m.p
               l == c[p]
    <3>1. p \in 1 .. n - 1 /\ p \in 0 .. n - 1 /\ 0 \in 0 .. n - 1
      BY <1>1, <1>4, <2>1, <2>3
    <3>2. l \in 1 .. n - 1 /\ l # 0
      <4>1. l # 0 /\ l \in 0 .. n - 1
        BY <1>4, <2>3, <3>1
      <4> HIDE DEF l
      <4> QED
        BY <1>4, <4>1
    <3>3. LeafAt(t) = l
      BY <1>4, <2>1, <2>3, <3>1, <3>2 DEF LeafAt
    <3>4. l \in 0 .. Pool - 1 /\ ~ Absent(l)
      <4> HIDE DEF l
      <4> QED
        BY <1>4, <3>2 DEF Absent
    <3>5. See(t, l, m.chain[p]) /\ m.chain[p] # 0
      BY <1>11, <2>1, <2>3, <3>1, <3>2, <3>3, <3>4 DEF Scan
    <3>6. CASE insertHere(l, m.key)
      <4>1. /\ pc'[t] = "probe" /\ my'[t].cur = l /\ my'[t].idx = m.chain[p] /\ my'[t].at = 0
            /\ my'[t].p = p /\ my'[t].chain = m.chain
        BY <1>1, <3>5, <3>6 DEF See, Goto, Fields
      <4> QED
        BY <1>2, <2>1, <3>4, <3>5, <4>1, <1>6 DEF SearchServed
    <3>7. CASE ~ insertHere(l, m.key)
      <4>1. Missing(t, m.chain[p]) /\ ~ inLeaf(K, l, m.key)
        BY <1>2, <3>4, <3>5, <3>7, LeafLemma DEF See
      <4>2. ASSUME NEW q \in p .. n - 1 PROVE ~ inLeaf(K, c[q], m.key)
        <5>1. q = p \/ q \in p + 1 .. n - 1
          BY <1>4, <3>1
        <5> QED
          BY <2>1, <4>1, <5>1
      <4> QED
        BY <1>1, <1>4, <2>1, <3>1, <3>5, <4>1, <4>2, MissingServes
    <3> QED
      BY <3>6, <3>7
  <2> QED
    BY <2>2, <2>3
<1>12. CASE Probe(t)
  <2>1. /\ pc[t] = "probe" /\ keys = K /\ m.cur \in 0 .. Pool - 1 /\ m.at \in Slots
        /\ \A x \in Slots : x < m.at => K[m.cur][x] # m.key
        /\ m.cur = IF m.idx = 0 THEN 0 ELSE c[m.p]
        /\ m.idx # 0 => /\ ~ inLeaf(K, 0, m.key) /\ size = n - 1
                        /\ \A q \in 1 .. size : m.chain[q] = c[q]
                        /\ \A q \in m.p + 1 .. n - 1 : ~ inLeaf(K, c[q], m.key)
                        /\ m.p \in 0 .. size /\ m.p > 0
    BY <1>1, <1>12 DEF Probe, At, SearchServed, Rest, LocalTypes
  <2>2. CASE keys[m.cur][m.at] = m.key
    <3>1. pc'[t] = "seeval" /\ my' = my
      BY <1>1, <1>12, <2>2 DEF Probe, Goto
    <3> QED
      BY <2>1, <2>2, <3>1 DEF SearchServed
  <2>3. CASE keys[m.cur][m.at] # m.key /\ m.at < N - 1
    <3>1. /\ pc'[t] = "probe" /\ my'[t].at = m.at + 1 /\ my'[t].cur = m.cur /\ my'[t].idx = m.idx
          /\ my'[t].p = m.p /\ my'[t].chain = m.chain
      BY <1>1, <1>12, <2>1, <2>3 DEF Probe, Local, Fields
    <3>2. m.at + 1 \in Slots /\ \A x \in Slots : x < m.at + 1 => K[m.cur][x] # m.key
      BY <2>1, <2>3, ConcAssumption DEF Slots
    <3> QED
      BY <1>2, <2>1, <3>1, <3>2 DEF SearchServed
  <2>4. CASE keys[m.cur][m.at] # m.key /\ ~ m.at < N - 1
    <3>1. Missing(t, m.idx)
      BY <1>12, <2>4 DEF Probe
    <3>2. ~ inLeaf(K, m.cur, m.key)
      BY <2>1, <2>4, ConcAssumption DEF inLeaf, Slots
    <3>3. ~ inLeaf(K, 0, m.key)
      BY <2>1, <3>2
    <3>4. ASSUME m.idx # 0
          PROVE  m.p \in 1 .. n - 1 /\ \A q \in m.p .. n - 1 : ~ inLeaf(K, c[q], m.key)
      <4>1. m.p \in 1 .. n - 1
        BY <1>4, <1>5, <2>1, <3>4
      <4>2. ASSUME NEW q \in m.p .. n - 1 PROVE ~ inLeaf(K, c[q], m.key)
        <5>1. q = m.p \/ q \in m.p + 1 .. n - 1
          BY <1>4, <4>1
        <5> QED
          BY <2>1, <3>2, <3>4, <5>1
      <4> QED
        BY <4>1, <4>2
    <3> QED
      BY <1>1, <1>4, <2>1, <3>1, <3>3, <3>4, MissingServes
  <2> QED
    BY <2>2, <2>3, <2>4
<1>13. CASE SeeVal(t)
  <2>1. /\ pc[t] = "seeval" /\ m.cur \in 0 .. Pool - 1 /\ m.at \in Slots
        /\ K[m.cur][m.at] = m.key
    BY <1>13 DEF SeeVal, At, SearchServed
  <2>2. vals[m.cur][m.at] = m.key
    BY <1>2, <2>1, LeafLemma
  <2>3. pc'[t] = "found" /\ my'[t].at = m.key
    BY <1>1, <1>13, <2>2 DEF SeeVal, Goto, Local, Fields
  <2>4. has(K, m.key)
    BY <2>1 DEF has
  <2> QED
    BY <1>2, <2>3, <2>4 DEF SearchServed
<1>14. ~ Answer(t)
  BY <1>1, <1>2 DEF Answer, Return, Idle
<1>15. ~ (\/ Test(t) \/ CsLock(t) \/ CsUnlock(t) \/ Choose(t) \/ Look(t) \/ Fetch(t)
          \/ Emplace(t) \/ Take(t) \/ Bump(t) \/ Link(t) \/ Fill(t) \/ Move(t))
  BY <1>3 DEF Test, CsLock, CsUnlock, Choose, Look, Fetch, Emplace, Take, Bump, Link, Fill,
              Move, At
<1>16. ~ (ShiftKeys(t) \/ ShiftVals(t) \/ PutKey(t) \/ PutVal(t))
  BY <1>3 DEF ShiftKeys, ShiftVals, PutKey, PutVal, At
<1> QED
  BY <1>7, <1>8, <1>9, <1>10, <1>11, <1>14, <1>15, <1>16, <1>12, <1>13, NoOtherStep DEF Step


LEMMA InsertServes ==
  ASSUME OneEntryLoad, InsertInv, NEW t \in Threads, my[t].op = "insert",
         Step(t), my'[t].op # "none", InsertServed(t)
  PROVE  InsertServed(t)'
<1>1. /\ LockInv /\ LocalTypes(t)
      /\ DOMAIN pc = Threads /\ DOMAIN my = Threads /\ DOMAIN my[t] = Fields
      /\ pc[t] \in StepsOf("insert")
  BY DEF InsertInv, LockInv
<1>2. /\ my'[t].op = "insert" /\ my'[t].key = my[t].key /\ present' = present
      /\ my[t].key \in Keys
  BY <1>1, CallKeeps, EntryZero
<1> DEFINE early == {"cslock", "first", "collect", "choose", "look"}
           late == Splits \cup Storing \cup {"shiftkeys"}
<1>3. /\ "csunlock" \notin late /\ "csunlock" \notin early
      /\ \A p \in early : p \notin late
      /\ \A p \in {"route", "test", "base", "seelock", "crashed", "looping"} :
           p \notin early /\ p \notin late /\ p # "csunlock"
  BY DEF Splits, Drawn, Storing
<1>4. CASE Route(t)
  <2>1. pc'[t] \in {"route", "test", "base", "seelock"}
    BY <1>1, <1>4 DEF Route, Goto, At
  <2> QED
    BY <1>3, <2>1 DEF InsertServed
<1>5. CASE Test(t)
  <2>1. ~ Return(t, FALSE)
    BY <1>1, <1>2 DEF Return, Idle
  <2>2. next # SynonymMax - 1 /\ next' = next /\ pc'[t] = "cslock"
    BY <1>1, <1>5, <2>1 DEF Test, Goto, shared
  <2> QED
    BY <1>3, <2>2 DEF InsertServed
<1>6. CASE CsLock(t) \/ First(t) \/ Collect(t) \/ Choose(t)
  <2>1. pc[t] \in early /\ next' = next
    BY <1>6 DEF CsLock, First, Collect, Choose, At, shared
  <2>2. pc'[t] \in early \cup {"crashed", "looping"}
    <3>1. CASE CsLock(t) \/ First(t)
      BY <1>1, <3>1 DEF CsLock, First, Goto
    <3>2. CASE Collect(t)
      BY <1>1, <1>2, <2>1, <3>2, my[t].op = "insert" DEF Collect, Goto
    <3>3. CASE Choose(t)
      BY <1>1, <1>2, <2>1, <3>3, my[t].op = "insert" DEF Choose, Goto
    <3> QED
      BY <1>6, <3>1, <3>2, <3>3
  <2> QED
    BY <1>3, <2>1, <2>2 DEF InsertServed
<1>7. CASE Look(t)
  <2> DEFINE m == my[t]
             full == keys[m.cur][N - 1] # InvalidKey
             refused == contain(m.cur, m.key) \/ (full /\ next = SynonymMax - 1)
  <2>1. pc[t] = "look" /\ next # SynonymMax - 1 /\ m.cur \in 0 .. Pool - 1
    BY <1>1, <1>7 DEF Look, At, InsertServed, LocalTypes
  <2>2. /\ my'[t].ok = ~ refused
        /\ pc'[t] = IF refused THEN "csunlock" ELSE IF full THEN "fetch" ELSE "shiftkeys"
    BY <1>1, <1>7 DEF Look, Local, Goto, Fields
  <2>3. Inside(t)
    BY <2>1, InsertPc
  <2>4. PICK n, c, K, V : Seen(t, n, c, K, V)
    BY <2>3, Enter
  <2>5. /\ keys = K /\ Order(n, c) /\ Leaves(n, c, K, V) /\ Chosen(n, c, K, m.p, m.key)
        /\ m.cur = c[m.p]
    BY <2>1, <2>4 DEF Seen, ShowsTo, Drawn, Storing, InsertAt, Walks
  <2>6. has(K, m.key) <=> m.key \in present
    BY <1>2, <2>1, <2>4 DEF Seen, HoldsFor, Added, Storing
  <2>7. contain(m.cur, m.key) => m.key \in present
    <3>1. contain(m.cur, m.key) => has(K, m.key)
      BY <2>1, <2>5 DEF contain, found, has
    <3> QED
      BY <2>6, <3>1
  <2>8. m.key \in present => contain(m.cur, m.key)
    <3>1. has(K, m.key) => K[c[m.p]][0] <= m.key /\ \E x \in Slots : K[c[m.p]][x] = m.key
      BY <1>2, <2>5, AbsentLemma
    <3>2. has(K, m.key) => contain(m.cur, m.key)
      BY <2>5, <3>1 DEF contain, found
    <3> QED
      BY <2>6, <3>2
  <2>9. refused <=> m.key \in present
    BY <2>1, <2>7, <2>8
  <2>10. refused \in BOOLEAN
    BY DEF contain
  <2> HIDE DEF refused, full
  <2>11. CASE refused
    <3>1. pc'[t] = "csunlock" /\ my'[t].ok # TRUE
      BY <2>2, <2>10, <2>11
    <3> QED
      BY <1>2, <1>3, <2>9, <2>11, <3>1 DEF InsertServed
  <2>12. CASE ~ refused
    <3>1. pc'[t] \in {"fetch", "shiftkeys"} /\ my'[t].ok = TRUE
      BY <2>2, <2>10, <2>12
    <3>2. m.key \notin present /\ pc'[t] \notin early /\ pc'[t] # "csunlock"
      BY <2>9, <2>12, <3>1
    <3> QED
      BY <1>2, <3>1, <3>2 DEF InsertServed
  <2> QED
    BY <2>11, <2>12
<1>8. CASE \/ Fetch(t) \/ Emplace(t) \/ Take(t) \/ Bump(t) \/ Link(t) \/ Fill(t) \/ Move(t)
           \/ ShiftKeys(t) \/ ShiftVals(t) \/ PutKey(t) \/ PutVal(t)
  <2>1. pc[t] \in late
    BY <1>8 DEF Fetch, Emplace, Take, Bump, Link, Fill, Move, ShiftKeys, ShiftVals, PutKey,
                PutVal, At, Splits, Drawn, Storing
  <2>2. my[t].ok = TRUE /\ my[t].key \notin present
    BY <2>1 DEF InsertServed
  <2>3. my'[t].ok = my[t].ok
    <3>1. CASE Fetch(t) \/ Emplace(t) \/ Take(t) \/ Bump(t) \/ Link(t) \/ Fill(t) \/ Move(t)
      BY <1>1, <3>1 DEF Fetch, Emplace, Take, Bump, Link, Fill, Move, Local, Fields
    <3>2. CASE ShiftKeys(t) \/ ShiftVals(t) \/ PutKey(t) \/ PutVal(t)
      BY <1>1, <3>2 DEF ShiftKeys, ShiftVals, PutKey, PutVal, Fields
    <3> QED
      BY <1>8, <3>1, <3>2
  <2>4. pc'[t] \notin early
    <3>1. CASE Fetch(t) \/ Emplace(t) \/ Take(t) \/ Bump(t) \/ Link(t) \/ Fill(t) \/ Move(t)
      BY <1>1, <3>1 DEF Fetch, Emplace, Take, Bump, Link, Fill, Move, Goto
    <3>2. CASE ShiftKeys(t) \/ ShiftVals(t) \/ PutKey(t) \/ PutVal(t)
      BY <1>1, <1>2, <3>2 DEF ShiftKeys, ShiftVals, PutKey, PutVal, Goto
    <3> QED
      BY <1>8, <3>1, <3>2
  <2> QED
    BY <1>2, <2>2, <2>3, <2>4 DEF InsertServed
<1>9. ~ (CsUnlock(t) \/ Answer(t))
  BY <1>1, <1>2 DEF CsUnlock, Answer, Return, Idle
<1>10. ~ (Base(t) \/ Scan(t) \/ Probe(t) \/ SeeVal(t))
  BY <1>1 DEF Base, Scan, Probe, SeeVal, At, StepsOf, Section
<1> QED
  BY <1>4, <1>5, <1>6, <1>7, <1>8, <1>9, <1>10, NoOtherStep DEF Step

LEMMA ServedStep ==
  ASSUME OneEntryLoad, InsertInv, CallsInv, ServedInv, [Next]_vars
  PROVE  ServedInv'
<1> SUFFICES ASSUME NEW t \in Threads, Undisturbed(t)', my'[t].op # "none"
             PROVE  Served(t)'
  BY DEF ServedInv
<1>1. CASE UNCHANGED vars
  <2>1. Same /\ UNCHANGED <<load, pc, my>>
    BY <1>1 DEF vars, shared, Same
  <2>2. Undisturbed(t) /\ my[t].op # "none"
    BY <2>1 DEF Undisturbed, Load
  <2>3. Served(t)
    BY <2>2 DEF ServedInv
  <2>4. InsertServed(t) => InsertServed(t)'
    BY <2>1 DEF InsertServed, Same
  <2>5. ASSUME NEW n, NEW c, NEW K, NEW V, Rest(n, c, K, V) /\ SearchServed(t, n, c, K)
        PROVE  Rest(n, c, K, V)' /\ SearchServed(t, n, c, K)'
    BY <2>1, <2>5, RestSame DEF SearchServed
  <2> QED
    BY <2>1, <2>3, <2>4, <2>5 DEF Served, Same
<1>2. CASE Next
  <2>1. PICK u \in Threads : \/ \E op \in Load.ops[u], k \in Load.targets[u] : Begin(u, op, k)
                             \/ Step(u)
    BY <1>2 DEF Next
  <2>2. Keeps(u) /\ load' = load
    BY <2>1, StepKeeps DEF InsertInv
  <2>3. Undisturbed(t)
    BY <2>2 DEF Undisturbed, Load
  <2>4. CASE u # t
    <3>1. my'[t] = my[t] /\ pc'[t] = pc[t] /\ my[t].op # "none"
      BY <2>2, <2>4 DEF Keeps
    <3>2. Served(t)
      BY <2>3, <3>1 DEF ServedInv
    <3>3. my[u].op # "insert"
      BY <2>3, <2>4 DEF CallsInv, Undisturbed
    <3>4. Same
      BY <2>1, <3>3, OthersKeep
    <3>5. InsertServed(t) => InsertServed(t)'
      BY <3>1, <3>4 DEF InsertServed, Same
    <3>6. ASSUME NEW n, NEW c, NEW K, NEW V, Rest(n, c, K, V) /\ SearchServed(t, n, c, K)
          PROVE  Rest(n, c, K, V)' /\ SearchServed(t, n, c, K)'
      BY <3>1, <3>4, <3>6, RestSame DEF SearchServed
    <3> QED
      BY <3>1, <3>2, <3>4, <3>5, <3>6 DEF Served, Same
  <2>5. CASE u = t /\ \E op \in Load.ops[t], k \in Load.targets[t] : Begin(t, op, k)
    BY <2>3, <2>5, BeginServed
  <2>6. CASE u = t /\ Step(t)
    <3>1. /\ my'[t].op = my[t].op /\ my'[t].key = my[t].key /\ my'[t].there = my[t].there
          /\ present' = present /\ my[t].op # "none"
      BY <2>6, CallKeeps
    <3>2. Served(t)
      BY <2>3, <3>1 DEF ServedInv
    <3>3. my[t].op = "insert" => InsertServed(t)'
      BY <2>6, <3>2, InsertServes DEF Served
    <3>4. ASSUME my[t].op = "search"
          PROVE  \E n, c, K, V : Rest(n, c, K, V)' /\ SearchServed(t, n, c, K)'
      <4>1. PICK n, c, K, V : Rest(n, c, K, V) /\ SearchServed(t, n, c, K)
        BY <3>2, <3>4 DEF Served
      <4>2. Same
        BY <2>6, <3>4, OthersKeep
      <4>3. Rest(n, c, K, V)' /\ SearchServed(t, n, c, K)'
        BY <2>6, <3>4, <4>1, <4>2, RestSame, SearchServes
      <4> QED
        BY <4>3
    <3> QED
      BY <3>1, <3>2, <3>3, <3>4 DEF Served
  <2> QED
    BY <2>1, <2>4, <2>5, <2>6
<1> QED
  BY <1>1, <1>2


\* Loads in which nobody inserts beside a thread that searches
SearchesApart ==
  OneEntryLoad /\ \A t \in Threads : "search" \in Load.ops[t] => Undisturbed(t)

\* A thread in a search is one that nobody inserts beside.
LEMMA ApartServed ==
  ASSUME SearchesApart, CallsInv, ServedInv, NEW t \in Threads, my[t].op = "search"
  PROVE  Served(t)
BY DEF SearchesApart, CallsInv, ServedInv

LEMMA AnswersLemma ==
  ASSUME OneEntryLoad, InsertInv, ServedInv
  PROVE  AloneAnswers
<1> SUFFICES ASSUME NEW t \in Threads, Alone(t)
             PROVE  /\ pc[t] = "csunlock" => my[t].ok = ~ my[t].there
                    /\ pc[t] = "clearlock" => my[t].ok = my[t].there
                    /\ pc[t] = "found" => my[t].there /\ my[t].at = my[t].key
  BY DEF AloneAnswers
<1>1. /\ pc[t] \in StepsOf(my[t].op) /\ my[t].op \in {"none", "insert", "search"}
      /\ my[t].ok \in BOOLEAN
  BY DEF InsertInv, LockInv, LocalTypes
<1>2. Undisturbed(t)
  BY DEF Alone, Undisturbed
<1>3. CASE pc[t] = "csunlock"
  <2>1. my[t].op = "insert"
    BY <1>1, <1>3 DEF StepsOf, Walk
  <2>2. Served(t) /\ InsertServed(t)
    BY <1>2, <2>1 DEF ServedInv, Served
  <2>3. /\ my[t].there \in BOOLEAN /\ (my[t].there = TRUE <=> my[t].key \in present)
        /\ (my[t].ok = TRUE <=> my[t].key \notin present)
    BY <1>3, <2>2 DEF Served, InsertServed
  <2> QED
    BY <1>1, <1>3, <2>3
<1>4. CASE pc[t] = "clearlock"
  BY <1>1, <1>4 DEF StepsOf, Section, Walk
<1>5. CASE pc[t] = "found"
  <2>1. my[t].op = "search"
    BY <1>1, <1>5 DEF StepsOf, Section
  <2>2. Served(t)
    BY <1>2, <2>1 DEF ServedInv
  <2>3. PICK n, c, K, V : Rest(n, c, K, V) /\ SearchServed(t, n, c, K)
    BY <2>1, <2>2 DEF Served
  <2>4. has(K, my[t].key) /\ my[t].at = my[t].key
    BY <1>5, <2>3 DEF SearchServed
  <2>5. my[t].key \in Keys
    BY <2>1, EntryZero DEF InsertInv
  <2>6. my[t].key \in present
    BY <2>3, <2>4, <2>5 DEF Rest
  <2> QED
    BY <1>5, <2>2, <2>4, <2>6 DEF Served
<1> QED
  BY <1>3, <1>4, <1>5

LEMMA SearchesLemma ==
  ASSUME SearchesApart, InsertInv, CallsInv, ServedInv
  PROVE  SearchFindsStable
<1> SUFFICES ASSUME NEW t \in Threads, pc[t] \in {"found", "notfound"},
                    my[t].there, my[t].key \in present
             PROVE  pc[t] # "notfound" /\ (pc[t] = "found" => my[t].at = my[t].key)
  BY DEF SearchFindsStable
<1>1. pc[t] \in StepsOf(my[t].op) /\ my[t].op \in {"none", "insert", "search"}
  BY DEF InsertInv, LockInv, LocalTypes
<1>2. my[t].op = "search"
  BY <1>1 DEF StepsOf, Section, Walk
<1>3. PICK n, c, K, V : Rest(n, c, K, V) /\ SearchServed(t, n, c, K)
  BY <1>2, ApartServed DEF Served
<1>4. /\ pc[t] = "found" => my[t].at = my[t].key
      /\ pc[t] = "notfound" => ~ has(K, my[t].key)
  BY <1>3 DEF SearchServed
<1>5. has(K, my[t].key)
  <2>1. my[t].key \in Keys
    BY <1>2, EntryZero DEF InsertInv, SearchesApart
  <2> QED
    BY <1>3, <2>1 DEF Rest
<1> QED
  BY <1>4, <1>5

LEMMA WalksLemma ==
  ASSUME SearchesApart, InsertInv, CallsInv, ServedInv, Pool >= SynonymMax - 1
  PROVE  NoWildWalk
<1> SUFFICES ASSUME NEW t \in Threads, pc[t] \in {"crashed", "looping"} PROVE FALSE
  BY DEF NoWildWalk
<1>1. pc[t] \in StepsOf(my[t].op) /\ my[t].op \in {"none", "insert", "search"}
  BY DEF InsertInv, LockInv, LocalTypes
<1>2. CASE my[t].op = "insert"
  <2>1. Inside(t)
    BY <1>2 DEF Inside, Section
  <2>2. PICK n, c, K, V : Seen(t, n, c, K, V)
    BY <2>1, Enter DEF SearchesApart
  <2>3. pc[t] # "looping" /\ (pc[t] = "crashed" => n = Pool /\ n < SynonymMax - 1)
    BY <2>2 DEF Seen, InsertAt, Walks
  <2> QED
    BY <2>3, StartAssumption, ConcAssumption
<1>3. CASE my[t].op = "search"
  <2>1. PICK n, c, K, V : SearchServed(t, n, c, K)
    BY <1>3, ApartServed DEF Served
  <2> QED
    BY <2>1 DEF SearchServed
<1> QED
  BY <1>1, <1>2, <1>3 DEF StepsOf

AnswerInv == OneEntryInv /\ CallsInv /\ (OneEntryLoad => ServedInv)

LEMMA AnswerInit == Init => AnswerInv
<1>1. Init => \A t \in Threads : my[t].op = "none"
  BY DEF Init, Idle
<1>2. Init => ServedInv
  BY <1>1 DEF ServedInv
<1> QED
  BY <1>2, OneEntryInit, CallsInit DEF AnswerInv

LEMMA AnswerStep ==
  ASSUME N % 2 = 0
  PROVE  AnswerInv /\ [Next]_vars => AnswerInv'
BY OneEntryStep, CallsStep, LoadKept, ServedStep DEF AnswerInv, OneEntryInv
-----------------------------------------------------------------------------
\* Shared memory and locals keep to their types at every step of an insert that is
\* split into its loads and stores; in particular every leaf number is in the region.
THEOREM OneEntryTypes == ASSUME N % 2 = 0 PROVE Spec => [](OneEntryLoad => TypeOK)
<1>1. OneEntryInv /\ CallsInv => (OneEntryLoad => TypeOK)
  BY TypesLemma DEF OneEntryInv
<1>2. OneEntryInv /\ [Next]_vars => OneEntryInv'
  BY OneEntryStep
<1> QED
  BY <1>1, <1>2, OneEntryInit, CallsInit, CallsStep, PTL DEF Spec

\* insert_synonym, under csLocks: once every call has returned, each key that an
\* insert has answered for is in one slot of the chain, with its value, and no
\* other key is. No insert that lost the race for the lock undoes another's.
THEOREM OneEntryMatches == ASSUME N % 2 = 0 PROVE Spec => [](OneEntryLoad => IndexMatches)
<1>1. OneEntryInv => (OneEntryLoad => IndexMatches)
  BY MatchesLemma DEF OneEntryInv
<1>2. OneEntryInv /\ [Next]_vars => OneEntryInv'
  BY OneEntryStep
<1> QED
  BY <1>1, <1>2, OneEntryInit, PTL DEF Spec

\* Leaf::self_check: when no call is under way the keys of every leaf increase.
THEOREM OneEntrySorted == ASSUME N % 2 = 0 PROVE Spec => [](OneEntryLoad => LeavesSorted)
<1>1. OneEntryInv => (OneEntryLoad => LeavesSorted)
  BY SortedLemma DEF OneEntryInv
<1>2. OneEntryInv /\ [Next]_vars => OneEntryInv'
  BY OneEntryStep
<1> QED
  BY <1>1, <1>2, OneEntryInit, PTL DEF Spec

\* synonym_emplace_back: between the load and the store of the slot counter, and
\* until the new slot is linked, nobody else has that slot.
THEOREM OneEntrySlots == ASSUME N % 2 = 0 PROVE Spec => [](OneEntryLoad => SlotsGivenOnce)
<1>1. OneEntryInv => (OneEntryLoad => SlotsGivenOnce)
  BY SlotsLemma DEF OneEntryInv
<1>2. OneEntryInv /\ [Next]_vars => OneEntryInv'
  BY OneEntryStep
<1> QED
  BY <1>1, <1>2, OneEntryInit, PTL DEF Spec

\* insert_synonym: half of a leaf moves only to a leaf that the chain leads to; the
\* third test of the synonym table does not refuse what the second one granted.
THEOREM OneEntryLinked == ASSUME N % 2 = 0 PROVE Spec => [](OneEntryLoad => SplitsLinked)
<1>1. OneEntryInv => (OneEntryLoad => SplitsLinked)
  BY LinkedLemma DEF OneEntryInv
<1>2. OneEntryInv /\ [Next]_vars => OneEntryInv'
  BY OneEntryStep
<1> QED
  BY <1>1, <1>2, OneEntryInit, PTL DEF Spec

\* insert_synonym and search of a thread that has the table to itself: insert adds a
\* key just when it was not in the index, and what search finds was in it, with its
\* value. Neither test of the synonym table refuses what the first one let in.
THEOREM OneEntryAnswers == ASSUME N % 2 = 0 PROVE Spec => [](OneEntryLoad => AloneAnswers)
<1>1. AnswerInv => (OneEntryLoad => AloneAnswers)
  BY AnswersLemma DEF AnswerInv, OneEntryInv
<1>2. AnswerInv /\ [Next]_vars => AnswerInv'
  BY AnswerStep
<1> QED
  BY <1>1, <1>2, AnswerInit, PTL DEF Spec

\* search, which takes no lock: beside other searches, it finds every key that was in
\* the index when it began, with its value, however long its walk along the chain takes.
THEOREM OneEntrySearches ==
  ASSUME N % 2 = 0
  PROVE  Spec => [](SearchesApart => SearchFindsStable)
<1>1. AnswerInv => (SearchesApart => SearchFindsStable)
  BY SearchesLemma DEF AnswerInv, OneEntryInv, SearchesApart
<1>2. AnswerInv /\ [Next]_vars => AnswerInv'
  BY AnswerStep
<1> QED
  BY <1>1, <1>2, AnswerInit, PTL DEF Spec

\* Collect and get_leaf: no insert, and no search that nobody inserts beside, follows
\* a synonym slot that is not written yet, goes round in a chain, or finds the leaves
\* used up before the synonym slots.
THEOREM OneEntryWalks ==
  ASSUME N % 2 = 0, Pool >= SynonymMax - 1
  PROVE  Spec => [](SearchesApart => NoWildWalk)
<1>1. AnswerInv => (SearchesApart => NoWildWalk)
  BY WalksLemma DEF AnswerInv, OneEntryInv, SearchesApart
<1>2. AnswerInv /\ [Next]_vars => AnswerInv'
  BY AnswerStep
<1> QED
  BY <1>1, <1>2, AnswerInit, PTL DEF Spec
=============================================================================
