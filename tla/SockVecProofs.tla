------------------------------ MODULE SockVecProofs ------------------------------
(***************************************************************************)
(* Proofs about the scatter-gather socket, SockVec, for any number of      *)
(* slots and operations, buffers of any lengths and any system calls.      *)
(*                                                                         *)
(* IInv is inductive.  The reference count needs the stack (Stack): which  *)
(* loops are below the one that runs.  That callbacks are right needs the  *)
(* books (Books): how the lengths in the array relate to what the user     *)
(* asked for and what has been moved.  That no wakeup is lost needs both:  *)
(* a loop in a callback may still have everything it asked for (Settled).  *)
(***************************************************************************)
EXTENDS SockVec, FiniteSetTheorems, SequenceTheorems, WellFoundedInduction, TLAPS

Entry   == [id : 1 .. NOps, len : Nat \ {0}]
Answer  == [id : Nat, status : {"OK", "EIO"}]
Returns == {"none", "idle", "rxloop", "txloop", "io_out", "io_end"}

(* The tables of the two directions. *)
Tables ==
  /\ rdy \in [Dirs -> BOOLEAN] /\ ents \in [Dirs -> Seq(Entry)]
  /\ i \in [Dirs -> Nat] /\ ret \in [Dirs -> Nat] /\ to \in [Dirs -> Returns]
  /\ ends \in [Dirs -> Seq(Nat)] /\ moved \in [Dirs -> Nat] /\ done \in [Dirs -> Seq(Answer)]

(* rx() or tx() is past its system call, with its reference to the socket. *)
InLoop(d) == pc = Loop(d) \/ to[Other(d)] = Loop(d)

(* Calls are nested properly: run_io or the user calls rx() or tx(), and   *)
(* only a callback of one calls the other.                                 *)
Stack ==
  /\ pc \in {"new", "idle", "io_out", "io_end", "deleted"} => \A d \in Dirs : ~ Active(d)
  /\ pc \in {"new", "idle"} => ~ inio
  /\ pc \in {"io_out", "io_end"} => inio
  /\ \A d \in Dirs :
       /\ pc \in {d, Loop(d)} => Active(d)
       /\ to[d] # Loop(d)
       /\ to[d] = Loop(Other(d)) => to[Other(d)] \notin {"none", Loop(d)} /\ pc \in {d, Loop(d), "dead"}
       /\ to[d] \notin {"none", Loop(Other(d))} /\ Active(Other(d)) => to[Other(d)] = Loop(d)
       /\ to[d] = "idle" => ~ inio
       /\ to[d] = "io_out" => d = "rx" /\ inio
       /\ to[d] = "io_end" => d = "tx" /\ inio
       /\ pc = d \/ ~ Active(d) => i[d] = 0 /\ ret[d] = 0

(* Where the k-th operation ends in its stream en. *)
Pos(en, k) == IF k = 0 THEN 0 ELSE en[k]

Rising(en) == \A j \in 0 .. Len(en) : \A k \in 1 .. Len(en) : j < k => Pos(en, j) < Pos(en, k)

(* The books of one direction, in which entries s are left of operations   *)
(* that end at en, a loop has done a of them and has r bytes left of the m *)
(* moved, and the callbacks dn have been called: the entries are the last  *)
(* operations, each with the bytes it has left; those before them, and the *)
(* first a of them, have been told.                                        *)
Before(s, en) == Len(en) - Len(s)

Book(s, a, r, en, m, dn) ==
  /\ Len(s) <= Len(en) /\ Len(dn) = Before(s, en) + a
  /\ \A k \in 1 .. Len(s) : s[k].id = Before(s, en) + k
  /\ \A k \in 2 .. Len(s) :
       s[k].len = Pos(en, Before(s, en) + k) - Pos(en, Before(s, en) + k - 1)
  /\ a > 0 => m - r = Pos(en, Before(s, en) + a)
  /\ a = 0 => Pos(en, Before(s, en)) <= m - r
  /\ a = 0 /\ s = << >> => m - r = Pos(en, Before(s, en))
  /\ a = 0 /\ s # << >> => s[1].len = Pos(en, Before(s, en) + 1) - (m - r)
  /\ \A k \in 1 .. Len(dn) : dn[k] = [id |-> k, status |-> "OK"]

(* The books of a deleted socket: everyone has been told. *)
Closed(s, en, m, dn) ==
  /\ s = << >> /\ Len(dn) = Len(en)
  /\ \A k \in 1 .. Len(dn) : dn[k].id = k /\ (dn[k].status = "OK" <=> en[k] <= m)

Books ==
  \A d \in Dirs :
    /\ moved[d] <= Pos(ends[d], Len(ends[d])) /\ Rising(ends[d]) /\ Len(ends[d]) <= NOps
    /\ IF pc = "deleted" THEN Closed(ents[d], ends[d], moved[d], done[d])
       ELSE Book(ents[d], i[d], ret[d], ends[d], moved[d], done[d])

(* Everything asked for has been moved, or is about to be tried. *)
Settled(d) ==
  rdy[d] /\ (ents[d] = << >> \/ pc = d \/ (InLoop(d) /\ moved[d] = Pos(ends[d], Len(ends[d]))))

PendingIn  == "in" \in ev /\ ~ inio
PendingOut == "out" \in ev /\ (~ inio \/ pc = "io_out" \/ to["rx"] = "io_out")

Wakeups ==
  pc \notin {"dead", "deleted"} =>
    /\ \A d \in Dirs : pc = d => rdy[d]
    /\ pc = "new" => link = "none"
    /\ link \in {"none", "connecting"} => krcv = 0
    /\ link = "up" /\ krcv > 0 => edge \/ PendingIn \/ Settled("rx")
    /\ ksnd > SndLow => nospace \/ Settled("tx")
    /\ link = "up" => edge \/ PendingOut \/ (nospace /\ ksnd > SndLow) \/ Settled("tx")

(* The inductive invariant. *)
IInv == Tables /\ TypeOK /\ Stack /\ RefsHeld /\ Books /\ Wakeups


-----------------------------------------------------------------------------
(* Induction on the naturals, in terms of sets. *)

(* A set of naturals that is not empty has a least member. *)
LEMMA LeastNat ==
  ASSUME NEW T \in SUBSET Nat, T # {}
  PROVE  \E x \in T : \A y \in T : x <= y
<1> DEFINE R == {ss \in Nat \X Nat : ss[1] < ss[2]}
<1>1. IsWellFoundedOn(R, Nat)
  BY NatLessThanWellFounded, Zenon DEF OpToRel
<1>2. \A x, y \in Nat : x < y => <<x, y>> \in R
  OBVIOUS
<1> HIDE DEF R
<1>3. \E x \in T : \A y \in T : ~ (<<y, x>> \in R)
  BY <1>1, WFMin, Zenon
<1>4. PICK x \in T : \A y \in T : ~ (<<y, x>> \in R)
  BY <1>3
<1>5. ASSUME NEW y \in T PROVE x <= y
  <2>1. x \in Nat /\ y \in Nat
    OBVIOUS
  <2>2. ~ (y < x)
    BY <1>2, <1>4, <2>1, Zenon
  <2> QED
    BY <2>1, <2>2
<1> QED
  BY <1>5

(* Induction: a set that has 0 and the successor of each of its members    *)
(* has every natural.                                                      *)
LEMMA NatInductionSet ==
  ASSUME NEW S, 0 \in S, \A n \in Nat : n \in S => n + 1 \in S
  PROVE  Nat \subseteq S
<1> SUFFICES ASSUME NEW n \in Nat, n \notin S PROVE FALSE
  OBVIOUS
<1> DEFINE T == Nat \ S
<1>1. T \in SUBSET Nat /\ T # {}
  OBVIOUS
<1>2. PICK x \in T : \A y \in T : x <= y
  BY <1>1, LeastNat, Zenon
<1>3. x - 1 \in Nat /\ x - 1 \in S
  BY <1>2
<1> QED
  BY <1>2, <1>3

-----------------------------------------------------------------------------
(* The two directions. *)

(* The two directions, their names and their loops. *)
LEMMA TwoDirs ==
  /\ \A d \in Dirs : /\ Other(d) \in Dirs /\ Other(d) # d /\ Other(Other(d)) = d
                     /\ Loop(d) # Loop(Other(d)) /\ Loop(d) \in {"rxloop", "txloop"}
                     /\ \A e \in Dirs : e = d \/ e = Other(d)
  /\ Other("rx") = "tx" /\ Other("tx") = "rx" /\ Loop("rx") = "rxloop" /\ Loop("tx") = "txloop"
  /\ "rx" \in Dirs /\ "tx" \in Dirs
BY DEF Dirs, Other, Loop

(* An assignment for one direction. *)
LEMMA Update ==
  ASSUME NEW S, NEW f \in [Dirs -> S], NEW d \in Dirs, NEW v \in S
  PROVE  /\ [f EXCEPT ![d] = v] \in [Dirs -> S]
         /\ [f EXCEPT ![d] = v][d] = v
         /\ [f EXCEPT ![d] = v][Other(d)] = f[Other(d)]
         /\ \A e \in Dirs : e # d => [f EXCEPT ![d] = v][e] = f[e]
BY TwoDirs

(* How many of the two. *)
LEMMA CountDirs ==
  ASSUME NEW S \in SUBSET Dirs
  PROVE  Cardinality(S) = (IF "rx" \in S THEN 1 ELSE 0) + (IF "tx" \in S THEN 1 ELSE 0)
<1>1. S \in {{}, {"rx"}, {"tx"}, {"rx", "tx"}}
  BY DEF Dirs
<1>2. /\ Cardinality({}) = 0 /\ Cardinality({"rx"}) = 1 /\ Cardinality({"tx"}) = 1
      /\ Cardinality({"rx", "tx"}) = 2
  <2>1. Cardinality({"rx", "tx"}) = 2
    <3>1. IsFiniteSet({"rx"}) /\ Cardinality({"rx"}) = 1 /\ "tx" \notin {"rx"}
      BY FS_Singleton
    <3>2. Cardinality({"rx"} \cup {"tx"}) = Cardinality({"rx"}) + 1
      BY <3>1, FS_AddElement
    <3>3. {"rx"} \cup {"tx"} = {"rx", "tx"}
      OBVIOUS
    <3> QED
      BY <3>1, <3>2, <3>3
  <2> QED
    BY <2>1, FS_EmptySet, FS_Singleton
<1> QED
  BY <1>1, <1>2

One(b) == IF b THEN 1 ELSE 0

Refs == One(held) + One(inio) + One(InLoop("rx")) + One(InLoop("tx"))

(* The references, one by one. *)
LEMMA RefsSum ==
  RefsHeld <=> /\ pc \notin {"deleted", "dead"} => ref = Refs
               /\ pc = "deleted" => ref = 0 /\ ~ held
<1> DEFINE S == {d \in Dirs : pc = Loop(d) \/ to[Other(d)] = Loop(d)}
<1>1. Quantify(Dirs, LAMBDA d : pc = Loop(d) \/ to[Other(d)] = Loop(d)) = Cardinality(S)
  BY DEF Quantify
<1>2. Cardinality(S) = One(InLoop("rx")) + One(InLoop("tx"))
  <2>1. S \in SUBSET Dirs
    OBVIOUS
  <2>2. Cardinality(S) = (IF "rx" \in S THEN 1 ELSE 0) + (IF "tx" \in S THEN 1 ELSE 0)
    BY <2>1, CountDirs, Zenon
  <2>3. ("rx" \in S <=> InLoop("rx")) /\ ("tx" \in S <=> InLoop("tx"))
    BY TwoDirs, Zenon DEF InLoop
  <2> QED
    BY <2>2, <2>3 DEF One
<1> HIDE DEF S
<1>3. One(held) \in Nat /\ One(inio) \in Nat /\ One(InLoop("rx")) \in Nat /\ One(InLoop("tx")) \in Nat
  BY DEF One
<1> QED
  BY <1>1, <1>2, <1>3 DEF RefsHeld, Refs, One

-----------------------------------------------------------------------------
(* The stack. *)

(* An assignment for one direction, of one argument. *)
LEMMA UpdateDir ==
  ASSUME NEW S, NEW f \in [Dirs -> S], NEW d \in Dirs, NEW v \in S,
         NEW g, g = [f EXCEPT ![d] = v]
  PROVE  /\ g \in [Dirs -> S] /\ g[d] = v /\ g[Other(d)] = f[Other(d)]
BY Update

(* Where the thread can be. *)
Points == Dirs \cup {"new", "idle", "rxloop", "txloop", "io_out", "io_end", "deleted", "dead"}

(* Whatever put() does, the stack loses its top. *)
LEMMA PutEffect ==
  ASSUME TypeOK, NEW es, NEW next, Put(es, next)
  PROVE  /\ ref' = ref - 1
         /\ ref = 1 => done' = Cancelled(es) /\ ents' = Both(<< >>) /\ pc' = "deleted"
         /\ ref # 1 => ents' = es /\ pc' = next /\ done' = done
BY Zenon DEF Put

(* The stack in the states of one direction and its other. *)
StackOf(d) ==
  /\ pc \in {d, Loop(d)} => Active(d)
  /\ to[d] # Loop(d)
  /\ to[d] = Loop(Other(d)) => to[Other(d)] \notin {"none", Loop(d)} /\ pc \in {d, Loop(d), "dead"}
  /\ to[d] \notin {"none", Loop(Other(d))} /\ Active(Other(d)) => to[Other(d)] = Loop(d)
  /\ to[d] = "idle" => ~ inio
  /\ to[d] = "io_out" => d = "rx" /\ inio
  /\ to[d] = "io_end" => d = "tx" /\ inio
  /\ pc = d \/ ~ Active(d) => i[d] = 0 /\ ret[d] = 0

Frames ==
  /\ pc \in {"new", "idle", "io_out", "io_end", "deleted"} => \A d \in Dirs : ~ Active(d)
  /\ pc \in {"new", "idle"} => ~ inio
  /\ pc \in {"io_out", "io_end"} => inio

(* The stack has these parts. *)
LEMMA StackParts == Stack <=> Frames /\ StackOf("rx") /\ StackOf("tx")
BY TwoDirs DEF Stack, Frames, StackOf, Dirs

(* Two directions are d and the other. *)
LEMMA StackFor ==
  ASSUME NEW d \in Dirs
  PROVE  Stack <=> Frames /\ StackOf(d) /\ StackOf(Other(d))
<1>1. CASE d = "rx"
  BY <1>1, TwoDirs, StackParts, Zenon
<1>2. CASE d = "tx"
  BY <1>2, TwoDirs, StackParts, Zenon
<1> QED
  BY <1>1, <1>2, Zenon DEF Dirs

(* The parts make up the stack, in the next state. *)
LEMMA StackPartsNext == (Frames /\ StackOf("rx") /\ StackOf("tx"))' => Stack'
BY TwoDirs DEF Stack, Frames, StackOf, Dirs

(* The same after a step. *)
LEMMA StackForNext ==
  ASSUME NEW d \in Dirs, Frames', StackOf(d)', StackOf(Other(d))'
  PROVE  Stack'
<1>1. CASE d = "rx"
  BY <1>1, TwoDirs, StackPartsNext, Zenon
<1>2. CASE d = "tx"
  BY <1>2, TwoDirs, StackPartsNext, Zenon
<1> QED
  BY <1>1, <1>2, Zenon DEF Dirs

(* A loop that holds the last reference is alone.                          *)
LEMMA LastRef ==
  ASSUME IInv, NEW d \in Dirs, pc = Loop(d), ref = 1
  PROVE  ~ held /\ ~ inio /\ ~ Active(Other(d))
<1>1. pc \notin {"deleted", "dead"}
  BY TwoDirs
<1>2. ref = Refs
  BY <1>1, RefsSum, Zenon DEF IInv
<1>3. InLoop(d)
  BY DEF InLoop
<1>4. InLoop(Other(d)) => One(InLoop(Other(d))) = 1
  BY DEF One
<1>5. /\ One(InLoop(d)) = 1 /\ {One(held), One(inio), One(InLoop(Other(d)))} \subseteq {0, 1}
      /\ held => One(held) = 1
      /\ inio => One(inio) = 1
  BY <1>3 DEF One
<1>6. Refs = One(held) + One(inio) + One(InLoop(d)) + One(InLoop(Other(d)))
  <2>1. CASE d = "rx"
    BY <2>1, TwoDirs DEF Refs
  <2>2. CASE d = "tx"
    <3>1. {One(held), One(inio), One(InLoop("rx")), One(InLoop("tx"))} \subseteq {0, 1}
      BY DEF One
    <3> QED
      BY <2>2, <3>1, TwoDirs DEF Refs
  <2> QED
    BY <2>1, <2>2 DEF Dirs
<1>7. ~ held /\ ~ inio /\ ~ InLoop(Other(d))
  BY <1>2, <1>4, <1>5, <1>6
<1>8. to[d] # Loop(Other(d))
  BY <1>7, TwoDirs, Zenon DEF InLoop
<1>9. StackOf(d) /\ StackOf(Other(d))
  BY StackFor, Zenon DEF IInv
<1>10. to[d] # "none"
  BY <1>9, Zenon DEF StackOf, Active
<1>11. Active(Other(d)) => to[Other(d)] = Loop(d)
  BY <1>8, <1>9, <1>10, Zenon DEF StackOf
<1>12. to[Other(d)] # Loop(d)
  <2>1. pc \notin {Other(d), Loop(Other(d)), "dead"}
    BY TwoDirs DEF Dirs
  <2> QED
    BY <1>9, <2>1, TwoDirs, Zenon DEF StackOf
<1> QED
  BY <1>7, <1>11, <1>12, Zenon

(* A new return address. *)
LEMMA ReturnTo ==
  ASSUME Tables, NEW d \in Dirs, NEW r \in Returns, to' = [to EXCEPT ![d] = r]
  PROVE  to' \in [Dirs -> Returns] /\ to'[d] = r /\ to'[Other(d)] = to[Other(d)]
<1>1. to \in [Dirs -> Returns]
  BY Zenon DEF Tables
<1> QED
  BY <1>1, Update

(* Each step leaves the stack in order. *)
LEMMA StackStart ==
  ASSUME IInv, NEW d \in Dirs, NEW len \in Lens, Start(d, len)
  PROVE  Stack'
<1> DEFINE o == Other(d)
<1>1. Tables /\ TypeOK /\ Stack /\ to \in [Dirs -> Returns] /\ o \in Dirs
  BY TwoDirs, Zenon DEF IInv, Tables
<1>2. Frames /\ StackOf(d) /\ StackOf(o)
  BY <1>1, StackFor, Zenon
<1>3. i' = i /\ ret' = ret /\ inio' = inio
  BY Zenon DEF Start
<1>4. CASE Len(ents[d]) >= MAX_SGS
  <2>1. to' = to /\ pc' = "dead"
    BY <1>4, Zenon DEF Start, Throw
  <2>2. Frames' /\ StackOf(d)' /\ StackOf(o)'
    BY <1>2, <1>3, <2>1, TwoDirs DEF Frames, StackOf, Active, Dirs
  <2> QED
    BY <2>2, StackForNext, Zenon
<1>5. CASE ~ (Len(ents[d]) >= MAX_SGS) /\ ~ rdy[d]
  <2>1. to' = to /\ pc' = pc
    BY <1>5, Zenon DEF Start
  <2> QED
    BY <1>1, <1>3, <2>1 DEF Stack, Active
<1>6. CASE ~ (Len(ents[d]) >= MAX_SGS) /\ rdy[d]
  <2>1. pc' = d /\ to' = [to EXCEPT ![d] = pc]
    BY <1>6, Zenon DEF Start
  <2>2. pc = "idle" \/ (pc = Loop(o) /\ ~ Active(d))
    BY Zenon DEF Start
  <2>3. pc \in Returns
    BY <2>2, TwoDirs DEF Returns
  <2>4. to' \in [Dirs -> Returns] /\ to'[d] = pc /\ to'[o] = to[o]
    BY <1>1, <2>1, <2>3, ReturnTo, Zenon
  <2>5. ~ Active(d)
    BY <1>2, <2>2, Zenon DEF Frames
  <2>6. CASE pc = "idle"
    <3>1. ~ Active(o) /\ ~ inio
      BY <1>1, <1>2, <2>6, Zenon DEF Frames
    <3>2. Frames' /\ StackOf(d)' /\ StackOf(o)'
      BY <1>1, <1>2, <1>3, <2>1, <2>4, <2>5, <2>6, <3>1, TwoDirs DEF Frames, StackOf, Active, Dirs
    <3> QED
      BY <3>2, StackForNext, Zenon
  <2>7. CASE pc = Loop(o)
    <3>1. Frames' /\ StackOf(d)' /\ StackOf(o)'
      BY <1>1, <1>2, <1>3, <2>1, <2>4, <2>5, <2>7, TwoDirs DEF Frames, StackOf, Active, Dirs
    <3> QED
      BY <3>1, StackForNext, Zenon
  <2> QED
    BY <2>2, <2>6, <2>7, Zenon
<1> QED
  BY <1>4, <1>5, <1>6, Zenon

(* Returning from rx() or tx(). *)
LEMMA StackReturn ==
  ASSUME IInv, NEW d \in Dirs, pc \in {d, Loop(d)}, pc' = to[d], to' = [to EXCEPT ![d] = "none"],
         i'[d] = 0, ret'[d] = 0, i'[Other(d)] = i[Other(d)], ret'[Other(d)] = ret[Other(d)],
         inio' = inio
  PROVE  Stack'
<1> DEFINE o == Other(d)
<1>1. Tables /\ TypeOK /\ Stack /\ to \in [Dirs -> Returns] /\ o \in Dirs
  BY TwoDirs, Zenon DEF IInv, Tables
<1>2. Frames /\ StackOf(d) /\ StackOf(o)
  BY <1>1, StackFor, Zenon
<1>3. to' \in [Dirs -> Returns] /\ to'[d] = "none" /\ to'[o] = to[o]
  <2>1. "none" \in Returns
    BY DEF Returns
  <2> QED
    BY <1>1, <2>1, ReturnTo, Zenon
<1>4. to[d] \in Returns \ {"none"} /\ to[d] # Loop(d) /\ pc # "dead"
  BY <1>1, <1>2, TwoDirs DEF StackOf, Active, Dirs
<1>5. CASE to[d] = Loop(o)
  <2>1. Frames' /\ StackOf(d)' /\ StackOf(o)'
    BY <1>1, <1>2, <1>3, <1>4, <1>5, TwoDirs DEF Frames, StackOf, Active, Dirs, Returns
  <2> QED
    BY <2>1, StackForNext, Zenon
<1>6. CASE to[d] # Loop(o)
  <2>1. ~ Active(o)
    <3>1. Active(o) => to[o] = Loop(d)
      BY <1>2, <1>4, <1>6 DEF StackOf
    <3>2. to[o] # Loop(d)
      BY <1>2, <1>1, <1>4, TwoDirs DEF StackOf, Dirs
    <3> QED
      BY <3>1, <3>2
  <2>2. to[d] \in {"idle", "io_out", "io_end"}
    BY <1>4, <1>6, TwoDirs DEF Returns, Dirs, Loop, Other
  <2>3. Frames' /\ StackOf(d)' /\ StackOf(o)'
    BY <1>1, <1>2, <1>3, <1>4, <2>1, <2>2, TwoDirs DEF Frames, StackOf, Active, Dirs
  <2> QED
    BY <2>3, StackForNext, Zenon
<1> QED
  BY <1>5, <1>6, Zenon

(* Calls and returns that leave the loops alone. *)
LEMMA StackSame ==
  ASSUME Stack, UNCHANGED <<pc, to, i, ret, inio>>
  PROVE  Stack'
BY Zenon DEF Stack, Active

(* An exception. *)
LEMMA StackThrow ==
  ASSUME Stack, pc' = "dead", UNCHANGED <<to, i, ret, inio>>
  PROVE  Stack'
<1>1. Frames /\ StackOf("rx") /\ StackOf("tx")
  BY StackParts, Zenon
<1>2. (Frames /\ StackOf("rx") /\ StackOf("tx"))'
  BY <1>1, TwoDirs DEF Frames, StackOf, Active, Dirs
<1> QED
  BY <1>2, StackPartsNext, Zenon

(* rx() and tx() enter their loop. *)
LEMMA StackMoved ==
  ASSUME IInv, NEW d \in Dirs, NEW n \in Nat, pc = d, Moved(d, n)
  PROVE  Stack'
<1> DEFINE o == Other(d)
<1>1. Tables /\ Stack /\ i \in [Dirs -> Nat] /\ ret \in [Dirs -> Nat] /\ o \in Dirs
  BY TwoDirs, Zenon DEF IInv, Tables
<1>2. Frames /\ StackOf(d) /\ StackOf(o)
  BY <1>1, StackFor, Zenon
<1>3. /\ pc' = Loop(d) /\ to' = to /\ inio' = inio
      /\ ret' = [ret EXCEPT ![d] = n] /\ i' = [i EXCEPT ![d] = 0]
  BY Zenon DEF Moved, iovars
<1>4. i'[o] = i[o] /\ ret'[o] = ret[o]
  BY <1>1, <1>3, TwoDirs
<1>5. (Frames /\ StackOf(d) /\ StackOf(o))'
  BY <1>1, <1>2, <1>3, <1>4, TwoDirs DEF Frames, StackOf, Active, Dirs
<1> QED
  BY <1>5, StackForNext, Zenon

(* A turn of a loop. *)
LEMMA StackComplete ==
  ASSUME IInv, NEW d \in Dirs, Complete(d)
  PROVE  Stack'
<1> DEFINE o == Other(d)
<1>1. Tables /\ Stack /\ i \in [Dirs -> Nat] /\ ret \in [Dirs -> Nat] /\ o \in Dirs
  BY TwoDirs, Zenon DEF IInv, Tables
<1>2. Frames /\ StackOf(d) /\ StackOf(o)
  BY <1>1, StackFor, Zenon
<1>3. /\ pc = Loop(d) /\ pc' = pc /\ to' = to /\ inio' = inio
      /\ ret' = [ret EXCEPT ![d] = @ - ents[d][i[d] + 1].len] /\ i' = [i EXCEPT ![d] = @ + 1]
  BY Zenon DEF Complete, iovars
<1>4. i'[o] = i[o] /\ ret'[o] = ret[o]
  BY <1>1, <1>3, TwoDirs
<1>5. (Frames /\ StackOf(d) /\ StackOf(o))'
  BY <1>1, <1>2, <1>3, <1>4, TwoDirs DEF Frames, StackOf, Active, Dirs
<1> QED
  BY <1>5, StackForNext, Zenon

(* The end of a loop: the socket may be deleted. *)
LEMMA StackLeave ==
  ASSUME IInv, NEW d \in Dirs, NEW left, pc = Loop(d), Leave(d, left)
  PROVE  Stack'
<1> DEFINE o == Other(d)
<1>1. Tables /\ TypeOK /\ Stack /\ i \in [Dirs -> Nat] /\ ret \in [Dirs -> Nat] /\ o \in Dirs
  BY TwoDirs, Zenon DEF IInv, Tables
<1>2. /\ to' = [to EXCEPT ![d] = "none"] /\ inio' = inio
      /\ ret' = [ret EXCEPT ![d] = 0] /\ i' = [i EXCEPT ![d] = 0]
      /\ Put([ents EXCEPT ![d] = left], to[d])
  BY Zenon DEF Leave, iovars
<1>3. i'[d] = 0 /\ ret'[d] = 0 /\ i'[o] = i[o] /\ ret'[o] = ret[o]
  BY <1>1, <1>2, TwoDirs
<1>4. CASE ref = 1
  <2>1. pc' = "deleted"
    BY <1>1, <1>2, <1>4, PutEffect, Zenon
  <2>2. "none" \in Returns
    BY DEF Returns
  <2>3. to' \in [Dirs -> Returns] /\ to'[d] = "none" /\ to'[o] = to[o]
    BY <1>1, <1>2, <2>2, ReturnTo, Zenon
  <2>4. to[o] = "none" /\ ~ inio
    BY <1>4, LastRef, Zenon DEF Active
  <2>5. i[o] = 0 /\ ret[o] = 0
    BY <1>1, <2>4, StackFor, Zenon DEF StackOf, Active
  <2>6. (Frames /\ StackOf(d) /\ StackOf(o))'
    BY <1>1, <1>2, <1>3, <2>1, <2>3, <2>4, <2>5, TwoDirs DEF Frames, StackOf, Active, Dirs
  <2> QED
    BY <2>6, StackForNext, Zenon
<1>5. CASE ref # 1
  <2>1. pc' = to[d]
    BY <1>1, <1>2, <1>5, PutEffect, Zenon
  <2> QED
    BY <1>2, <1>3, <2>1, StackReturn, Zenon
<1> QED
  BY <1>4, <1>5, Zenon

(* run_io. *)
LEMMA StackIo ==
  ASSUME IInv, RunIo \/ IoOut \/ IoEnd
  PROVE  Stack'
<1>1. Tables /\ TypeOK /\ Stack /\ to \in [Dirs -> Returns] /\ "rx" \in Dirs /\ "tx" \in Dirs
  BY TwoDirs, Zenon DEF IInv, Tables
<1>2. Frames /\ StackOf("rx") /\ StackOf("tx")
  BY <1>1, StackParts, Zenon
<1>3. pc \in {"idle", "io_out", "io_end"} /\ i' = i /\ ret' = ret
  BY DEF RunIo, IoOut, IoEnd
<1>4. to["rx"] = "none" /\ to["tx"] = "none" /\ i["rx"] = 0 /\ i["tx"] = 0 /\ ret["rx"] = 0 /\ ret["tx"] = 0
  BY <1>1, <1>2, <1>3 DEF Frames, StackOf, Active
<1>5. CASE RunIo
  <2>1. inio' = TRUE
    BY <1>5, Zenon DEF RunIo
  <2>2. CASE "in" \in ev
    <3>1. pc' = "rx" /\ to' = [to EXCEPT !["rx"] = "io_out"]
      BY <1>5, <2>2, Zenon DEF RunIo
    <3>2. to'["rx"] = "io_out" /\ to'["tx"] = "none"
      BY <1>1, <1>4, <3>1
    <3>3. (Frames /\ StackOf("rx") /\ StackOf("tx"))'
      BY <1>3, <1>4, <2>1, <3>1, <3>2, TwoDirs DEF Frames, StackOf, Active, Dirs
    <3> QED
      BY <3>3, StackPartsNext, Zenon
  <2>3. CASE "in" \notin ev
    <3>1. pc' = "io_out" /\ to' = to
      BY <1>5, <2>3, Zenon DEF RunIo
    <3>2. (Frames /\ StackOf("rx") /\ StackOf("tx"))'
      BY <1>3, <1>4, <2>1, <3>1, TwoDirs DEF Frames, StackOf, Active, Dirs
    <3> QED
      BY <3>2, StackPartsNext, Zenon
  <2> QED
    BY <2>2, <2>3, Zenon
<1>6. CASE IoOut
  <2>1. inio' = inio /\ pc = "io_out" /\ inio
    BY <1>2, <1>6 DEF IoOut, Frames
  <2>2. \/ pc' = "io_end" /\ to' = to
        \/ pc' = "dead" /\ to' = to
        \/ pc' = "tx" /\ to' = [to EXCEPT !["tx"] = "io_end"]
    BY <1>6, Zenon DEF IoOut, Throw
  <2>3. CASE pc' = "tx" /\ to' = [to EXCEPT !["tx"] = "io_end"]
    <3>1. to'["tx"] = "io_end" /\ to'["rx"] = "none"
      BY <1>1, <1>4, <2>3
    <3>2. (Frames /\ StackOf("rx") /\ StackOf("tx"))'
      BY <1>3, <1>4, <2>1, <2>3, <3>1, TwoDirs DEF Frames, StackOf, Active, Dirs
    <3> QED
      BY <3>2, StackPartsNext, Zenon
  <2>4. CASE pc' \in {"io_end", "dead"} /\ to' = to
    <3>1. (Frames /\ StackOf("rx") /\ StackOf("tx"))'
      BY <1>3, <1>4, <2>1, <2>4, TwoDirs DEF Frames, StackOf, Active, Dirs
    <3> QED
      BY <3>1, StackPartsNext, Zenon
  <2> QED
    BY <2>2, <2>3, <2>4, Zenon
<1>7. CASE IoEnd
  <2>1. inio' = FALSE /\ to' = to /\ Put(ents, "idle")
    BY <1>7, Zenon DEF IoEnd
  <2>2. pc' \in {"idle", "deleted"}
    BY <1>1, <2>1, PutEffect, Zenon
  <2>3. (Frames /\ StackOf("rx") /\ StackOf("tx"))'
    BY <1>3, <1>4, <2>1, <2>2, TwoDirs DEF Frames, StackOf, Active, Dirs
  <2> QED
    BY <2>3, StackPartsNext, Zenon
<1> QED
  BY <1>5, <1>6, <1>7, Zenon

-----------------------------------------------------------------------------
(* The size of the io vector. *)

(* The sums of the first lengths, as Asked computes them. *)
Sums(e, n) == CHOOSE f : f = [k \in 0 .. n |-> IF k = 0 THEN 0 ELSE f[k - 1] + e[k].len]

(* What a sum over the entries comes to, when each entry's length is the   *)
(* distance between two positions.                                         *)
LEMMA SumTelescopes ==
  ASSUME NEW n \in Nat, NEW e \in Seq(Entry), NEW g \in [0 .. n -> Int],
         \A k \in 1 .. n : e[k].len = g[k] - g[k - 1]
  PROVE  Sums(e, n)[n] = g[n] - g[0]
<1> DEFINE F(f) == [k \in 0 .. n |-> IF k = 0 THEN 0 ELSE f[k - 1] + e[k].len]
           s == CHOOSE f : f = F(f)
           h == [k \in 0 .. n |-> g[k] - g[0]]
<1>1. h = F(h)
  <2>1. ASSUME NEW k \in 0 .. n PROVE h[k] = F(h)[k]
    <3>1. CASE k = 0
      BY <3>1
    <3>2. CASE k # 0
      <4>1. k \in 1 .. n /\ k - 1 \in 0 .. n
        BY <3>2
      <4>2. h[k] = g[k] - g[0] /\ h[k - 1] = g[k - 1] - g[0]
        BY <4>1
      <4>3. F(h)[k] = h[k - 1] + e[k].len
        BY <3>2, <4>1
      <4>4. g[k] \in Int /\ g[k - 1] \in Int /\ g[0] \in Int
        BY <4>1
      <4> QED
        BY <4>1, <4>2, <4>3, <4>4
    <3> QED
      BY <3>1, <3>2
  <2> QED
    BY <2>1
<1>2. s = F(s)
  BY <1>1
<1> DEFINE S == {k \in Nat : k <= n => s[k] = h[k]}
<1> HIDE DEF s
<1>3. 0 \in S
  BY <1>2
<1>4. ASSUME NEW k \in Nat, k \in S PROVE k + 1 \in S
  <2> SUFFICES ASSUME k + 1 <= n PROVE s[k + 1] = h[k + 1]
    OBVIOUS
  <2>1. k + 1 \in 0 .. n /\ k + 1 # 0 /\ (k + 1) - 1 = k /\ k <= n
    OBVIOUS
  <2>2. s[k] = h[k]
    BY <1>4, <2>1
  <2>3. F(s)[k + 1] = s[k] + e[k + 1].len /\ F(h)[k + 1] = h[k] + e[k + 1].len
    BY <2>1
  <2> QED
    BY <1>1, <1>2, <2>2, <2>3
<1>5. Nat \subseteq S
  <2> HIDE DEF S
  <2> QED
    BY <1>3, <1>4, NatInductionSet, Zenon
<1>6. s[n] = h[n]
  <2>1. n \in S
    BY <1>5, Zenon
  <2> QED
    BY <2>1
<1>7. Sums(e, n) = s
  BY DEF Sums, s
<1> QED
  BY <1>6, <1>7

(* Ended is the position of the last. *)
LEMMA EndedPos ==
  ASSUME Tables, NEW d \in Dirs
  PROVE  Ended(d) = Pos(ends[d], Len(ends[d])) /\ Ended(d) \in Nat /\ Len(ends[d]) \in Nat
<1>1. ends[d] \in Seq(Nat) /\ Len(ends[d]) \in Nat
  BY LenProperties DEF Tables
<1>2. CASE ends[d] = << >>
  <2>1. Len(ends[d]) = 0
    BY <1>2
  <2> QED
    BY <1>2, <2>1 DEF Ended, Pos
<1>3. CASE ends[d] # << >>
  <2>1. Len(ends[d]) \in 1 .. Len(ends[d]) /\ Len(ends[d]) # 0
    BY <1>1, <1>3, EmptySeq
  <2>2. ends[d][Len(ends[d])] \in Nat
    BY <1>1, <2>1, ElementOfSeq, Zenon
  <2> QED
    BY <1>1, <1>3, <2>1, <2>2, Zenon DEF Ended, Pos
<1> QED
  BY <1>2, <1>3

(* Positions are numbers. *)
LEMMA PosNat ==
  ASSUME NEW en \in Seq(Nat), NEW k \in 0 .. Len(en)
  PROVE  Pos(en, k) \in Nat /\ (k # 0 => Pos(en, k) = en[k])
<1>1. CASE k = 0
  BY <1>1 DEF Pos
<1>2. CASE k # 0
  <2>1. k \in 1 .. Len(en)
    BY <1>2, LenProperties
  <2>2. en[k] \in Nat
    BY <2>1, ElementOfSeq, Zenon
  <2> QED
    BY <1>2, <2>2, Zenon DEF Pos
<1> QED
  BY <1>1, <1>2

(* What has been asked for is what ends after the bytes moved.             *)
LEMMA AskedIs ==
  ASSUME Tables, TypeOK, Books, NEW d \in Dirs, pc # "deleted", i[d] = 0, ret[d] = 0, ents[d] # << >>
  PROVE  Asked(d) = Ended(d) - moved[d] /\ Asked(d) \in Nat \ {0} /\ Ended(d) \in Nat
<1> DEFINE n == Len(ents[d])
           s == ents[d]
           en == ends[d]
           b == Before(s, en)
           m == moved[d]
           g == [k \in 0 .. n |-> IF k = 0 THEN m ELSE Pos(en, b + k)]
<1>1. s \in Seq(Entry) /\ n \in Nat \ {0} /\ en \in Seq(Nat) /\ m \in Nat /\ Len(en) \in Nat
  BY EmptySeq, LenProperties DEF Tables
<1>2. Book(s, 0, 0, en, m, done[d]) /\ Rising(en)
  BY Zenon DEF Books
<1>3. b + n = Len(en) /\ b \in Nat
  BY <1>1, <1>2 DEF Before, Book
<1>4. m - 0 = m
  BY <1>1
<1>5. /\ \A k \in 2 .. n : s[k].len = Pos(en, b + k) - Pos(en, b + k - 1)
      /\ s[1].len = Pos(en, b + 1) - m
  BY <1>2, <1>4 DEF Book
<1> HIDE DEF b
<1>6. ASSUME NEW k \in 0 .. n PROVE g[k] \in Int
  <2>1. b + k \in 0 .. Len(en)
    BY <1>1, <1>3
  <2> QED
    BY <1>1, <2>1, PosNat
<1>7. ASSUME NEW k \in 1 .. n PROVE s[k].len = g[k] - g[k - 1]
  <2>1. g[k] = Pos(en, b + k)
    BY <1>1
  <2>2. CASE k = 1
    <3>1. g[k - 1] = m
      BY <2>2, <1>1
    <3> QED
      BY <2>1, <2>2, <3>1, <1>5
  <2>3. CASE k # 1
    <3>1. k \in 2 .. n /\ k - 1 \in 0 .. n /\ k - 1 # 0
      BY <2>3, <1>1
    <3>2. g[k - 1] = Pos(en, b + (k - 1))
      BY <3>1
    <3>3. b + (k - 1) = b + k - 1
      BY <1>3, <3>1
    <3> QED
      BY <1>5, <2>1, <3>1, <3>2, <3>3
  <2> QED
    BY <2>2, <2>3
<1>8. Asked(d) = Sums(s, n)[n]
  BY DEF Asked, Sums
<1>9. g[n] = Ended(d) /\ g[0] = m /\ Ended(d) \in Nat
  <2>1. g[n] = Pos(en, Len(en)) /\ g[0] = m
    BY <1>1, <1>3
  <2> QED
    BY <2>1, EndedPos, Zenon
<1>10. Sums(s, n)[n] = g[n] - g[0]
  <2>1. n \in Nat
    BY <1>1
  <2>2. g \in [0 .. n -> Int] /\ (\A k \in 1 .. n : s[k].len = g[k] - g[k - 1])
    BY <1>6, <1>7
  <2> HIDE DEF g, n, s
  <2> QED
    BY <1>1, <2>1, <2>2, SumTelescopes, Zenon
<1>11. Asked(d) = Ended(d) - m
  BY <1>8, <1>9, <1>10
<1>12. s[1].len \in Nat \ {0}
  <2>1. 1 \in 1 .. Len(s)
    BY <1>1
  <2>2. s[1] \in Entry
    BY <1>1, <2>1, ElementOfSeq, Zenon
  <2> QED
    BY <2>2 DEF Entry
<1>13. Pos(en, b + 1) <= Pos(en, Len(en)) /\ Pos(en, b + 1) \in Nat /\ Pos(en, Len(en)) \in Nat
  <2>1. b + 1 \in 0 .. Len(en) /\ Len(en) \in 1 .. Len(en) /\ Len(en) \in 0 .. Len(en) /\ (b + 1 < Len(en) \/ b + 1 = Len(en))
    BY <1>1, <1>3
  <2>2. Pos(en, b + 1) \in Nat /\ Pos(en, Len(en)) \in Nat
    BY <1>1, <2>1, PosNat
  <2>3. b + 1 < Len(en) => Pos(en, b + 1) < Pos(en, Len(en))
    BY <1>2, <2>1, Zenon DEF Rising
  <2> QED
    BY <2>1, <2>2, <2>3
<1>14. Ended(d) = Pos(en, Len(en))
  BY EndedPos, Zenon
<1>15. Ended(d) - m \in Nat \ {0}
  <2> HIDE DEF m, en, s
  <2> QED
    BY <1>1, <1>5, <1>12, <1>13, <1>14
<1> QED
  BY <1>9, <1>11, <1>15

(* The user's put() deletes the socket only from the event loop. *)
LEMMA UserLast ==
  ASSUME IInv, UserPut
  PROVE  /\ ref = 1 => pc = "idle" /\ pc' = "deleted"
         /\ ref # 1 => pc' = pc
         /\ UNCHANGED <<to, i, ret, inio>>
<1>1. /\ pc = "idle" \/ InCallback
      /\ held /\ Put(ents, pc) /\ UNCHANGED <<to, i, ret, inio>>
  BY Zenon DEF UserPut, iovars
<1>2. (ref = 1 => pc' = "deleted") /\ (ref # 1 => pc' = pc)
  BY <1>1, PutEffect, Zenon DEF IInv
<1>3. ASSUME InCallback PROVE ref # 1
  <2>1. PICK d \in Dirs : pc = Loop(d)
    BY <1>3, Zenon DEF InCallback
  <2> QED
    BY <1>1, <2>1, LastRef, Zenon
<1> QED
  BY <1>1, <1>2, <1>3, Zenon

(* Only outside of rx(), tx() and run_io can the user delete the socket. *)
LEMMA StackUserPut ==
  ASSUME IInv, UserPut
  PROVE  Stack'
<1>1. Stack
  BY Zenon DEF IInv
<1>2. UNCHANGED <<to, i, ret, inio>>
  BY UserLast, Zenon
<1>3. CASE ref # 1
  BY <1>1, <1>2, <1>3, UserLast, StackSame, Zenon
<1>4. CASE ref = 1
  <2>1. pc = "idle" /\ pc' = "deleted"
    BY <1>4, UserLast, Zenon
  <2>2. Frames /\ StackOf("rx") /\ StackOf("tx")
    BY <1>1, StackParts, Zenon
  <2>3. to["rx"] = "none" /\ to["tx"] = "none" /\ i["rx"] = 0 /\ i["tx"] = 0 /\ ret["rx"] = 0 /\ ret["tx"] = 0
    BY <2>1, <2>2, TwoDirs DEF Frames, StackOf, Active
  <2>4. (Frames /\ StackOf("rx") /\ StackOf("tx"))'
    BY <1>2, <2>1, <2>3, TwoDirs DEF Frames, StackOf, Active, Dirs
  <2> QED
    BY <2>4, StackPartsNext, Zenon
<1> QED
  BY <1>3, <1>4, Zenon

(* The least of two. *)
LEMMA MinOfTwo ==
  ASSUME NEW a \in Nat, NEW b \in Nat
  PROVE  Min({a, b}) \in {a, b} /\ Min({a, b}) <= a /\ Min({a, b}) <= b /\ Min({a, b}) \in Nat
<1>1. \E x \in {a, b} : \A y \in {a, b} : x <= y
  <2>1. CASE a <= b
    BY <2>1
  <2>2. CASE b <= a
    BY <2>2
  <2> QED
    BY <2>1, <2>2
<1> DEFINE m == CHOOSE x \in {a, b} : \A y \in {a, b} : x <= y
<1>2. m \in {a, b} /\ \A y \in {a, b} : m <= y
  BY <1>1, Zenon
<1>3. Min({a, b}) = m
  BY DEF Min
<1> HIDE DEF m
<1> QED
  BY <1>2, <1>3

(* An entry of the array is free for a system call at the top of rx() and  *)
(* tx(): the vector is not empty.                                          *)
LEMMA AskedNat ==
  ASSUME IInv, NEW d \in Dirs, pc = d, ents[d] # << >>
  PROVE  /\ Asked(d) \in Nat \ {0} /\ Asked(d) = Ended(d) - moved[d]
         /\ Ended(d) \in Nat /\ moved[d] \in Nat /\ i[d] = 0 /\ ret[d] = 0
<1>1. Tables /\ TypeOK /\ Books /\ pc # "deleted" /\ Stack
  BY DEF IInv, Dirs
<1>2. i[d] = 0 /\ ret[d] = 0
  BY <1>1, StackFor, Zenon DEF StackOf
<1>3. moved[d] \in Nat
  BY <1>1 DEF Tables
<1>4. Asked(d) = Ended(d) - moved[d] /\ Asked(d) \in Nat \ {0} /\ Ended(d) \in Nat
  BY <1>1, <1>2, AskedIs, Zenon
<1> QED
  BY <1>2, <1>3, <1>4

(* What readv does. *)
LEMMA ReadvCases ==
  ASSUME IInv, Readv
  PROVE  /\ pc = "rx" /\ ents["rx"] # << >>
         /\ \/ \E n \in Nat : /\ Moved("rx", n) /\ n <= Asked("rx") /\ n <= krcv
                              /\ n = krcv \/ n = Asked("rx")
                              /\ krcv' = krcv - n /\ UNCHANGED <<link, edge, nospace, ksnd, rcvd>>
            \/ krcv = 0 /\ link = "up" /\ Again("rx") /\ UNCHANGED kvars
            \/ SysError("read")
<1>1. pc = "rx" /\ ents["rx"] # << >>
  BY Zenon DEF Readv
<1>2. Asked("rx") \in Nat /\ krcv \in Nat
  BY <1>1, AskedNat, TwoDirs DEF IInv, TypeOK
<1> DEFINE n == Min({krcv, Asked("rx")})
<1>3. n \in Nat /\ n <= krcv /\ n <= Asked("rx") /\ (n = krcv \/ n = Asked("rx"))
  BY <1>2, MinOfTwo
<1>4. \/ /\ Moved("rx", n)
         /\ krcv' = krcv - n
         /\ UNCHANGED <<link, edge, nospace, ksnd, rcvd>>
      \/ krcv = 0 /\ link = "up" /\ Again("rx") /\ UNCHANGED kvars
      \/ krcv = 0 /\ link # "up" /\ SysError("read")
  BY Zenon DEF Readv
<1> HIDE DEF n
<1> QED
  BY <1>1, <1>3, <1>4, Zenon

(* What writev does. *)
LEMMA WritevCases ==
  ASSUME IInv, Writev
  PROVE  /\ pc = "tx" /\ ents["tx"] # << >>
         /\ \/ \E n \in Nat : /\ Moved("tx", n) /\ n <= Asked("tx") /\ ksnd + n <= SndBuf
                              /\ ksnd + n = SndBuf \/ n = Asked("tx")
                              /\ link = "up" /\ ksnd' = ksnd + n
                              /\ nospace' = (nospace \/ n < Asked("tx"))
                              /\ UNCHANGED <<link, edge, krcv, rcvd>>
            \/ /\ ksnd = SndBuf /\ link = "up" /\ Again("tx")
               /\ nospace' = TRUE /\ UNCHANGED <<link, edge, ksnd, krcv, rcvd>>
            \/ SysError("write")
<1>1. pc = "tx" /\ ents["tx"] # << >>
  BY Zenon DEF Writev
<1>2. Asked("tx") \in Nat \ {0} /\ ksnd \in Nat /\ SndBuf - ksnd \in Nat /\ SndBuf \in Nat
  <2>1. Asked("tx") \in Nat \ {0}
    BY <1>1, AskedNat, TwoDirs, Zenon
  <2>2. ksnd \in 0 .. SndBuf /\ SndBuf \in Nat
    BY VecAssumption DEF IInv, TypeOK
  <2> QED
    BY <2>1, <2>2
<1> DEFINE n == Min({SndBuf - ksnd, Asked("tx")})
<1>3. n \in Nat /\ n <= SndBuf - ksnd /\ n <= Asked("tx") /\ (n = SndBuf - ksnd \/ n = Asked("tx"))
  BY <1>2, MinOfTwo
<1>4. \/ /\ link = "up" /\ Moved("tx", n)
         /\ ksnd' = ksnd + n
         /\ nospace' = (nospace \/ n < Asked("tx"))
         /\ UNCHANGED <<link, edge, krcv, rcvd>>
      \/ /\ link = "up" /\ n = 0 /\ Again("tx")
         /\ nospace' = TRUE
         /\ UNCHANGED <<link, edge, ksnd, krcv, rcvd>>
      \/ link # "up" /\ SysError("write")
  BY Zenon DEF Writev
<1> HIDE DEF n
<1>5. ksnd + n <= SndBuf /\ (ksnd + n = SndBuf \/ n = Asked("tx")) /\ (n = 0 => ksnd = SndBuf)
  BY <1>2, <1>3
<1> QED
  BY <1>1, <1>3, <1>4, <1>5, Zenon

(* A system call takes rx() or tx() into its loop, or out, or throws.      *)
LEMMA SysCalls ==
  ASSUME IInv, NEW d \in Dirs, (d = "rx" /\ Readv) \/ (d = "tx" /\ Writev)
  PROVE  /\ pc = d /\ ents[d] # << >>
         /\ \/ \E n \in Nat : Moved(d, n) /\ n <= Asked(d)
            \/ Again(d)
            \/ \E e \in {"read", "write"} : SysError(e)
BY ReadvCases, WritevCases, Zenon

-----------------------------------------------------------------------------
(* The stack is kept in order by every step. *)
LEMMA StackPreserved ==
  ASSUME IInv, [Next]_vars
  PROVE  Stack'
<1>1. Stack /\ Tables
  BY Zenon DEF IInv
<1>2. ASSUME NEW d \in Dirs, NothingPending(d) PROVE Stack'
  <2>1. /\ pc = d /\ pc' = to[d] /\ to' = [to EXCEPT ![d] = "none"]
        /\ i' = i /\ ret' = ret /\ inio' = inio
    BY <1>2, Zenon DEF NothingPending, iovars
  <2>2. i[d] = 0 /\ ret[d] = 0
    BY <1>1, <2>1, StackFor, Zenon DEF StackOf
  <2> QED
    BY <2>1, <2>2, StackReturn
<1>3. ASSUME NEW d \in Dirs, Complete(d) PROVE Stack'
  BY <1>3, StackComplete, Zenon
<1>4. ASSUME NEW d \in Dirs, Partial(d) \/ AllComplete(d) PROVE Stack'
  <2>1. pc = Loop(d) /\ \E left : Leave(d, left)
    BY <1>4, Zenon DEF Partial, AllComplete
  <2> QED
    BY <2>1, StackLeave, Zenon
<1>5. ASSUME Connect PROVE Stack'
  <2>1. pc = "new" /\ pc' \in {"idle", "dead"} /\ UNCHANGED <<to, i, ret, inio>>
    BY <1>5, Zenon DEF Connect, Throw
  <2>2. Frames /\ StackOf("rx") /\ StackOf("tx")
    BY <1>1, StackParts, Zenon
  <2>3. (Frames /\ StackOf("rx") /\ StackOf("tx"))'
    BY <2>1, <2>2, TwoDirs DEF Frames, StackOf, Active, Dirs
  <2> QED
    BY <2>3, StackPartsNext, Zenon
<1>6. ASSUME NEW d \in Dirs, (d = "rx" /\ Readv) \/ (d = "tx" /\ Writev) PROVE Stack'
  <2>1. /\ pc = d
        /\ \/ \E n \in Nat : Moved(d, n)
           \/ Again(d)
           \/ \E e \in {"read", "write"} : SysError(e)
    BY <1>6, SysCalls, Zenon
  <2>2. ASSUME NEW n \in Nat, Moved(d, n) PROVE Stack'
    BY <2>1, <2>2, StackMoved, Zenon
  <2>3. ASSUME Again(d) PROVE Stack'
    <3>1. /\ pc' = to[d] /\ to' = [to EXCEPT ![d] = "none"]
          /\ i' = i /\ ret' = ret /\ inio' = inio
      BY <2>3, Zenon DEF Again, iovars
    <3>2. i[d] = 0 /\ ret[d] = 0
      BY <1>1, <2>1, StackFor, Zenon DEF StackOf
    <3> QED
      BY <2>1, <3>1, <3>2, StackReturn
  <2>4. ASSUME NEW e \in {"read", "write"}, SysError(e) PROVE Stack'
    <3>1. pc' = "dead" /\ UNCHANGED <<to, i, ret, inio>>
      BY <2>4, Zenon DEF SysError, Throw
    <3> QED
      BY <1>1, <3>1, StackThrow, Zenon
  <2> QED
    BY <2>1, <2>2, <2>3, <2>4, Zenon
<1>7. ASSUME EpollWait \/ ConnectDone \/ Deliver \/ Arrive \/ PeerClose \/ UNCHANGED vars PROVE Stack'
  <2>1. UNCHANGED <<pc, to, i, ret, inio>>
    BY <1>7, Zenon DEF EpollWait, ConnectDone, Deliver, Arrive, PeerClose, sockvars, vars
  <2> QED
    BY <1>1, <2>1, StackSame, Zenon
<1> QED
  BY <1>2, <1>3, <1>4, <1>5, <1>6, <1>7, StackIo, StackUserPut, StackStart, TwoDirs, Zenon
  DEF Next, Thread, User, Read, Write

-----------------------------------------------------------------------------
(* The references. *)

(* The references are one for the user, one for run_io and one for each loop. *)
LEMMA RefsSumNext ==
  ASSUME (/\ pc \notin {"deleted", "dead"} => ref = Refs
          /\ pc = "deleted" => ref = 0 /\ ~ held)'
  PROVE  RefsHeld'
<1>1. (RefsHeld <=> /\ pc \notin {"deleted", "dead"} => ref = Refs
                    /\ pc = "deleted" => ref = 0 /\ ~ held)'
  BY RefsSum, PTL
<1> QED
  BY <1>1, Zenon

(* The references, by a direction and the other. *)
LEMMA RefsFor ==
  ASSUME NEW d \in Dirs
  PROVE  /\ Refs = One(held) + One(inio) + One(InLoop(d)) + One(InLoop(Other(d)))
         /\ Refs' = One(held') + One(inio') + One(InLoop(d)') + One(InLoop(Other(d))')
<1>1. One(InLoop("rx")) \in {0, 1} /\ One(InLoop("tx")) \in {0, 1} /\ One(held) \in {0, 1} /\ One(inio) \in {0, 1}
  BY DEF One
<1>2. One(InLoop("rx")') \in {0, 1} /\ One(InLoop("tx")') \in {0, 1} /\ One(held') \in {0, 1} /\ One(inio') \in {0, 1}
  BY DEF One
<1>3. /\ Refs = One(held) + One(inio) + One(InLoop("rx")) + One(InLoop("tx"))
      /\ Refs' = One(held') + One(inio') + One(InLoop("rx")') + One(InLoop("tx")')
  BY DEF Refs
<1>4. CASE d = "rx"
  <2>1. Other(d) = "tx"
    BY <1>4, TwoDirs
  <2> QED
    BY <1>3, <1>4, <2>1, Zenon
<1>5. CASE d = "tx"
  <2>1. Other(d) = "rx"
    BY <1>5, TwoDirs
  <2>2. /\ Refs = One(held) + One(inio) + One(InLoop("tx")) + One(InLoop("rx"))
        /\ Refs' = One(held') + One(inio') + One(InLoop("tx")') + One(InLoop("rx")')
    BY <1>1, <1>2, <1>3
  <2> QED
    BY <1>5, <2>1, <2>2, Zenon
<1> QED
  BY <1>4, <1>5, Zenon DEF Dirs

(* A step that moves no reference. *)
LEMMA RefsSame ==
  ASSUME RefsHeld, NEW d \in Dirs, pc \notin {"deleted", "dead"}, pc' # "deleted",
         UNCHANGED <<ref, held, inio>>,
         InLoop(d)' <=> InLoop(d), InLoop(Other(d))' <=> InLoop(Other(d))
  PROVE  RefsHeld'
<1>1. ref = Refs
  BY RefsSum, Zenon
<1>2. One(held') = One(held) /\ One(inio') = One(inio)
  BY Zenon
<1>3. One(InLoop(d)') = One(InLoop(d)) /\ One(InLoop(Other(d))') = One(InLoop(Other(d)))
  BY DEF One
<1>4. Refs' = Refs
  BY <1>2, <1>3, RefsFor
<1>5. ref' = Refs'
  BY <1>1, <1>4, Zenon
<1> QED
  BY <1>5, RefsSumNext, Zenon

(* At the top of rx() and in its loop no frame of the same is below. *)
LEMMA NotBelow ==
  ASSUME IInv, NEW d \in Dirs, pc \in {d, Loop(d)}
  PROVE  to[Other(d)] # Loop(d) /\ to[d] # "none" /\ to[d] # Loop(d) /\ pc \notin {"deleted", "dead"}
         /\ pc # Loop(Other(d)) /\ to[d] \in Returns /\ to[d] \notin {"deleted", "dead"}
<1>1. StackOf(d) /\ StackOf(Other(d))
  BY StackFor, Zenon DEF IInv
<1>2. pc \notin {Other(d), Loop(Other(d)), "dead", "deleted"} /\ Other(Other(d)) = d
  BY TwoDirs DEF Dirs
<1>3. to[d] \in Returns
  BY DEF IInv, Tables
<1>4. to[d] \notin {"deleted", "dead"}
  BY <1>3 DEF Returns
<1> QED
  BY <1>1, <1>2, <1>3, <1>4 DEF StackOf, Active

(* A return from rx() or tx() that has not called get(). *)
LEMMA RefsReturn ==
  ASSUME IInv, NEW d \in Dirs, pc = d, pc' = to[d], to' = [to EXCEPT ![d] = "none"],
         UNCHANGED <<ref, held, inio>>
  PROVE  RefsHeld'
<1> DEFINE o == Other(d)
<1>1. Tables /\ RefsHeld /\ "none" \in Returns
  BY DEF IInv, Returns
<1>2. to'[d] = "none" /\ to'[o] = to[o]
  BY <1>1, ReturnTo, Zenon
<1>3. /\ to[o] # Loop(d) /\ to[d] # "none" /\ to[d] # Loop(d) /\ pc \notin {"deleted", "dead"}
      /\ pc # Loop(o) /\ to[d] \notin {"deleted", "dead"} /\ pc # Loop(d)
  BY NotBelow, TwoDirs DEF Dirs
<1>4. InLoop(d)' <=> InLoop(d)
  BY <1>2, <1>3, Zenon DEF InLoop
<1>5. InLoop(o)' <=> InLoop(o)
  BY <1>2, <1>3, TwoDirs DEF InLoop, Dirs
<1> QED
  BY <1>1, <1>3, <1>4, <1>5, RefsSame, Zenon

(* get() counts the loop that begins. *)
LEMMA RefsMoved ==
  ASSUME IInv, NEW d \in Dirs, NEW n \in Nat, pc = d, Moved(d, n)
  PROVE  RefsHeld'
<1> DEFINE o == Other(d)
<1>1. RefsHeld /\ ref \in Nat
  BY DEF IInv, TypeOK
<1>2. pc' = Loop(d) /\ to' = to /\ ref' = ref + 1 /\ held' = held /\ inio' = inio
  BY Zenon DEF Moved, iovars
<1>3. to[o] # Loop(d) /\ pc # Loop(o) /\ pc # Loop(d) /\ Loop(d) # Loop(o) /\ o \in Dirs /\ Other(o) = d
      /\ pc \notin {"deleted", "dead"} /\ pc' \notin {"deleted", "dead"}
  BY <1>2, NotBelow, TwoDirs DEF Dirs
<1>4. ~ InLoop(d) /\ InLoop(d)'
  BY <1>2, <1>3 DEF InLoop
<1>5. InLoop(o)' <=> InLoop(o)
  BY <1>2, <1>3, Zenon DEF InLoop
<1>6. One(InLoop(d)) = 0 /\ One(InLoop(d)') = 1 /\ One(InLoop(o)') = One(InLoop(o))
  BY <1>4, <1>5 DEF One
<1>7. One(held) \in {0, 1} /\ One(inio) \in {0, 1} /\ One(InLoop(o)) \in {0, 1}
      /\ One(held') = One(held) /\ One(inio') = One(inio)
  BY <1>2 DEF One
<1>8. ref = Refs
  BY <1>1, <1>3, RefsSum, Zenon
<1>9. ref' = Refs'
  BY <1>1, <1>2, <1>6, <1>7, <1>8, RefsFor
<1> QED
  BY <1>3, <1>9, RefsSumNext, Zenon

(* put() discounts the loop that ends. *)
LEMMA RefsLeave ==
  ASSUME IInv, NEW d \in Dirs, NEW left, pc = Loop(d), Leave(d, left)
  PROVE  RefsHeld'
<1> DEFINE o == Other(d)
<1>1. RefsHeld /\ ref \in Nat /\ Tables /\ "none" \in Returns /\ TypeOK
  BY DEF IInv, TypeOK, Returns
<1>2. to' = [to EXCEPT ![d] = "none"] /\ inio' = inio /\ held' = held /\ Put([ents EXCEPT ![d] = left], to[d])
  BY Zenon DEF Leave, iovars
<1>3. /\ ref' = ref - 1 /\ (ref = 1 => pc' = "deleted") /\ (ref # 1 => pc' = to[d])
  BY <1>1, <1>2, PutEffect, Zenon
<1>4. to'[d] = "none" /\ to'[o] = to[o]
  BY <1>1, <1>2, ReturnTo, Zenon
<1>5. /\ to[o] # Loop(d) /\ to[d] # "none" /\ to[d] # Loop(d) /\ pc \notin {"deleted", "dead"}
      /\ pc # Loop(o) /\ to[d] \notin {"deleted", "dead"} /\ Loop(d) # Loop(o) /\ o \in Dirs /\ Other(o) = d
  BY NotBelow, TwoDirs
<1>6. CASE ref = 1
  <2>1. ~ held
    BY <1>6, LastRef, Zenon
  <2>2. ref' = 0 /\ pc' = "deleted" /\ ~ held'
    BY <1>2, <1>3, <1>6, <2>1
  <2> QED
    BY <2>2, RefsSumNext
<1>7. CASE ref # 1
  <2>1. pc' = to[d]
    BY <1>3, <1>7
  <2>2. InLoop(d) /\ ~ InLoop(d)'
    BY <1>4, <1>5, <2>1, Zenon DEF InLoop
  <2>3. InLoop(o)' <=> InLoop(o)
    BY <1>4, <1>5, <2>1, TwoDirs DEF InLoop
  <2>4. One(InLoop(d)) = 1 /\ One(InLoop(d)') = 0 /\ One(InLoop(o)') = One(InLoop(o))
    BY <2>2, <2>3 DEF One
  <2>5. One(held) \in {0, 1} /\ One(inio) \in {0, 1} /\ One(InLoop(o)) \in {0, 1}
        /\ One(held') = One(held) /\ One(inio') = One(inio)
    BY <1>2 DEF One
  <2>6. ref = Refs
    BY <1>1, <1>5, RefsSum, Zenon
  <2>7. ref' = Refs'
    BY <1>1, <1>3, <2>4, <2>5, <2>6, RefsFor
  <2> QED
    BY <1>5, <2>1, <2>7, RefsSumNext, Zenon
<1> QED
  BY <1>6, <1>7, Zenon

(* A callback that starts an operation keeps its own loop counted. *)
LEMMA RefsStart ==
  ASSUME IInv, NEW d \in Dirs, NEW len \in Lens, Start(d, len)
  PROVE  RefsHeld'
<1> DEFINE o == Other(d)
<1>1. RefsHeld /\ Tables /\ Stack
  BY Zenon DEF IInv
<1>2. UNCHANGED <<ref, held, inio>>
  BY Zenon DEF Start
<1>3. pc = "idle" \/ (pc = Loop(o) /\ ~ Active(d))
  BY Zenon DEF Start
<1>4. ~ Active(d) /\ pc \notin {"deleted", "dead"} /\ pc \in Returns /\ pc # Loop(d) /\ pc # d
  BY <1>1, <1>3, StackFor, TwoDirs DEF Frames, Returns, Dirs
<1>5. \/ pc' = "dead"
      \/ pc' = pc /\ to' = to
      \/ pc' = d /\ to' = [to EXCEPT ![d] = pc]
  BY Zenon DEF Start, Throw
<1>6. CASE pc' = "dead"
  BY <1>6, RefsSumNext
<1>7. CASE pc' = pc /\ to' = to
  <2>1. pc' # "deleted"
    BY <1>4, <1>7
  <2>2. (InLoop(d)' <=> InLoop(d)) /\ (InLoop(o)' <=> InLoop(o))
    BY <1>7, Zenon DEF InLoop
  <2> QED
    BY <1>1, <1>2, <1>4, <2>1, <2>2, RefsSame, Zenon
<1>8. CASE pc' = d /\ to' = [to EXCEPT ![d] = pc]
  <2>1. to'[d] = pc /\ to'[o] = to[o]
    BY <1>1, <1>4, <1>8, ReturnTo, Zenon
  <2>2. pc' # "deleted" /\ pc' # Loop(d) /\ pc' # Loop(o) /\ Other(o) = d /\ Loop(o) # "none"
    BY <1>8, TwoDirs DEF Dirs
  <2>3. InLoop(d)' <=> InLoop(d)
    BY <1>4, <2>1, <2>2, Zenon DEF InLoop
  <2>4. InLoop(o)' <=> InLoop(o)
    BY <1>4, <2>1, <2>2 DEF InLoop, Active
  <2> QED
    BY <1>1, <1>2, <1>4, <2>2, <2>3, <2>4, RefsSame, Zenon
<1> QED
  BY <1>5, <1>6, <1>7, <1>8, Zenon

(* Outside rx() and tx() there is no loop. *)
LEMMA NoLoops ==
  ASSUME IInv, pc \in {"new", "idle", "io_out", "io_end"}
  PROVE  to["rx"] = "none" /\ to["tx"] = "none" /\ ~ InLoop("rx") /\ ~ InLoop("tx")
<1>1. to["rx"] = "none" /\ to["tx"] = "none"
  BY StackParts, TwoDirs DEF IInv, Frames, Active
<1> QED
  BY <1>1, TwoDirs DEF InLoop

(* run_io counts itself. *)
LEMMA RefsIo ==
  ASSUME IInv, RunIo \/ IoOut \/ IoEnd
  PROVE  RefsHeld'
<1>1. RefsHeld /\ Tables /\ ref \in Nat /\ to \in [Dirs -> Returns] /\ TypeOK /\ Stack
  BY DEF IInv, TypeOK, Tables
<1>2. pc \in {"idle", "io_out", "io_end"} /\ held' = held
  BY DEF RunIo, IoOut, IoEnd, uservars
<1>3. to["rx"] = "none" /\ to["tx"] = "none" /\ ~ InLoop("rx") /\ ~ InLoop("tx")
  BY <1>2, NoLoops
<1>4. ref = Refs
  BY <1>1, <1>2, RefsSum
<1>5. ref = One(held) + One(inio)
  <2>1. One(InLoop("rx")) = 0 /\ One(InLoop("tx")) = 0 /\ One(held) \in {0, 1} /\ One(inio) \in {0, 1}
    BY <1>3 DEF One
  <2> QED
    BY <1>4, <2>1 DEF Refs
<1>6. ASSUME pc' \notin {"deleted", "dead"}, ref' = One(held) + One(inio'), ~ InLoop("rx")', ~ InLoop("tx")'
      PROVE  RefsHeld'
  <2>1. One(InLoop("rx")') = 0 /\ One(InLoop("tx")') = 0 /\ One(held') = One(held) /\ One(held) \in {0, 1} /\ One(inio') \in {0, 1}
    BY <1>2, <1>6 DEF One
  <2>2. Refs' = One(held') + One(inio') + One(InLoop("rx")') + One(InLoop("tx")')
    BY DEF Refs
  <2>3. ref' = Refs'
    BY <1>6, <2>1, <2>2
  <2> QED
    BY <1>6, <2>3, RefsSumNext, Zenon
<1>7. CASE RunIo
  <2>1. ref' = ref + 1 /\ inio' = TRUE /\ pc = "idle"
    BY <1>7 DEF RunIo, IoRef
  <2>2. ~ inio
    BY <1>1, <2>1, StackParts, Zenon DEF Frames
  <2>3. ref' = One(held) + One(inio')
    <3>1. One(inio) = 0 /\ One(inio') = 1 /\ One(held) \in {0, 1}
      BY <2>1, <2>2 DEF One
    <3> QED
      BY <1>5, <2>1, <3>1
  <2>4. /\ pc' \in {"rx", "io_out"}
        /\ to' = to \/ to' = [to EXCEPT !["rx"] = "io_out"]
    BY <1>7, Zenon DEF RunIo
  <2>5. to'["rx"] \in {"none", "io_out"} /\ to'["tx"] = "none"
    BY <1>1, <1>3, <2>4, TwoDirs
  <2>6. pc' \notin {"deleted", "dead"} /\ ~ InLoop("rx")' /\ ~ InLoop("tx")'
    BY <2>4, <2>5, TwoDirs DEF InLoop
  <2> QED
    BY <1>6, <2>3, <2>6, Zenon
<1>8. CASE IoOut
  <2>1. ref' = ref /\ inio' = inio
    BY <1>8, Zenon DEF IoOut
  <2>2. \/ pc' = "io_end" /\ to' = to
        \/ pc' = "dead" /\ to' = to
        \/ pc' = "tx" /\ to' = [to EXCEPT !["tx"] = "io_end"]
    BY <1>8, Zenon DEF IoOut, Throw
  <2>3. to'["tx"] \in {"none", "io_end"} /\ to'["rx"] = "none"
    BY <1>1, <1>3, <2>2, TwoDirs
  <2>4. pc' # "deleted" /\ ~ InLoop("rx")' /\ ~ InLoop("tx")'
    BY <2>2, <2>3, TwoDirs DEF InLoop
  <2>5. CASE pc' = "dead"
    BY <2>5, RefsSumNext
  <2>6. CASE pc' # "dead"
    <3>1. ref' = One(held) + One(inio')
      BY <1>5, <2>1
    <3> QED
      BY <1>6, <2>4, <2>6, <3>1
  <2> QED
    BY <2>5, <2>6, Zenon
<1>9. CASE IoEnd
  <2>1. inio' = FALSE /\ to' = to /\ Put(ents, "idle") /\ pc = "io_end"
    BY <1>9, Zenon DEF IoEnd
  <2>2. ref' = ref - 1 /\ (ref = 1 => pc' = "deleted") /\ (ref # 1 => pc' = "idle")
    BY <1>1, <2>1, PutEffect, Zenon
  <2>3. inio
    BY <1>1, <2>1, StackParts, Zenon DEF Frames
  <2>4. /\ One(inio) = 1 /\ One(inio') = 0 /\ One(held) \in {0, 1}
        /\ held => One(held) = 1
    BY <2>1, <2>3 DEF One
  <2>5. ref' = One(held) + One(inio') /\ ref = One(held) + 1
    BY <1>5, <2>2, <2>4
  <2>6. CASE ref = 1
    <3>1. ref' = 0 /\ ~ held' /\ pc' = "deleted"
      BY <1>2, <2>2, <2>4, <2>5, <2>6
    <3> QED
      BY <3>1, RefsSumNext
  <2>7. CASE ref # 1
    <3>1. pc' = "idle"
      BY <2>2, <2>7
    <3>2. ~ InLoop("rx")' /\ ~ InLoop("tx")'
      BY <1>3, <2>1, <3>1, TwoDirs DEF InLoop
    <3> QED
      BY <1>6, <2>5, <3>1, <3>2
  <2> QED
    BY <2>6, <2>7, Zenon
<1> QED
  BY <1>7, <1>8, <1>9, Zenon

(* The user's put() gives back the reference of the user. *)
LEMMA RefsUserPut ==
  ASSUME IInv, UserPut
  PROVE  RefsHeld' /\ held /\ ref \in Nat \ {0}
<1>1. RefsHeld /\ TypeOK /\ ref \in Nat
  BY DEF IInv, TypeOK
<1>2. held /\ held' = FALSE /\ Put(ents, pc) /\ (pc = "idle" \/ InCallback)
  BY Zenon DEF UserPut
<1>3. /\ ref = 1 => pc = "idle" /\ pc' = "deleted"
      /\ ref # 1 => pc' = pc
      /\ UNCHANGED <<to, i, ret, inio>>
  BY UserLast, Zenon
<1>4. ref' = ref - 1
  BY <1>1, <1>2, PutEffect, Zenon
<1>5. pc \notin {"deleted", "dead"}
  BY <1>2, TwoDirs DEF InCallback
<1>6. ref = Refs
  BY <1>1, <1>5, RefsSum, Zenon
<1>7. /\ One(held) = 1 /\ One(held') = 0 /\ One(inio) \in {0, 1} /\ One(InLoop("rx")) \in {0, 1}
      /\ One(InLoop("tx")) \in {0, 1} /\ One(inio') = One(inio)
  BY <1>2, <1>3 DEF One
<1>8. ref \in Nat \ {0}
  BY <1>1, <1>6, <1>7 DEF Refs
<1>9. CASE ref = 1
  <2>1. ref' = 0 /\ ~ held' /\ pc' = "deleted"
    BY <1>2, <1>3, <1>4, <1>9
  <2> QED
    BY <1>2, <1>8, <2>1, RefsSumNext
<1>10. CASE ref # 1
  <2>1. (InLoop("rx")' <=> InLoop("rx")) /\ (InLoop("tx")' <=> InLoop("tx")) /\ pc' \notin {"deleted", "dead"}
    BY <1>3, <1>5, <1>10, Zenon DEF InLoop
  <2>2. One(InLoop("rx")') = One(InLoop("rx")) /\ One(InLoop("tx")') = One(InLoop("tx"))
    BY <2>1 DEF One
  <2>3. Refs' = One(held') + One(inio') + One(InLoop("rx")') + One(InLoop("tx")')
    BY DEF Refs
  <2>4. ref' = Refs'
    BY <1>1, <1>4, <1>6, <1>7, <2>2, <2>3 DEF Refs
  <2> QED
    BY <1>2, <1>8, <2>1, <2>4, RefsSumNext, Zenon
<1> QED
  BY <1>9, <1>10, Zenon

(* Every step keeps the count of references. *)
LEMMA RefsPreserved ==
  ASSUME IInv, [Next]_vars
  PROVE  RefsHeld'
<1>1. RefsHeld /\ Tables /\ "rx" \in Dirs
  BY TwoDirs, Zenon DEF IInv
<1>2. ASSUME NEW d \in Dirs, NothingPending(d) PROVE RefsHeld'
  <2>1. /\ pc = d /\ pc' = to[d] /\ to' = [to EXCEPT ![d] = "none"]
        /\ UNCHANGED <<ref, held, inio>>
    BY <1>2, Zenon DEF NothingPending, iovars, uservars
  <2> QED
    BY <2>1, RefsReturn
<1>3. ASSUME NEW d \in Dirs, Complete(d) PROVE RefsHeld'
  <2>1. pc = Loop(d) /\ UNCHANGED <<pc, to, ref, held, inio>>
    BY <1>3, Zenon DEF Complete, iovars
  <2>2. (InLoop(d)' <=> InLoop(d)) /\ (InLoop(Other(d))' <=> InLoop(Other(d)))
    BY <2>1, Zenon DEF InLoop
  <2>3. pc \notin {"deleted", "dead"} /\ pc' # "deleted"
    BY <2>1, TwoDirs
  <2> QED
    BY <1>1, <2>1, <2>2, <2>3, RefsSame, Zenon
<1>4. ASSUME NEW d \in Dirs, Partial(d) \/ AllComplete(d) PROVE RefsHeld'
  <2>1. pc = Loop(d) /\ \E left : Leave(d, left)
    BY <1>4, Zenon DEF Partial, AllComplete
  <2> QED
    BY <2>1, RefsLeave, Zenon
<1>5. ASSUME Connect PROVE RefsHeld'
  <2>1. pc = "new" /\ pc' \in {"idle", "dead"} /\ UNCHANGED <<to, ref, held, inio>>
    BY <1>5, Zenon DEF Connect, Throw, uservars
  <2>2. (InLoop("rx")' <=> InLoop("rx")) /\ (InLoop("tx")' <=> InLoop("tx"))
    BY <2>1, TwoDirs DEF InLoop
  <2>3. pc \notin {"deleted", "dead"} /\ pc' # "deleted"
    BY <2>1
  <2> QED
    BY <1>1, <2>1, <2>2, <2>3, RefsSame, TwoDirs, Zenon
<1>6. ASSUME NEW d \in Dirs, (d = "rx" /\ Readv) \/ (d = "tx" /\ Writev) PROVE RefsHeld'
  <2>1. /\ pc = d
        /\ \/ \E n \in Nat : Moved(d, n)
           \/ Again(d)
           \/ \E e \in {"read", "write"} : SysError(e)
    BY <1>6, SysCalls, Zenon
  <2>2. ASSUME NEW n \in Nat, Moved(d, n) PROVE RefsHeld'
    BY <2>1, <2>2, RefsMoved, Zenon
  <2>3. ASSUME Again(d) PROVE RefsHeld'
    <3>1. /\ pc' = to[d] /\ to' = [to EXCEPT ![d] = "none"]
          /\ UNCHANGED <<ref, held, inio>>
      BY <2>3, Zenon DEF Again, iovars, uservars
    <3> QED
      BY <2>1, <3>1, RefsReturn
  <2>4. ASSUME NEW e \in {"read", "write"}, SysError(e) PROVE RefsHeld'
    <3>1. pc' = "dead"
      BY <2>4, Zenon DEF SysError, Throw
    <3> QED
      BY <3>1, RefsSumNext
  <2> QED
    BY <2>1, <2>2, <2>3, <2>4, Zenon
<1>7. ASSUME EpollWait \/ ConnectDone \/ Deliver \/ Arrive \/ PeerClose \/ UNCHANGED vars PROVE RefsHeld'
  <2>1. UNCHANGED <<pc, to, ref, held, inio>>
    BY <1>7, Zenon DEF EpollWait, ConnectDone, Deliver, Arrive, PeerClose, sockvars, vars, uservars
  <2>2. Refs' = Refs
    BY <2>1 DEF Refs, One, InLoop
  <2> QED
    BY <1>1, <2>1, <2>2, RefsSum, RefsSumNext, Zenon
<1> QED
  BY <1>2, <1>3, <1>4, <1>5, <1>6, <1>7, RefsIo, RefsUserPut, RefsStart, TwoDirs, Zenon
  DEF Next, Thread, User, Read, Write

-----------------------------------------------------------------------------
(* The tables and their types. *)

(* The entries that are left. *)
LEMMA RestSeq ==
  ASSUME IInv, NEW d \in Dirs, i[d] < Len(ents[d]), Short(d)
  PROVE  /\ Rest(d) \in Seq(Entry) /\ Len(Rest(d)) = Len(ents[d]) - i[d]
         /\ Rest(d)[1] = [id |-> ents[d][i[d] + 1].id, len |-> ents[d][i[d] + 1].len - ret[d]]
         /\ \A k \in 2 .. Len(ents[d]) - i[d] : Rest(d)[k] = ents[d][i[d] + k]
<1> DEFINE s == ents[d]
           j == i[d] + 1
           e == [id |-> s[j].id, len |-> s[j].len - ret[d]]
           t == [s EXCEPT ![j] = e]
<1>1. s \in Seq(Entry) /\ i[d] \in Nat /\ ret[d] \in Nat /\ Len(s) \in Nat
  BY LenProperties DEF IInv, Tables
<1>2. j \in 1 .. Len(s)
  BY <1>1
<1>3. s[j] \in Entry
  BY <1>1, <1>2, ElementOfSeq, Zenon
<1>4. ret[d] < s[j].len
  BY DEF Short
<1>5. e \in Entry
  <2>1. s[j].id \in 1 .. NOps /\ s[j].len \in Nat
    BY <1>3 DEF Entry
  <2>2. s[j].len - ret[d] \in Nat \ {0}
    BY <1>1, <1>4, <2>1
  <2> QED
    BY <2>1, <2>2 DEF Entry
<1>6. [s EXCEPT ![j].len = @ - ret[d]] = t
  <2>1. ASSUME NEW r \in Entry PROVE [r EXCEPT !.len = @ - ret[d]] = [id |-> r.id, len |-> r.len - ret[d]]
    BY DEF Entry
  <2>2. [s EXCEPT ![j].len = @ - ret[d]] = [s EXCEPT ![j] = [s[j] EXCEPT !.len = @ - ret[d]]]
    BY Zenon
  <2> QED
    BY <1>3, <2>1, <2>2, Zenon
<1>7. Rest(d) = SubSeq(t, j, Len(s))
  BY <1>6, Zenon DEF Rest
<1> HIDE DEF e, t
<1>8. /\ t \in Seq(Entry) /\ Len(t) = Len(s) /\ t[j] = e
      /\ \A k \in 1 .. Len(s) : k # j => t[k] = s[k]
  BY <1>1, <1>2, <1>5 DEF t
<1> HIDE DEF s, j
<1>9. /\ SubSeq(t, j, Len(s)) \in Seq(Entry) /\ Len(SubSeq(t, j, Len(s))) = Len(s) - j + 1
      /\ \A k \in 1 .. Len(s) - j + 1 : SubSeq(t, j, Len(s))[k] = t[j + k - 1]
  BY <1>1, <1>2, <1>8
<1>10. j = i[d] + 1 /\ s = ents[d]
  BY DEF j, s
<1>11. Len(s) - j + 1 = Len(s) - i[d]
  BY <1>1, <1>10
<1>12. Rest(d)[1] = e
  <2>1. 1 \in 1 .. Len(s) - j + 1 /\ j + 1 - 1 = j
    BY <1>1, <1>2
  <2> QED
    BY <1>7, <1>8, <1>9, <2>1
<1>13. ASSUME NEW k \in 2 .. Len(s) - i[d] PROVE Rest(d)[k] = s[i[d] + k]
  <2> DEFINE a == i[d]
             m == Len(s)
  <2>1. a \in Nat /\ m \in Nat /\ j = a + 1 /\ k \in 2 .. m - a
    BY <1>1, <1>10
  <2> HIDE DEF a, m
  <2>2. k \in 1 .. m - j + 1 /\ j + k - 1 = a + k /\ a + k \in 1 .. m /\ a + k # j
    BY <2>1
  <2>3. k \in 1 .. Len(s) - j + 1 /\ j + k - 1 = i[d] + k /\ i[d] + k \in 1 .. Len(s) /\ i[d] + k # j
    BY <2>2 DEF a, m
  <2> QED
    BY <1>7, <1>8, <1>9, <2>3
<1> QED
  BY <1>7, <1>9, <1>10, <1>11, <1>12, <1>13 DEF e

(* One more entry, and where it ends. *)
LEMMA StartSeq ==
  ASSUME IInv, NEW d \in Dirs, NEW len \in Lens, Start(d, len), ~ (Len(ents[d]) >= MAX_SGS)
  PROVE  /\ Ended(d) \in Nat /\ Len(ends[d]) \in Nat /\ Len(ends[d]) < NOps /\ len \in Nat \ {0}
         /\ ends' \in [Dirs -> Seq(Nat)] /\ ends'[d] = Append(ends[d], Ended(d) + len)
         /\ ends'[Other(d)] = ends[Other(d)]
         /\ ents' \in [Dirs -> Seq(Entry)]
         /\ ents'[d] = Append(ents[d], [id |-> Len(ends[d]) + 1, len |-> len])
         /\ ents'[Other(d)] = ents[Other(d)]
<1>1. /\ ends \in [Dirs -> Seq(Nat)] /\ ents \in [Dirs -> Seq(Entry)]
      /\ ends[d] \in Seq(Nat) /\ ents[d] \in Seq(Entry) /\ Len(ends[d]) \in Nat /\ Len(ents[d]) \in Nat
  BY LenProperties DEF IInv, Tables
<1>2. /\ ends' = [ends EXCEPT ![d] = Append(@, Ended(d) + len)]
      /\ ents' = [ents EXCEPT ![d] = Append(@, [id |-> Len(ends'[d]), len |-> len])]
      /\ Len(ends[d]) < NOps
  BY Zenon DEF Start
<1>3. len \in Nat \ {0} /\ NOps \in Nat
  BY VecAssumption
<1>4. Ended(d) \in Nat
  <2>1. CASE ends[d] = << >>
    BY <2>1 DEF Ended
  <2>2. CASE ends[d] # << >>
    <3>1. Len(ends[d]) \in 1 .. Len(ends[d])
      BY <1>1, <2>2, EmptySeq
    <3>2. ends[d][Len(ends[d])] \in Nat
      BY <1>1, <3>1, ElementOfSeq, Zenon
    <3> QED
      BY <2>2, <3>2, Zenon DEF Ended
  <2> QED
    BY <2>1, <2>2
<1>5. Ended(d) + len \in Nat
  BY <1>3, <1>4
<1>6. Append(ends[d], Ended(d) + len) \in Seq(Nat) /\ Len(Append(ends[d], Ended(d) + len)) = Len(ends[d]) + 1
  <2> DEFINE v == Ended(d) + len
  <2> HIDE DEF v
  <2>1. v \in Nat
    BY <1>5 DEF v
  <2>2. Append(ends[d], v) \in Seq(Nat) /\ Len(Append(ends[d], v)) = Len(ends[d]) + 1
    BY <1>1, <2>1
  <2> QED
    BY <2>2 DEF v
<1>7. ends' \in [Dirs -> Seq(Nat)] /\ ends'[d] = Append(ends[d], Ended(d) + len) /\ ends'[Other(d)] = ends[Other(d)]
  <2> DEFINE a == Append(ends[d], Ended(d) + len)
  <2>1. ends' = [ends EXCEPT ![d] = a] /\ a \in Seq(Nat)
    BY <1>2, <1>6, Zenon
  <2> HIDE DEF a
  <2>2. ends' \in [Dirs -> Seq(Nat)] /\ ends'[d] = a /\ ends'[Other(d)] = ends[Other(d)]
    BY <1>1, <2>1, TwoDirs
  <2> QED
    BY <2>2 DEF a
<1>8. Len(ends'[d]) = Len(ends[d]) + 1
  BY <1>6, <1>7, Zenon
<1> DEFINE e == [id |-> Len(ends[d]) + 1, len |-> len]
<1>9. e \in Entry
  BY <1>1, <1>2, <1>3 DEF Entry
<1>10. ents' = [ents EXCEPT ![d] = Append(ents[d], e)]
  BY <1>2, <1>8, Zenon
<1> HIDE DEF e
<1>11. Append(ents[d], e) \in Seq(Entry)
  BY <1>1, <1>9
<1>12. ents' \in [Dirs -> Seq(Entry)] /\ ents'[d] = Append(ents[d], e) /\ ents'[Other(d)] = ents[Other(d)]
  BY <1>1, <1>10, <1>11, TwoDirs
<1> QED
  BY <1>1, <1>2, <1>3, <1>4, <1>7, <1>12 DEF e

(* What a step does to the state, by the direction it works on. *)
(* A step that leaves the tables alone. *)
LEMMA TablesSame ==
  ASSUME Tables, UNCHANGED <<rdy, ents, i, ret, to, ends, moved, done>>
  PROVE  Tables'
BY Zenon DEF Tables

(* What ~Sock tells: the callbacks so far, then one for each entry. *)
LEMMA CancelledType ==
  ASSUME Tables, NEW es \in [Dirs -> Seq(Entry)]
  PROVE  /\ Cancelled(es) \in [Dirs -> Seq(Answer)]
         /\ \A d \in Dirs : /\ Len(Cancelled(es)[d]) = Len(done[d]) + Len(es[d])
                            /\ \A k \in 1 .. Len(done[d]) : Cancelled(es)[d][k] = done[d][k]
                            /\ \A k \in 1 .. Len(es[d]) :
                                 Cancelled(es)[d][Len(done[d]) + k] = [id |-> es[d][k].id, status |-> "EIO"]
<1>1. ASSUME NEW s \in Seq(Entry)
      PROVE  /\ Ids(s) \in Seq(Answer) /\ Len(Ids(s)) = Len(s)
             /\ \A k \in 1 .. Len(s) : Ids(s)[k] = [id |-> s[k].id, status |-> "EIO"]
  <2>1. DOMAIN s = 1 .. Len(s) /\ Len(s) \in Nat /\ \A k \in 1 .. Len(s) : s[k] \in Entry
    BY LenProperties
  <2>2. \A k \in 1 .. Len(s) : [id |-> s[k].id, status |-> "EIO"] \in Answer
    BY <2>1, VecAssumption DEF Entry, Answer
  <2>3. Ids(s) = [k \in 1 .. Len(s) |-> [id |-> s[k].id, status |-> "EIO"]]
    BY <2>1 DEF Ids
  <2> QED
    BY <2>1, <2>2, <2>3
<1>2. ASSUME NEW d \in Dirs
      PROVE  /\ done[d] \o Ids(es[d]) \in Seq(Answer)
             /\ Len(done[d] \o Ids(es[d])) = Len(done[d]) + Len(es[d])
             /\ \A k \in 1 .. Len(done[d]) : (done[d] \o Ids(es[d]))[k] = done[d][k]
             /\ \A k \in 1 .. Len(es[d]) :
                   (done[d] \o Ids(es[d]))[Len(done[d]) + k] = [id |-> es[d][k].id, status |-> "EIO"]
  <2>1. es[d] \in Seq(Entry) /\ done[d] \in Seq(Answer)
    BY DEF Tables
  <2> DEFINE a == done[d]
             b == Ids(es[d])
             n == Len(es[d])
  <2>2. b \in Seq(Answer) /\ Len(b) = n /\ \A k \in 1 .. n : b[k] = [id |-> es[d][k].id, status |-> "EIO"]
    BY <1>1, <2>1, Zenon
  <2>3. n \in Nat
    BY <2>1, LenProperties
  <2> HIDE DEF a, b, n
  <2>4. a \in Seq(Answer)
    BY <2>1 DEF a
  <2>5. a \o b \in Seq(Answer) /\ Len(a \o b) = Len(a) + n
        /\ (\A k \in 1 .. Len(a) : (a \o b)[k] = a[k])
        /\ (\A k \in 1 .. n : (a \o b)[Len(a) + k] = b[k])
    <3>1. /\ a \o b \in Seq(Answer) /\ Len(a \o b) = Len(a) + Len(b)
          /\ \A k \in 1 .. Len(a) + Len(b) : (a \o b)[k] = IF k <= Len(a) THEN a[k] ELSE b[k - Len(a)]
      BY <2>2, <2>4, ConcatProperties, Zenon
    <3>2. Len(a) \in Nat
      BY <2>4, LenProperties
    <3>3. \A k \in 1 .. Len(a) : (a \o b)[k] = a[k]
      BY <2>2, <2>3, <3>1, <3>2
    <3>4. ASSUME NEW k \in 1 .. n PROVE (a \o b)[Len(a) + k] = b[k]
      <4>1. Len(a) + k \in 1 .. Len(a) + Len(b) /\ ~ (Len(a) + k <= Len(a)) /\ Len(a) + k - Len(a) = k
        BY <2>2, <2>3, <3>2
      <4> QED
        BY <3>1, <4>1
    <3> QED
      BY <2>2, <3>1, <3>3, <3>4
  <2> QED
    BY <2>2, <2>5 DEF a, b, n
<1>3. \A d \in Dirs : Cancelled(es)[d] = done[d] \o Ids(es[d])
  BY Zenon DEF Cancelled
<1>4. Cancelled(es) \in [Dirs -> Seq(Answer)]
  BY <1>2 DEF Cancelled
<1> QED
  BY <1>2, <1>3, <1>4

(* put() keeps the tables. *)
LEMMA PutTables ==
  ASSUME IInv, NEW es \in [Dirs -> Seq(Entry)], NEW next, Put(es, next)
  PROVE  ents' \in [Dirs -> Seq(Entry)] /\ done' \in [Dirs -> Seq(Answer)]
<1>1. Tables /\ TypeOK /\ done \in [Dirs -> Seq(Answer)]
  BY Zenon DEF IInv, Tables
<1>2. << >> \in Seq(Entry)
  OBVIOUS
<1>3. Both(<< >>) \in [Dirs -> Seq(Entry)]
  BY <1>2 DEF Both
<1>4. Cancelled(es) \in [Dirs -> Seq(Answer)]
  BY <1>1, CancelledType, Zenon
<1>5. CASE ref = 1
  BY <1>1, <1>3, <1>4, <1>5, PutEffect, Zenon
<1>6. CASE ref # 1
  BY <1>1, <1>6, PutEffect, Zenon
<1> QED
  BY <1>5, <1>6, Zenon

(* The array after a loop has ended. *)
LEMMA LeaveSeq ==
  ASSUME IInv, NEW d \in Dirs, Partial(d) \/ AllComplete(d)
  PROVE  \E left \in Seq(Entry) :
           /\ pc = Loop(d) /\ Leave(d, left)
           /\ [ents EXCEPT ![d] = left] \in [Dirs -> Seq(Entry)]
           /\ [ents EXCEPT ![d] = left][d] = left
           /\ [ents EXCEPT ![d] = left][Other(d)] = ents[Other(d)]
           /\ Len(left) = Len(ents[d]) - i[d]
           /\ left # << >> =>
                /\ i[d] < Len(ents[d]) /\ ret[d] < ents[d][i[d] + 1].len
                /\ left[1] = [id |-> ents[d][i[d] + 1].id, len |-> ents[d][i[d] + 1].len - ret[d]]
                /\ \A k \in 2 .. Len(left) : left[k] = ents[d][i[d] + k]
           /\ left = << >> => i[d] = Len(ents[d]) /\ ret[d] = 0
<1>1. ents \in [Dirs -> Seq(Entry)] /\ i[d] \in Nat /\ Len(ents[d]) \in Nat
  BY LenProperties DEF IInv, Tables
<1>2. ASSUME NEW left \in Seq(Entry)
      PROVE  /\ [ents EXCEPT ![d] = left] \in [Dirs -> Seq(Entry)]
             /\ [ents EXCEPT ![d] = left][d] = left
             /\ [ents EXCEPT ![d] = left][Other(d)] = ents[Other(d)]
  BY <1>1, TwoDirs
<1>3. CASE Partial(d)
  <2>1. pc = Loop(d) /\ i[d] < Len(ents[d]) /\ Short(d) /\ Leave(d, Rest(d))
    BY <1>3, Zenon DEF Partial
  <2> DEFINE left == Rest(d)
  <2>2. /\ left \in Seq(Entry) /\ Len(left) = Len(ents[d]) - i[d]
        /\ left[1] = [id |-> ents[d][i[d] + 1].id, len |-> ents[d][i[d] + 1].len - ret[d]]
        /\ \A k \in 2 .. Len(ents[d]) - i[d] : left[k] = ents[d][i[d] + k]
    BY <2>1, RestSeq, Zenon
  <2>3. ret[d] < ents[d][i[d] + 1].len
    BY <2>1, Zenon DEF Short
  <2>4. Leave(d, left)
    BY <2>1
  <2> HIDE DEF left
  <2>5. left # << >>
    BY <1>1, <2>1, <2>2
  <2> QED
    BY <1>2, <2>1, <2>2, <2>3, <2>4, <2>5, Zenon
<1>4. CASE AllComplete(d)
  <2>1. pc = Loop(d) /\ i[d] = Len(ents[d]) /\ ret[d] = 0 /\ Leave(d, << >>)
    BY <1>4, Zenon DEF AllComplete
  <2>2. << >> \in Seq(Entry) /\ Len(<< >>) = Len(ents[d]) - i[d]
    BY <1>1, <2>1
  <2> QED
    BY <1>2, <2>1, <2>2, Zenon
<1> QED
  BY <1>3, <1>4, Zenon

(* A turn of a loop. *)
LEMMA CompleteEffect ==
  ASSUME IInv, NEW d \in Dirs, Complete(d)
  PROVE  LET o == Other(d)
             e == ents[d][i[d] + 1]
         IN  /\ pc = Loop(d) /\ i[d] < Len(ents[d]) /\ e.len <= ret[d] /\ e \in Entry
             /\ i' \in [Dirs -> Nat] /\ i'[d] = i[d] + 1 /\ i'[o] = i[o]
             /\ ret' \in [Dirs -> Nat] /\ ret'[d] = ret[d] - e.len /\ ret'[o] = ret[o]
             /\ done' \in [Dirs -> Seq(Answer)]
             /\ done'[d] = Append(done[d], [id |-> e.id, status |-> "OK"]) /\ done'[o] = done[o]
             /\ UNCHANGED <<ref, connected, rdy, ents, pc, to, iovars, kvars, held, ends, moved>>
<1> DEFINE o == Other(d)
           e == ents[d][i[d] + 1]
           a == [id |-> e.id, status |-> "OK"]
<1>1. /\ pc = Loop(d) /\ i[d] < Len(ents[d]) /\ ~ Short(d)
      /\ done' = [done EXCEPT ![d] = Append(done[d], a)]
      /\ ret' = [ret EXCEPT ![d] = ret[d] - e.len]
      /\ i' = [i EXCEPT ![d] = i[d] + 1]
      /\ UNCHANGED <<ref, connected, rdy, ents, pc, to, iovars, kvars, held, ends, moved>>
  BY Zenon DEF Complete
<1>2. /\ ents[d] \in Seq(Entry) /\ i \in [Dirs -> Nat] /\ ret \in [Dirs -> Nat] /\ done \in [Dirs -> Seq(Answer)]
      /\ i[d] \in Nat /\ ret[d] \in Nat /\ Len(ents[d]) \in Nat /\ done[d] \in Seq(Answer)
  BY LenProperties DEF IInv, Tables
<1>3. i[d] + 1 \in 1 .. Len(ents[d]) /\ i[d] + 1 \in Nat
  BY <1>1, <1>2
<1>4. e \in Entry
  BY <1>2, <1>3, ElementOfSeq, Zenon
<1>5. ~ (ret[d] < e.len)
  BY <1>1, Zenon DEF Short
<1> HIDE DEF e
<1>6. e.len \in Nat /\ e.id \in Nat
  BY <1>4, VecAssumption DEF Entry
<1>7. e.len <= ret[d] /\ ret[d] - e.len \in Nat
  BY <1>2, <1>5, <1>6
<1>8. a \in Answer
  BY <1>6 DEF Answer
<1> HIDE DEF a
<1>9. Append(done[d], a) \in Seq(Answer)
  BY <1>2, <1>8
<1>10. i' \in [Dirs -> Nat] /\ i'[d] = i[d] + 1 /\ i'[o] = i[o]
  BY <1>1, <1>2, <1>3, TwoDirs
<1>11. ret' \in [Dirs -> Nat] /\ ret'[d] = ret[d] - e.len /\ ret'[o] = ret[o]
  <2> DEFINE r == ret[d] - e.len
  <2>1. ret' = [ret EXCEPT ![d] = r] /\ r \in Nat
    BY <1>1, <1>7
  <2> HIDE DEF r
  <2>2. ret' \in [Dirs -> Nat] /\ ret'[d] = r /\ ret'[o] = ret[o]
    BY <1>2, <2>1, TwoDirs
  <2> QED
    BY <2>2 DEF r
<1>12. done' \in [Dirs -> Seq(Answer)] /\ done'[d] = Append(done[d], a) /\ done'[o] = done[o]
  <2> DEFINE r == Append(done[d], a)
  <2>1. done' = [done EXCEPT ![d] = r] /\ r \in Seq(Answer)
    BY <1>1, <1>9
  <2> HIDE DEF r
  <2>2. done' \in [Dirs -> Seq(Answer)] /\ done'[d] = r /\ done'[o] = done[o]
    BY <1>2, <2>1, TwoDirs
  <2> QED
    BY <2>2 DEF r
<1> QED
  BY <1>1, <1>4, <1>7, <1>10, <1>11, <1>12, Zenon DEF e, a

(* A system call that moves bytes. *)
LEMMA MovedEffect ==
  ASSUME IInv, NEW d \in Dirs, NEW n \in Nat, Moved(d, n)
  PROVE  LET o == Other(d)
         IN  /\ n > 0 /\ pc' = Loop(d) /\ ref' = ref + 1
             /\ i' \in [Dirs -> Nat] /\ i'[d] = 0 /\ i'[o] = i[o]
             /\ ret' \in [Dirs -> Nat] /\ ret'[d] = n /\ ret'[o] = ret[o]
             /\ moved' \in [Dirs -> Nat] /\ moved'[d] = moved[d] + n /\ moved'[o] = moved[o]
             /\ UNCHANGED <<connected, rdy, ents, to, iovars, held, ends, done>>
<1>1. /\ n > 0 /\ pc' = Loop(d) /\ ref' = ref + 1
      /\ moved' = [moved EXCEPT ![d] = moved[d] + n]
      /\ ret' = [ret EXCEPT ![d] = n] /\ i' = [i EXCEPT ![d] = 0]
      /\ UNCHANGED <<connected, rdy, ents, to, iovars, held, ends, done>>
  BY Zenon DEF Moved
<1>2. i \in [Dirs -> Nat] /\ ret \in [Dirs -> Nat] /\ moved \in [Dirs -> Nat] /\ moved[d] + n \in Nat
  BY DEF IInv, Tables
<1>3. i' \in [Dirs -> Nat] /\ i'[d] = 0 /\ i'[Other(d)] = i[Other(d)]
  BY <1>1, <1>2, TwoDirs
<1>4. ret' \in [Dirs -> Nat] /\ ret'[d] = n /\ ret'[Other(d)] = ret[Other(d)]
  BY <1>1, <1>2, TwoDirs
<1>5. moved' \in [Dirs -> Nat] /\ moved'[d] = moved[d] + n /\ moved'[Other(d)] = moved[Other(d)]
  BY <1>1, <1>2, TwoDirs
<1> QED
  BY <1>1, <1>3, <1>4, <1>5, Zenon

(* The end of a loop. *)
LEMMA LeaveEffect ==
  ASSUME IInv, NEW d \in Dirs, NEW left, Leave(d, left)
  PROVE  LET o == Other(d)
         IN  /\ i' \in [Dirs -> Nat] /\ i'[d] = 0 /\ i'[o] = i[o]
             /\ ret' \in [Dirs -> Nat] /\ ret'[d] = 0 /\ ret'[o] = ret[o]
             /\ to' \in [Dirs -> Returns] /\ to'[d] = "none" /\ to'[o] = to[o]
             /\ Put([ents EXCEPT ![d] = left], to[d])
             /\ UNCHANGED <<connected, rdy, iovars, kvars, held, ends, moved>>
<1>1. /\ to' = [to EXCEPT ![d] = "none"]
      /\ ret' = [ret EXCEPT ![d] = 0] /\ i' = [i EXCEPT ![d] = 0]
      /\ Put([ents EXCEPT ![d] = left], to[d])
      /\ UNCHANGED <<connected, rdy, iovars, kvars, held, ends, moved>>
  BY Zenon DEF Leave
<1>2. i \in [Dirs -> Nat] /\ ret \in [Dirs -> Nat] /\ Tables /\ "none" \in Returns
  BY DEF IInv, Tables, Returns
<1>3. i' \in [Dirs -> Nat] /\ i'[d] = 0 /\ i'[Other(d)] = i[Other(d)]
  BY <1>1, <1>2, TwoDirs
<1>4. ret' \in [Dirs -> Nat] /\ ret'[d] = 0 /\ ret'[Other(d)] = ret[Other(d)]
  BY <1>1, <1>2, TwoDirs
<1>5. to' \in [Dirs -> Returns] /\ to'[d] = "none" /\ to'[Other(d)] = to[Other(d)]
  BY <1>1, <1>2, ReturnTo, Zenon
<1> QED
  BY <1>1, <1>3, <1>4, <1>5, Zenon

(* EAGAIN, or nothing to do: back to the caller. *)
LEMMA ReturnEffect ==
  ASSUME IInv, NEW d \in Dirs, Again(d) \/ NothingPending(d)
  PROVE  LET o == Other(d)
         IN  /\ pc' = to[d] /\ to' = [to EXCEPT ![d] = "none"]
             /\ to' \in [Dirs -> Returns] /\ to'[d] = "none" /\ to'[o] = to[o]
             /\ rdy' \in [Dirs -> BOOLEAN] /\ rdy'[o] = rdy[o]
             /\ UNCHANGED <<ref, connected, ents, i, ret, iovars, uservars>>
<1>1. /\ pc' = to[d] /\ to' = [to EXCEPT ![d] = "none"]
      /\ rdy' = rdy \/ rdy' = [rdy EXCEPT ![d] = FALSE]
      /\ UNCHANGED <<ref, connected, ents, i, ret, iovars, uservars>>
  BY Zenon DEF Again, NothingPending
<1>2. rdy \in [Dirs -> BOOLEAN] /\ Tables /\ "none" \in Returns
  BY DEF IInv, Tables, Returns
<1>3. rdy' \in [Dirs -> BOOLEAN] /\ rdy'[Other(d)] = rdy[Other(d)]
  BY <1>1, <1>2, TwoDirs
<1>4. to' \in [Dirs -> Returns] /\ to'[d] = "none" /\ to'[Other(d)] = to[Other(d)]
  BY <1>1, <1>2, ReturnTo, Zenon
<1> QED
  BY <1>1, <1>3, <1>4, Zenon

(* The tables keep their types. *)
LEMMA TablesPreserved ==
  ASSUME IInv, [Next]_vars
  PROVE  Tables'
<1>1. Tables
  BY Zenon DEF IInv
<1>2. ASSUME NEW d \in Dirs, NothingPending(d) \/ Again(d) PROVE Tables'
  <2>1. /\ to' \in [Dirs -> Returns] /\ rdy' \in [Dirs -> BOOLEAN]
        /\ UNCHANGED <<ents, i, ret, ends, moved, done>>
    BY <1>2, ReturnEffect, Zenon DEF uservars
  <2> QED
    BY <1>1, <2>1, Zenon DEF Tables
<1>3. ASSUME NEW d \in Dirs, Complete(d) PROVE Tables'
  <2>1. /\ i' \in [Dirs -> Nat] /\ ret' \in [Dirs -> Nat] /\ done' \in [Dirs -> Seq(Answer)]
        /\ UNCHANGED <<rdy, ents, to, ends, moved>>
    BY <1>3, CompleteEffect, Zenon
  <2> QED
    BY <1>1, <2>1, Zenon DEF Tables
<1>4. ASSUME NEW d \in Dirs, Partial(d) \/ AllComplete(d) PROVE Tables'
  <2>1. PICK left \in Seq(Entry) : Leave(d, left) /\ [ents EXCEPT ![d] = left] \in [Dirs -> Seq(Entry)]
    BY <1>4, LeaveSeq, Zenon
  <2>2. /\ i' \in [Dirs -> Nat] /\ ret' \in [Dirs -> Nat] /\ to' \in [Dirs -> Returns]
        /\ Put([ents EXCEPT ![d] = left], to[d]) /\ UNCHANGED <<rdy, ends, moved>>
    BY <2>1, LeaveEffect, Zenon
  <2>3. ents' \in [Dirs -> Seq(Entry)] /\ done' \in [Dirs -> Seq(Answer)]
    BY <2>1, <2>2, PutTables, Zenon
  <2> QED
    BY <1>1, <2>2, <2>3, Zenon DEF Tables
<1>5. ASSUME NEW d \in Dirs, (d = "rx" /\ Readv) \/ (d = "tx" /\ Writev) PROVE Tables'
  <2>1. \/ \E n \in Nat : Moved(d, n)
        \/ Again(d)
        \/ \E e \in {"read", "write"} : SysError(e)
    BY <1>5, SysCalls, Zenon
  <2>2. ASSUME NEW n \in Nat, Moved(d, n) PROVE Tables'
    <3>1. /\ i' \in [Dirs -> Nat] /\ ret' \in [Dirs -> Nat] /\ moved' \in [Dirs -> Nat]
          /\ UNCHANGED <<rdy, ents, to, ends, done>>
      BY <2>2, MovedEffect, Zenon
    <3> QED
      BY <1>1, <3>1, Zenon DEF Tables
  <2>3. ASSUME NEW e \in {"read", "write"}, SysError(e) PROVE Tables'
    <3>1. UNCHANGED <<rdy, ents, i, ret, to, ends, moved, done>>
      BY <2>3, Zenon DEF SysError, uservars
    <3> QED
      BY <1>1, <3>1, TablesSame, Zenon
  <2> QED
    BY <1>2, <2>1, <2>2, <2>3, Zenon
<1>6. ASSUME RunIo \/ IoOut PROVE Tables'
  <2>1. /\ rdy' \in {rdy, MarkReady("rx"), MarkReady("tx")}
        /\ to' \in {to, [to EXCEPT !["rx"] = "io_out"], [to EXCEPT !["tx"] = "io_end"]}
        /\ UNCHANGED <<ents, i, ret, ends, moved, done>>
    BY <1>6, Zenon DEF RunIo, IoOut, uservars
  <2>2. rdy \in [Dirs -> BOOLEAN] /\ to \in [Dirs -> Returns]
    BY <1>1, Zenon DEF Tables
  <2>3. rdy' \in [Dirs -> BOOLEAN]
    BY <2>1, <2>2, TwoDirs DEF MarkReady
  <2>4. to' \in [Dirs -> Returns]
    BY <2>1, <2>2, TwoDirs DEF Returns
  <2> QED
    BY <1>1, <2>1, <2>3, <2>4, Zenon DEF Tables
<1>7. ASSUME IoEnd \/ UserPut PROVE Tables'
  <2>1. (\E next : Put(ents, next)) /\ UNCHANGED <<rdy, i, ret, to, ends, moved>>
    BY <1>7, Zenon DEF IoEnd, UserPut
  <2>2. ents \in [Dirs -> Seq(Entry)]
    BY <1>1, Zenon DEF Tables
  <2>3. ents' \in [Dirs -> Seq(Entry)] /\ done' \in [Dirs -> Seq(Answer)]
    BY <2>1, <2>2, PutTables, Zenon
  <2> QED
    BY <1>1, <2>1, <2>3, Zenon DEF Tables
<1>8. ASSUME NEW d \in Dirs, NEW len \in Lens, Start(d, len) PROVE Tables'
  <2>1. UNCHANGED <<rdy, i, ret, moved, done>>
    BY <1>8, Zenon DEF Start
  <2>2. CASE Len(ents[d]) >= MAX_SGS
    <3>1. UNCHANGED <<ents, ends, to>>
      BY <1>8, <2>2, Zenon DEF Start
    <3> QED
      BY <1>1, <2>1, <3>1, TablesSame, Zenon
  <2>3. CASE ~ (Len(ents[d]) >= MAX_SGS)
    <3>1. ends' \in [Dirs -> Seq(Nat)] /\ ents' \in [Dirs -> Seq(Entry)]
      BY <1>8, <2>3, StartSeq, Zenon
    <3>2. to' = to \/ to' = [to EXCEPT ![d] = pc]
      BY <1>8, <2>3, Zenon DEF Start
    <3>3. pc \in Returns
      <4>1. pc = "idle" \/ pc = Loop(Other(d))
        BY <1>8, Zenon DEF Start
      <4> QED
        BY <4>1, TwoDirs DEF Returns
    <3>4. to' \in [Dirs -> Returns]
      BY <1>1, <3>2, <3>3, ReturnTo, Zenon DEF Tables
    <3> QED
      BY <1>1, <2>1, <3>1, <3>4, Zenon DEF Tables
  <2> QED
    BY <2>2, <2>3, Zenon
<1>9. ASSUME Connect \/ EpollWait \/ ConnectDone \/ Deliver \/ Arrive \/ PeerClose \/ UNCHANGED vars
      PROVE  Tables'
  <2>1. UNCHANGED <<rdy, ents, i, ret, to, ends, moved, done>>
    BY <1>9, Zenon DEF Connect, EpollWait, ConnectDone, Deliver, Arrive, PeerClose, sockvars, vars, uservars
  <2> QED
    BY <1>1, <2>1, TablesSame, Zenon
<1> QED
  BY <1>2, <1>3, <1>4, <1>5, <1>6, <1>7, <1>8, <1>9, TwoDirs, Zenon
  DEF Next, Thread, User, Read, Write

(* The parts of the type invariant that are not in the tables. *)
PlainOK ==
  /\ ref \in Nat /\ held \in BOOLEAN /\ connected \in BOOLEAN /\ inio \in BOOLEAN
  /\ pc \in Points
  /\ ev \subseteq {"in", "out"}
  /\ err \in {"none", "ENOSPC", "read", "write", "connect"}

KernelOK == ksnd \in 0 .. SndBuf /\ krcv \in Nat /\ rcvd \in 0 .. RcvTotal

DirOK(d) == Len(ents[d]) <= MAX_SGS /\ i[d] <= Len(ents[d])

(* The type invariant has these parts. *)
LEMMA TypeParts ==
  ASSUME Tables, TypeOK
  PROVE  PlainOK /\ KernelOK /\ \A d \in Dirs : DirOK(d)
<1>1. PlainOK /\ KernelOK
  BY Zenon DEF TypeOK, PlainOK, KernelOK, Points
<1>2. ASSUME NEW d \in Dirs PROVE DirOK(d)
  <2>1. Len(ents[d]) <= MAX_SGS /\ i[d] \in 0 .. Len(ents[d])
    BY Zenon DEF TypeOK
  <2>2. Len(ents[d]) \in Nat
    BY LenProperties DEF Tables
  <2> QED
    BY <2>1, <2>2 DEF DirOK
<1> QED
  BY <1>1, <1>2

(* The parts of the type invariant make it up, in the next state. *)
LEMMA TypePartsNext ==
  ASSUME Tables', PlainOK', KernelOK', \A d \in Dirs : DirOK(d)'
  PROVE  TypeOK'
<1>1. ASSUME NEW d \in Dirs
      PROVE  (/\ ents[d] \in Seq([id : 1 .. NOps, len : Nat \ {0}]) /\ Len(ents[d]) <= MAX_SGS
              /\ i[d] \in 0 .. Len(ents[d]) /\ ret[d] \in Nat /\ ends[d] \in Seq(Nat)
              /\ to[d] \in {"none", "idle", "rxloop", "txloop", "io_out", "io_end"})'
  <2>1. ents'[d] \in Seq(Entry) /\ i'[d] \in Nat /\ ret'[d] \in Nat /\ ends'[d] \in Seq(Nat) /\ to'[d] \in Returns
    BY DEF Tables
  <2>2. Len(ents'[d]) <= MAX_SGS /\ i'[d] <= Len(ents'[d])
    BY Zenon DEF DirOK
  <2>3. Len(ents'[d]) \in Nat
    BY <2>1, LenProperties
  <2>4. i'[d] \in 0 .. Len(ents'[d])
    BY <2>1, <2>2, <2>3
  <2> QED
    BY <2>1, <2>2, <2>4, Zenon DEF Entry, Returns
<1>2. rdy' \in [Dirs -> BOOLEAN]
  BY Zenon DEF Tables
<1> QED
  BY <1>1, <1>2, Zenon DEF TypeOK, PlainOK, KernelOK, Points

(* The kernel's counts keep their types. *)
LEMMA KernelPreserved ==
  ASSUME IInv, [Next]_vars
  PROVE  KernelOK'
<1>1. KernelOK
  BY TypeParts, Zenon DEF IInv
<1>2. ksnd \in Nat /\ krcv \in Nat /\ rcvd \in Nat /\ ksnd <= SndBuf /\ rcvd <= RcvTotal /\ SndBuf \in Nat /\ RcvTotal \in Nat
  BY <1>1, VecAssumption DEF KernelOK
<1>3. ASSUME Readv PROVE KernelOK'
  <2>1. \/ \E n \in Nat : /\ n <= krcv /\ krcv' = krcv - n /\ UNCHANGED <<ksnd, rcvd>>
        \/ UNCHANGED <<ksnd, krcv, rcvd>>
    BY <1>3, ReadvCases, Zenon DEF kvars, SysError
  <2> QED
    BY <1>2, <2>1 DEF KernelOK
<1>4. ASSUME Writev PROVE KernelOK'
  <2>1. \/ \E n \in Nat : /\ ksnd + n <= SndBuf /\ ksnd' = ksnd + n /\ UNCHANGED <<krcv, rcvd>>
        \/ UNCHANGED <<ksnd, krcv, rcvd>>
    BY <1>4, WritevCases, Zenon DEF kvars, SysError
  <2> QED
    BY <1>2, <2>1 DEF KernelOK
<1>5. ASSUME Deliver PROVE KernelOK'
  <2>1. (\E n \in 1 .. ksnd : ksnd' = ksnd - n) /\ UNCHANGED <<krcv, rcvd>>
    BY <1>5, Zenon DEF Deliver
  <2> QED
    BY <1>2, <2>1 DEF KernelOK
<1>6. ASSUME Arrive PROVE KernelOK'
  <2>1. (\E n \in 1 .. RcvTotal - rcvd : krcv' = krcv + n /\ rcvd' = rcvd + n) /\ UNCHANGED ksnd
    BY <1>6, Zenon DEF Arrive
  <2> QED
    BY <1>2, <2>1 DEF KernelOK
<1>7. ASSUME \/ \E d \in Dirs : NothingPending(d) \/ Complete(d) \/ Partial(d) \/ AllComplete(d)
             \/ Connect \/ EpollWait \/ RunIo \/ IoOut \/ IoEnd \/ User \/ ConnectDone \/ PeerClose \/ UNCHANGED vars
      PROVE  KernelOK'
  <2>1. UNCHANGED <<ksnd, krcv, rcvd>>
    BY <1>7, Zenon DEF NothingPending, Complete, Partial, AllComplete, Leave, Connect, EpollWait, RunIo, IoOut,
         IoEnd, User, UserPut, Read, Write, Start, ConnectDone, PeerClose, vars, kvars
  <2> QED
    BY <1>1, <2>1, Zenon DEF KernelOK
<1> QED
  BY <1>3, <1>4, <1>5, <1>6, <1>7, Zenon DEF Next, Thread

(* A put() has a reference to give back. *)
LEMMA RefToGive ==
  ASSUME IInv, (\E d \in Dirs : pc = Loop(d)) \/ pc = "io_end"
  PROVE  ref \in Nat \ {0}
<1>1. ref \in Nat /\ RefsHeld /\ Stack
  BY DEF IInv, TypeOK
<1>2. pc \notin {"deleted", "dead"}
  BY TwoDirs
<1>3. ref = Refs
  BY <1>1, <1>2, RefsSum, Zenon
<1>4. {One(held), One(inio), One(InLoop("rx")), One(InLoop("tx"))} \subseteq {0, 1}
  BY DEF One
<1>5. CASE \E d \in Dirs : pc = Loop(d)
  <2>1. InLoop("rx") \/ InLoop("tx")
    BY <1>5, TwoDirs, Zenon DEF InLoop, Dirs
  <2>2. One(InLoop("rx")) = 1 \/ One(InLoop("tx")) = 1
    BY <2>1 DEF One
  <2> QED
    BY <1>1, <1>3, <1>4, <2>2 DEF Refs
<1>6. CASE pc = "io_end"
  <2>1. inio
    BY <1>1, <1>6, StackParts, Zenon DEF Frames
  <2>2. One(inio) = 1
    BY <2>1 DEF One
  <2> QED
    BY <1>1, <1>3, <1>4, <2>2 DEF Refs
<1> QED
  BY <1>5, <1>6

(* What is not a table keeps its type: put() never counts below zero. *)
LEMMA PlainPreserved ==
  ASSUME IInv, [Next]_vars
  PROVE  PlainOK'
<1>1. PlainOK /\ Tables /\ TypeOK
  BY TypeParts, Zenon DEF IInv
<1>2. ASSUME NEW d \in Dirs PROVE to[d] \in Points \cup {"none"} /\ Loop(d) \in Points /\ d \in Points
  <2>1. to[d] \in Returns
    BY <1>1 DEF Tables
  <2> QED
    BY <2>1, TwoDirs DEF Returns, Points
<1>3. {"idle", "deleted", "dead", "io_out", "io_end"} \subseteq Points /\ ref \in Nat /\ ref + 1 \in Nat
  BY <1>1 DEF Points, PlainOK
<1>4. ASSUME NEW d \in Dirs, pc = d, Again(d) \/ NothingPending(d) PROVE PlainOK'
  <2>1. pc' = to[d] /\ UNCHANGED <<ref, held, connected, inio, ev, err>>
    BY <1>4, ReturnEffect, Zenon DEF iovars, uservars
  <2>2. to[d] # "none"
    BY <1>4, NotBelow, Zenon
  <2>3. pc' \in Points
    BY <1>2, <2>1, <2>2
  <2> QED
    BY <1>1, <2>1, <2>3, Zenon DEF PlainOK
<1>5. ASSUME NEW d \in Dirs, Complete(d) PROVE PlainOK'
  <2>1. UNCHANGED <<pc, ref, held, connected, inio, ev, err>>
    BY <1>5, Zenon DEF Complete, iovars
  <2> QED
    BY <1>1, <2>1, Zenon DEF PlainOK
<1>6. ASSUME NEW d \in Dirs, Partial(d) \/ AllComplete(d) PROVE PlainOK'
  <2>1. pc = Loop(d) /\ (\E left : Leave(d, left))
    BY <1>6, Zenon DEF Partial, AllComplete
  <2>2. /\ UNCHANGED <<held, connected, inio, ev, err>>
        /\ \E es : Put(es, to[d])
    BY <2>1, LeaveEffect, Zenon DEF iovars
  <2>3. ref' = ref - 1 /\ pc' \in {"deleted", to[d]}
    BY <1>1, <2>2, PutEffect, Zenon
  <2>4. to[d] # "none"
    BY <2>1, NotBelow, Zenon
  <2>5. pc' \in Points
    BY <1>2, <1>3, <2>3, <2>4
  <2>6. ref' \in Nat
    BY <2>1, <2>3, RefToGive
  <2> QED
    BY <1>1, <2>2, <2>5, <2>6, Zenon DEF PlainOK
<1>7. ASSUME NEW d \in Dirs, (d = "rx" /\ Readv) \/ (d = "tx" /\ Writev) PROVE PlainOK'
  <2>1. /\ pc = d
        /\ \/ \E n \in Nat : Moved(d, n)
           \/ Again(d)
           \/ \E e \in {"read", "write"} : SysError(e)
    BY <1>7, SysCalls, Zenon
  <2>2. ASSUME NEW n \in Nat, Moved(d, n) PROVE PlainOK'
    <3>1. pc' = Loop(d) /\ ref' = ref + 1 /\ UNCHANGED <<held, connected, inio, ev, err>>
      BY <2>2, Zenon DEF Moved, iovars
    <3> QED
      BY <1>1, <1>2, <1>3, <3>1, Zenon DEF PlainOK
  <2>3. ASSUME NEW e \in {"read", "write"}, SysError(e) PROVE PlainOK'
    <3>1. pc' = "dead" /\ err' = e /\ UNCHANGED <<ref, held, connected, inio, ev>>
      BY <2>3, Zenon DEF SysError, Throw, uservars
    <3> QED
      BY <1>1, <1>3, <3>1 DEF PlainOK
  <2> QED
    BY <1>4, <2>1, <2>2, <2>3, Zenon
<1>8. ASSUME RunIo PROVE PlainOK'
  <2>1. ref' = ref + 1 /\ inio' = TRUE /\ pc' \in {"rx", "io_out"} /\ UNCHANGED <<held, connected, ev, err>>
    BY <1>8, Zenon DEF RunIo, IoRef, uservars
  <2>2. pc' \in Points
    BY <2>1 DEF Points, Dirs
  <2> QED
    BY <1>1, <1>3, <2>1, <2>2, Zenon DEF PlainOK
<1>9. ASSUME IoOut PROVE PlainOK'
  <2>1. /\ UNCHANGED <<ref, inio, held, ev>> /\ pc' \in {"tx", "io_end", "dead"}
        /\ connected' \in {TRUE, connected} /\ err' \in {err, "connect"}
    BY <1>9, Zenon DEF IoOut, Throw, uservars
  <2>2. pc' \in Points
    BY <2>1 DEF Points, Dirs
  <2> QED
    BY <1>1, <2>1, <2>2 DEF PlainOK
<1>10. ASSUME IoEnd PROVE PlainOK'
  <2>1. pc = "io_end" /\ Put(ents, "idle") /\ ev' = {} /\ inio' = FALSE /\ UNCHANGED <<connected, err, held>>
    BY <1>10, Zenon DEF IoEnd
  <2>2. ref' = ref - 1 /\ pc' \in {"idle", "deleted"}
    BY <1>1, <2>1, PutEffect, Zenon
  <2>3. ref' \in Nat
    BY <2>1, <2>2, RefToGive
  <2>4. pc' \in Points /\ ev' \subseteq {"in", "out"} /\ inio' \in BOOLEAN
    BY <1>3, <2>1, <2>2
  <2> QED
    BY <1>1, <2>1, <2>3, <2>4, Zenon DEF PlainOK
<1>11. ASSUME UserPut PROVE PlainOK'
  <2>1. held' = FALSE /\ Put(ents, pc) /\ UNCHANGED <<connected, ev, inio, err>>
    BY <1>11, Zenon DEF UserPut, iovars
  <2>2. ref' = ref - 1 /\ pc' \in {pc, "deleted"}
    BY <1>1, <2>1, PutEffect, Zenon
  <2>3. ref' \in Nat
    BY <1>11, <2>2, RefsUserPut
  <2>4. pc' \in Points
    BY <1>1, <1>3, <2>2 DEF PlainOK
  <2> QED
    BY <1>1, <2>1, <2>3, <2>4, Zenon DEF PlainOK
<1>12. ASSUME NEW d \in Dirs, NEW len \in Lens, Start(d, len) PROVE PlainOK'
  <2>1. /\ UNCHANGED <<ref, connected, ev, inio, held>> /\ pc' \in {pc, d, "dead"} /\ err' \in {err, "ENOSPC"}
    BY <1>12, Zenon DEF Start, Throw
  <2>2. pc' \in Points
    BY <1>1, <1>2, <1>3, <2>1 DEF PlainOK
  <2> QED
    BY <1>1, <2>1, <2>2 DEF PlainOK
<1>13. ASSUME Connect PROVE PlainOK'
  <2>1. pc' \in {"idle", "dead"} /\ err' \in {err, "connect"} /\ UNCHANGED <<ref, connected, ev, inio, held>>
    BY <1>13, Zenon DEF Connect, Throw, uservars
  <2> QED
    BY <1>1, <1>3, <2>1 DEF PlainOK
<1>14. ASSUME EpollWait PROVE PlainOK'
  <2>1. ev' = Readiness /\ UNCHANGED <<pc, ref, connected, inio, err, held>>
    BY <1>14, Zenon DEF EpollWait, uservars
  <2>2. ev' \subseteq {"in", "out"}
    BY <2>1 DEF Readiness
  <2> QED
    BY <1>1, <2>1, <2>2, Zenon DEF PlainOK
<1>15. ASSUME ConnectDone \/ Deliver \/ Arrive \/ PeerClose \/ UNCHANGED vars PROVE PlainOK'
  <2>1. UNCHANGED <<pc, ref, connected, inio, ev, err, held>>
    BY <1>15, Zenon DEF ConnectDone, Deliver, Arrive, PeerClose, sockvars, vars
  <2> QED
    BY <1>1, <2>1, Zenon DEF PlainOK
<1>16. ASSUME NEW d \in Dirs, NothingPending(d) PROVE PlainOK'
  BY <1>4, <1>16, Zenon DEF NothingPending
<1> QED
  BY <1>5, <1>6, <1>7, <1>8, <1>9, <1>10, <1>11, <1>12, <1>13, <1>14, <1>15, <1>16, TwoDirs, Zenon
  DEF Next, Thread, User, Read, Write

-----------------------------------------------------------------------------
(* The books. *)

(* Positions in a stream that has grown. *)
LEMMA PosAppend ==
  ASSUME NEW en \in Seq(Nat), NEW v \in Nat
  PROVE  /\ Append(en, v) \in Seq(Nat) /\ Len(Append(en, v)) = Len(en) + 1 /\ Len(en) \in Nat
         /\ \A k \in 0 .. Len(en) : Pos(Append(en, v), k) = Pos(en, k) /\ Pos(en, k) \in Nat
         /\ Pos(Append(en, v), Len(en) + 1) = v
<1>1. Append(en, v) \in Seq(Nat) /\ Len(Append(en, v)) = Len(en) + 1 /\ Len(en) \in Nat
  BY LenProperties
<1>2. (\A k \in 1 .. Len(en) : Append(en, v)[k] = en[k]) /\ Append(en, v)[Len(en) + 1] = v
  OBVIOUS
<1>3. ASSUME NEW k \in 0 .. Len(en) PROVE Pos(Append(en, v), k) = Pos(en, k) /\ Pos(en, k) \in Nat
  <2>1. k = 0 \/ k \in 1 .. Len(en)
    BY <1>1
  <2>2. Pos(en, k) \in Nat
    BY PosNat
  <2> QED
    BY <1>2, <2>1, <2>2, Zenon DEF Pos
<1>4. Len(en) + 1 # 0
  BY <1>1
<1> QED
  BY <1>1, <1>2, <1>3, <1>4, Zenon DEF Pos

(* A new operation. *)
LEMMA BookAppend ==
  ASSUME NEW s \in Seq(Entry), NEW en \in Seq(Nat), NEW m \in Nat, NEW dn \in Seq(Answer),
         NEW l \in Nat \ {0}, Book(s, 0, 0, en, m, dn), Rising(en), m <= Pos(en, Len(en)),
         NEW e \in Entry, e.id = Len(en) + 1, e.len = l,
         NEW v \in Nat, v = Pos(en, Len(en)) + l
  PROVE  /\ Book(Append(s, e), 0, 0, Append(en, v), m, dn)
         /\ Rising(Append(en, v)) /\ m <= Pos(Append(en, v), Len(Append(en, v)))
<1> DEFINE s2 == Append(s, e)
           en2 == Append(en, v)
           n == Len(s)
           b == Before(s, en)
<1>1. /\ Len(s) \in Nat /\ Len(s2) = Len(s) + 1 /\ s2 # << >>
      /\ (\A k \in 1 .. Len(s) : s2[k] = s[k]) /\ s2[Len(s) + 1] = e
  BY LenProperties, SMTT(30)
<1>2. /\ Len(en2) = Len(en) + 1 /\ Len(en) \in Nat
      /\ \A k \in 0 .. Len(en) : Pos(en2, k) = Pos(en, k) /\ Pos(en, k) \in Nat
      /\ Pos(en2, Len(en) + 1) = v
  BY PosAppend, Zenon
<1> HIDE DEF s2, en2
<1>3. /\ n <= Len(en) /\ Len(dn) = b + 0
      /\ (\A k \in 1 .. n : s[k].id = b + k)
      /\ (\A k \in 2 .. n : s[k].len = Pos(en, b + k) - Pos(en, b + k - 1))
      /\ Pos(en, b) <= m - 0
      /\ (s = << >> => m - 0 = Pos(en, b))
      /\ (s # << >> => s[1].len = Pos(en, b + 1) - (m - 0))
      /\ (\A k \in 1 .. Len(dn) : dn[k] = [id |-> k, status |-> "OK"])
  BY Zenon DEF Book
<1>4. b \in Nat /\ b + n = Len(en) /\ Before(s2, en2) = b
  BY <1>1, <1>2, <1>3 DEF Before
<1>5. Len(en) \in 0 .. Len(en) /\ Pos(en, Len(en)) \in Nat
  BY <1>2
<1> HIDE DEF n, b
<1>6. n \in Nat /\ Len(s2) = n + 1 /\ n = Len(s)
  BY <1>1 DEF n
<1>16. s2[n + 1] = e /\ (\A k \in 1 .. n : s2[k] = s[k])
  BY <1>1, <1>6, Zenon
<1>17. b \in Nat /\ b + n = Len(en) /\ b + (n + 1) = Len(en) + 1 /\ b + (n + 1) - 1 = Len(en)
  <2> DEFINE q == Len(en)
  <2>1. q \in Nat /\ b \in Nat /\ b + n = q
    BY <1>2, <1>4, Zenon
  <2> HIDE DEF q
  <2>2. b + (n + 1) = q + 1 /\ b + (n + 1) - 1 = q
    BY <1>6, <2>1
  <2> QED
    BY <2>1, <2>2 DEF q
<1>7. ASSUME NEW k \in 1 .. n + 1 PROVE s2[k].id = b + k
  <2>1. CASE k = n + 1
    BY <1>16, <1>17, <2>1, Zenon
  <2>2. CASE k # n + 1
    <3>1. k \in 1 .. n
      BY <1>6, <2>2
    <3> QED
      BY <1>1, <1>3, <1>6, <3>1
  <2> QED
    BY <2>1, <2>2
<1>8. ASSUME NEW k \in 2 .. n + 1 PROVE s2[k].len = Pos(en2, b + k) - Pos(en2, b + k - 1)
  <2>1. CASE k = n + 1
    <3>1. b + k = Len(en) + 1 /\ b + k - 1 = Len(en)
      BY <1>17, <2>1, Zenon
    <3>2. Pos(en2, b + k) = v /\ Pos(en2, b + k - 1) = Pos(en, Len(en))
      BY <1>2, <1>5, <3>1, Zenon
    <3>3. s2[k] = e
      BY <1>16, <2>1, Zenon
    <3>4. v - Pos(en, Len(en)) = l
      BY <1>5
    <3> QED
      BY <3>2, <3>3, <3>4, Zenon
  <2>2. CASE k # n + 1
    <3>1. k \in 2 .. n /\ k \in 1 .. n
      BY <1>6, <2>2
    <3>2. b + k \in 0 .. Len(en) /\ b + k - 1 \in 0 .. Len(en)
      <4> DEFINE q == Len(en)
      <4>1. q = b + n
        BY <1>17
      <4> HIDE DEF q
      <4>2. b + k \in 0 .. q /\ b + k - 1 \in 0 .. q
        BY <1>17, <1>6, <3>1, <4>1
      <4> QED
        BY <4>2 DEF q
    <3>3. s2[k] = s[k]
      BY <1>16, <3>1, Zenon
    <3> QED
      BY <1>2, <1>3, <3>1, <3>2, <3>3, Zenon
  <2> QED
    BY <2>1, <2>2
<1>9. Pos(en2, b) <= m - 0
  <2>1. b \in 0 .. Len(en)
    BY <1>2, <1>4, <1>6
  <2> QED
    BY <1>2, <1>3, <2>1
<1>10. s2[1].len = Pos(en2, b + 1) - (m - 0)
  <2>1. CASE s = << >>
    <3>1. n = 0
      BY <1>6, <2>1, EmptySeq, Zenon
    <3>2. b = Len(en) /\ n + 1 = 1
      BY <1>17, <3>1
    <3>3. s2[1] = e /\ Pos(en2, b + 1) = v /\ m - 0 = Pos(en, Len(en))
      BY <1>16, <1>2, <1>3, <2>1, <3>2, Zenon
    <3>4. v - Pos(en, Len(en)) = l
      BY <1>5
    <3> QED
      BY <3>3, <3>4, Zenon
  <2>2. CASE s # << >>
    <3>1. n # 0
      BY <1>6, <2>2, EmptySeq
    <3>2. 1 \in 1 .. n /\ b + 1 \in 0 .. Len(en)
      BY <1>2, <1>4, <1>6, <3>1, SMTT(30)
    <3> QED
      BY <1>1, <1>2, <1>3, <1>6, <2>2, <3>2
  <2> QED
    BY <2>1, <2>2
<1>11. n + 1 <= Len(en2)
  BY <1>2, <1>3, <1>6
<1>12. Book(s2, 0, 0, en2, m, dn)
  BY <1>1, <1>3, <1>4, <1>6, <1>7, <1>8, <1>9, <1>10, <1>11 DEF Book
<1>13. ASSUME NEW j \in 0 .. Len(en2), NEW k \in 1 .. Len(en2), j < k
       PROVE  Pos(en2, j) < Pos(en2, k)
  <2>1. j \in 0 .. Len(en)
    BY <1>2, <1>13
  <2>2. CASE k = Len(en) + 1
    <3>1. Pos(en2, k) = v /\ Pos(en2, j) = Pos(en, j) /\ Pos(en, j) \in Nat
      BY <1>2, <2>1, <2>2
    <3>2. Pos(en, j) <= Pos(en, Len(en))
      <4>1. CASE j = Len(en)
        BY <3>1, <4>1
      <4>2. CASE j # Len(en)
        <5>1. Len(en) \in 1 .. Len(en) /\ j < Len(en)
          BY <1>2, <2>1, <4>2
        <5>2. Pos(en, j) < Pos(en, Len(en))
          BY <2>1, <5>1, Zenon DEF Rising
        <5> QED
          BY <1>5, <3>1, <5>2
      <4> QED
        BY <4>1, <4>2
    <3> QED
      BY <1>5, <3>1, <3>2
  <2>3. CASE k # Len(en) + 1
    <3>1. k \in 1 .. Len(en) /\ k \in 0 .. Len(en)
      BY <1>2, <2>3
    <3>2. Pos(en, j) < Pos(en, k)
      BY <1>13, <2>1, <3>1, Zenon DEF Rising
    <3> QED
      BY <1>2, <2>1, <3>1, <3>2
  <2> QED
    BY <2>2, <2>3
<1>14. m <= Pos(en2, Len(en2))
  BY <1>2, <1>5
<1>15. Rising(en2)
  BY <1>13, Zenon DEF Rising
<1> QED
  BY <1>12, <1>14, <1>15, Zenon DEF s2, en2

(* A system call. *)
LEMMA BookMoved ==
  ASSUME NEW s, NEW en, NEW m \in Nat, NEW dn, NEW n \in Nat, Book(s, 0, 0, en, m, dn)
  PROVE  Book(s, 0, n, en, m + n, dn)
<1>1. (m + n) - n = m - 0
  OBVIOUS
<1> QED
  BY <1>1, Zenon DEF Book

(* The entry at hand ends where its operation does. *)
EndsAt(s, a, r, en, m) == s[a + 1].len = Pos(en, Before(s, en) + a + 1) - (m - r)

(* The books say so. *)
LEMMA EntryEnds ==
  ASSUME NEW s \in Seq(Entry), NEW en \in Seq(Nat), NEW m \in Nat, NEW dn \in Seq(Answer), NEW r \in Nat,
         NEW a \in Nat, a < Len(s), Book(s, a, r, en, m, dn)
  PROVE  EndsAt(s, a, r, en, m)
<1>1. Len(s) \in Nat /\ Len(en) \in Nat /\ Len(s) <= Len(en) /\ Before(s, en) \in Nat /\ s # << >>
  BY LenProperties DEF Book, Before
<1>2. CASE a = 0
  BY <1>1, <1>2 DEF Book, EndsAt
<1>3. CASE a # 0
  <2> DEFINE b == Before(s, en)
  <2>1. a + 1 \in 2 .. Len(s) /\ a > 0
    BY <1>1, <1>3
  <2>2. s[a + 1].len = Pos(en, b + (a + 1)) - Pos(en, b + (a + 1) - 1) /\ m - r = Pos(en, b + a)
    BY <2>1 DEF Book
  <2>3. b \in Nat
    BY <1>1
  <2> HIDE DEF b
  <2>4. b + (a + 1) = b + a + 1 /\ b + (a + 1) - 1 = b + a
    BY <2>3
  <2> QED
    BY <2>2, <2>4 DEF b, EndsAt
<1> QED
  BY <1>2, <1>3

(* A callback. *)
LEMMA BookComplete ==
  ASSUME NEW s \in Seq(Entry), NEW en \in Seq(Nat), NEW m \in Nat, NEW dn \in Seq(Answer), NEW r \in Nat,
         NEW a \in Nat, a < Len(s), s[a + 1].len <= r, Book(s, a, r, en, m, dn)
  PROVE  Book(s, a + 1, r - s[a + 1].len, en, m, Append(dn, [id |-> s[a + 1].id, status |-> "OK"]))
<1> DEFINE b == Before(s, en)
           p == Pos(en, b + a + 1)
           l == s[a + 1].len
           w == [id |-> s[a + 1].id, status |-> "OK"]
           dn2 == Append(dn, w)
<1>1. Len(s) \in Nat /\ Len(en) \in Nat /\ Len(s) <= Len(en) /\ b \in Nat /\ b + Len(s) = Len(en)
  BY LenProperties DEF Book, Before
<1>2. l = p - (m - r)
  <2>1. EndsAt(s, a, r, en, m)
    BY EntryEnds, Zenon
  <2> QED
    BY <2>1, Zenon DEF EndsAt
<1>3. a + 1 \in 1 .. Len(s) /\ b + a + 1 \in 0 .. Len(en) /\ b + (a + 1) = b + a + 1
  <2> DEFINE x == Len(s)
             y == Len(en)
  <2>1. x \in Nat /\ y \in Nat /\ b \in Nat /\ b + x = y /\ a < x
    BY <1>1, Zenon
  <2> HIDE DEF x, y, b
  <2>2. a + 1 \in 1 .. x /\ b + a + 1 \in 0 .. y /\ b + (a + 1) = b + a + 1
    BY <2>1
  <2> QED
    BY <2>2 DEF x, y
<1>4. p \in Nat
  BY <1>3, PosNat, Zenon
<1>5. s[a + 1] \in Entry
  BY <1>3, ElementOfSeq, Zenon
<1>6. l \in Nat /\ s[a + 1].id = b + a + 1
  <2>1. s[a + 1].id = b + (a + 1)
    BY <1>3, Zenon DEF Book
  <2> QED
    BY <1>3, <1>5, <2>1 DEF Entry
<1>7. Len(dn) = b + a /\ (\A k \in 1 .. Len(dn) : dn[k] = [id |-> k, status |-> "OK"])
  BY Zenon DEF Book
<1>8. Len(dn2) = b + (a + 1) /\ (\A k \in 1 .. Len(dn) : dn2[k] = dn[k]) /\ dn2[Len(dn) + 1] = w
  <2> HIDE DEF w
  <2>1. Len(dn2) = Len(dn) + 1 /\ (\A k \in 1 .. Len(dn) : dn2[k] = dn[k]) /\ dn2[Len(dn) + 1] = w
    OBVIOUS
  <2> QED
    BY <1>1, <1>3, <1>7, <2>1
<1>9. w = [id |-> b + a + 1, status |-> "OK"]
  BY <1>6, Zenon
<1> HIDE DEF dn2, w
<1>10. ASSUME NEW k \in 1 .. Len(dn2) PROVE dn2[k] = [id |-> k, status |-> "OK"]
  <2>1. CASE k = Len(dn) + 1
    BY <1>1, <1>7, <1>8, <1>9, <2>1
  <2>2. CASE k # Len(dn) + 1
    <3>1. k \in 1 .. Len(dn)
      <4> DEFINE x == Len(dn)
                 y == Len(dn2)
      <4>1. y = b + (a + 1) /\ x = b + a /\ b \in Nat /\ k \in 1 .. y /\ k # x + 1
        BY <1>1, <1>7, <1>8, <2>2, Zenon
      <4> HIDE DEF x, y, b
      <4>2. k \in 1 .. x
        BY <4>1
      <4> QED
        BY <4>2 DEF x
    <3> QED
      BY <1>7, <1>8, <3>1
  <2> QED
    BY <2>1, <2>2
<1>11. m - (r - l) = Pos(en, b + (a + 1))
  <2>1. m - (r - l) = p
    <3> HIDE DEF l, p
    <3> QED
      BY <1>2, <1>4, <1>6
  <2> QED
    BY <1>3, <2>1
<1>12. a + 1 > 0 /\ a + 1 # 0
  OBVIOUS
<1> HIDE DEF b, l
<1>13. /\ \A k \in 1 .. Len(s) : s[k].id = b + k
       /\ \A k \in 2 .. Len(s) : s[k].len = Pos(en, b + k) - Pos(en, b + k - 1)
  BY Zenon DEF Book, b
<1>14. Book(s, a + 1, r - l, en, m, dn2)
  BY <1>1, <1>8, <1>10, <1>11, <1>12, <1>13, Zenon DEF Book, b
<1> QED
  BY <1>14 DEF l, dn2, w

(* The sizes that a book relates. *)
Sizes(s, a, en, dn) ==
  /\ Len(s) \in Nat /\ Len(en) \in Nat /\ Before(s, en) \in Nat
  /\ Before(s, en) + Len(s) = Len(en) /\ Len(dn) = Before(s, en) + a

(* The entries are the last operations. *)
LEMMA BookParts ==
  ASSUME NEW s \in Seq(Entry), NEW a \in Nat, NEW r \in Nat, NEW en \in Seq(Nat), NEW m \in Nat,
         NEW dn \in Seq(Answer), Book(s, a, r, en, m, dn)
  PROVE  Sizes(s, a, en, dn)
<1>1. Len(s) \in Nat /\ Len(en) \in Nat
  BY LenProperties
<1>2. Len(s) <= Len(en) /\ Len(dn) = Before(s, en) + a
  BY Zenon DEF Book
<1> QED
  BY <1>1, <1>2 DEF Before, Sizes

(* Positions never fall. *)
LEMMA PosMonotone ==
  ASSUME NEW en \in Seq(Nat), Rising(en), NEW j \in 0 .. Len(en), NEW k \in 0 .. Len(en), j <= k
  PROVE  Pos(en, j) <= Pos(en, k) /\ Pos(en, j) \in Nat /\ Pos(en, k) \in Nat
<1>1. Pos(en, j) \in Nat /\ Pos(en, k) \in Nat
  BY PosNat
<1>2. CASE j = k
  BY <1>1, <1>2
<1>3. CASE j # k
  <2>1. j < k /\ k \in 1 .. Len(en)
    BY <1>3, LenProperties
  <2>2. Pos(en, j) < Pos(en, k)
    BY <2>1, Zenon DEF Rising
  <2> QED
    BY <1>1, <2>2
<1> QED
  BY <1>2, <1>3

(* The end of a loop. *)
LEMMA BookLeave ==
  ASSUME NEW s \in Seq(Entry), NEW en \in Seq(Nat), NEW m \in Nat, NEW dn \in Seq(Answer), NEW r \in Nat,
         NEW a \in Nat, Book(s, a, r, en, m, dn), a <= Len(s),
         NEW left \in Seq(Entry), Len(left) = Len(s) - a,
         left # << >> =>
           /\ a < Len(s) /\ r < s[a + 1].len
           /\ left[1] = [id |-> s[a + 1].id, len |-> s[a + 1].len - r]
           /\ \A k \in 2 .. Len(left) : left[k] = s[a + k],
         left = << >> => a = Len(s) /\ r = 0
  PROVE  Book(left, 0, 0, en, m, dn)
<1> DEFINE b == Before(s, en)
           b2 == Before(left, en)
           n == Len(s)
           q == Len(en)
           n2 == Len(left)
<1>1. n \in Nat /\ q \in Nat /\ b \in Nat /\ b + n = q /\ Len(dn) = b + a
  <2>1. Sizes(s, a, en, dn)
    BY BookParts, Zenon
  <2> QED
    BY <2>1, Zenon DEF Sizes
<1>2. n2 \in Nat /\ n2 = n - a /\ b2 = q - n2 /\ a <= n
  BY LenProperties DEF Before
<1>3. /\ (\A k \in 1 .. n : s[k].id = b + k)
      /\ (\A k \in 2 .. n : s[k].len = Pos(en, b + k) - Pos(en, b + k - 1))
      /\ (a > 0 => m - r = Pos(en, b + a))
      /\ (a = 0 => Pos(en, b) <= m - r)
      /\ (a = 0 /\ s = << >> => m - r = Pos(en, b))
      /\ (\A k \in 1 .. Len(dn) : dn[k] = [id |-> k, status |-> "OK"])
  BY Zenon DEF Book
<1>4. left # << >> => s[a + 1].len = Pos(en, b + a + 1) - (m - r)
  <2>1. left # << >> => EndsAt(s, a, r, en, m)
    BY EntryEnds, Zenon
  <2> QED
    BY <2>1, Zenon DEF EndsAt
<1>5. left # << >> => /\ a < n /\ r < s[a + 1].len
                      /\ left[1].id = s[a + 1].id /\ left[1].len = s[a + 1].len - r
                      /\ \A k \in 2 .. n2 : left[k] = s[a + k]
  <2> SUFFICES ASSUME left # << >>
               PROVE  /\ a < n /\ r < s[a + 1].len
                      /\ left[1].id = s[a + 1].id /\ left[1].len = s[a + 1].len - r
                      /\ \A k \in 2 .. n2 : left[k] = s[a + k]
    BY Zenon
  <2>1. /\ a < n /\ r < s[a + 1].len
        /\ left[1] = [id |-> s[a + 1].id, len |-> s[a + 1].len - r]
        /\ \A k \in 2 .. n2 : left[k] = s[a + k]
    BY Zenon
  <2>2. left[1].id = s[a + 1].id /\ left[1].len = s[a + 1].len - r
    BY <2>1
  <2> QED
    BY <2>1, <2>2, Zenon
<1>6. (left # << >> <=> n2 # 0) /\ (s = << >> <=> n = 0) /\ (left = << >> => a = n /\ r = 0)
  BY <1>1, <1>2, EmptySeq
<1> HIDE DEF b, b2, n, q, n2
<1>7. b2 = b + a /\ n2 <= q /\ b + a \in 0 .. q
  BY <1>1, <1>2
<1>8. Pos(en, b + a) \in Nat
  BY <1>7, PosNat, Zenon DEF q
<1>9. ASSUME NEW k \in 1 .. n2 PROVE left[k].id = b2 + k
  <2>1. left # << >> /\ a + k \in 1 .. n /\ a + 1 \in 1 .. n
    BY <1>1, <1>2, <1>6
  <2>2. left[k].id = s[a + k].id
    <3>1. CASE k = 1
      BY <1>5, <2>1, <3>1, Zenon
    <3>2. CASE k # 1
      <4>1. k \in 2 .. n2
        BY <1>2, <3>2
      <4> QED
        BY <1>5, <2>1, <4>1, Zenon
    <3> QED
      BY <3>1, <3>2
  <2>3. s[a + k].id = b + (a + k)
    BY <1>3, <2>1, Zenon
  <2>4. b + (a + k) = b2 + k
    BY <1>1, <1>7
  <2> QED
    BY <2>2, <2>3, <2>4, Zenon
<1>10. ASSUME NEW k \in 2 .. n2 PROVE left[k].len = Pos(en, b2 + k) - Pos(en, b2 + k - 1)
  <2>1. left # << >> /\ a + k \in 2 .. n
    BY <1>1, <1>2, <1>6
  <2>2. s[a + k].len = Pos(en, b + (a + k)) - Pos(en, b + (a + k) - 1)
    BY <1>3, <2>1, Zenon
  <2>3. b + (a + k) = b2 + k /\ b + (a + k) - 1 = b2 + k - 1
    BY <1>1, <1>7
  <2>4. left[k] = s[a + k]
    BY <1>5, <2>1, Zenon
  <2> QED
    BY <2>2, <2>3, <2>4, Zenon
<1>11. Pos(en, b2) <= m - 0
  <2> DEFINE p == Pos(en, b + a)
  <2>1. p \in Nat /\ (a > 0 => m - r = p) /\ (a = 0 => p <= m - r)
    <3>1. a = 0 => b + a = b
      BY <1>1
    <3> QED
      BY <1>3, <1>8, <3>1, Zenon
  <2> HIDE DEF p
  <2>2. p <= m - 0
    BY <2>1
  <2> QED
    BY <1>7, <2>2, Zenon DEF p
<1>12. left = << >> => m - 0 = Pos(en, b2)
  <2> SUFFICES ASSUME left = << >> PROVE m - 0 = Pos(en, b2)
    OBVIOUS
  <2>1. a = n /\ r = 0 /\ (a = 0 => s = << >>)
    BY <1>6
  <2>2. a = 0 => b = b + a
    BY <1>1
  <2>3. m - r = Pos(en, b + a)
    <3>1. CASE a = 0
      BY <1>3, <2>1, <2>2, <3>1, Zenon
    <3>2. CASE a # 0
      <4>1. a > 0
        BY <3>2
      <4> QED
        BY <1>3, <4>1, Zenon
    <3> QED
      BY <3>1, <3>2
  <2> QED
    BY <1>7, <2>1, <2>3, Zenon
<1>13. left # << >> => left[1].len = Pos(en, b2 + 1) - (m - 0)
  <2> SUFFICES ASSUME left # << >> PROVE left[1].len = Pos(en, b2 + 1) - (m - 0)
    OBVIOUS
  <2> DEFINE p == Pos(en, b + a + 1)
  <2>1. b + a + 1 \in 0 .. q
    BY <1>1, <1>5
  <2>2. p \in Nat
    BY <2>1, PosNat, Zenon DEF q
  <2>3. left[1].len = (p - (m - r)) - r
    BY <1>4, <1>5, Zenon
  <2> HIDE DEF p
  <2>4. (p - (m - r)) - r = p - (m - 0)
    BY <2>2
  <2> QED
    BY <1>7, <2>3, <2>4, Zenon DEF p
<1>14. Len(dn) = b2 + 0 /\ ~ (0 > 0)
  BY <1>1, <1>7
<1> QED
  BY <1>3, <1>7, <1>9, <1>10, <1>11, <1>12, <1>13, <1>14, Zenon DEF Book, b2, n2, q

(* Deleting the socket cancels exactly what has not been moved. *)
LEMMA BookClosed ==
  ASSUME NEW s \in Seq(Entry), NEW en \in Seq(Nat), NEW m \in Nat, NEW dn \in Seq(Answer),
         Book(s, 0, 0, en, m, dn), Rising(en), NEW dn2 \in Seq(Answer),
         Len(dn2) = Len(dn) + Len(s), \A k \in 1 .. Len(dn) : dn2[k] = dn[k],
         \A k \in 1 .. Len(s) : dn2[Len(dn) + k] = [id |-> s[k].id, status |-> "EIO"]
  PROVE  Closed(<< >>, en, m, dn2)
<1> DEFINE b == Before(s, en)
           n == Len(s)
           q == Len(en)
<1>1. n \in Nat /\ q \in Nat /\ b \in Nat /\ b + n = q /\ Len(dn) = b + 0
  <2>1. 0 \in Nat
    OBVIOUS
  <2>2. Sizes(s, 0, en, dn)
    BY <2>1, BookParts, Zenon
  <2> QED
    BY <2>2, Zenon DEF Sizes
<1>2. /\ (\A k \in 1 .. n : s[k].id = b + k)
      /\ Pos(en, b) <= m - 0
      /\ (s # << >> => s[1].len = Pos(en, b + 1) - (m - 0))
      /\ (\A k \in 1 .. Len(dn) : dn[k] = [id |-> k, status |-> "OK"])
  BY Zenon DEF Book
<1>3. /\ Len(dn2) = Len(dn) + n /\ (\A k \in 1 .. Len(dn) : dn2[k] = dn[k])
      /\ \A k \in 1 .. n : dn2[Len(dn) + k] = [id |-> s[k].id, status |-> "EIO"]
  BY Zenon
<1>4. s # << >> <=> n # 0
  BY <1>1, EmptySeq
<1>5. n # 0 => s[1].len \in Nat \ {0}
  <2> SUFFICES ASSUME n # 0 PROVE s[1].len \in Nat \ {0}
    OBVIOUS
  <2>1. 1 \in 1 .. Len(s)
    BY <1>1
  <2>2. s[1] \in Entry
    BY <2>1, ElementOfSeq, Zenon
  <2> QED
    BY <2>2 DEF Entry
<1> HIDE DEF b, n, q
<1>6. Len(dn) = b /\ Len(dn2) = q
  <2>1. b + 0 = b
    BY <1>1
  <2> QED
    BY <1>1, <1>3, <2>1, Zenon
<1>7. ASSUME NEW k \in 1 .. q
      PROVE  dn2[k].id = k /\ (dn2[k].status = "OK" <=> en[k] <= m)
  <2>1. k \in 0 .. q /\ k # 0 /\ b \in 0 .. q
    BY <1>1
  <2>2. en[k] = Pos(en, k) /\ Pos(en, k) \in Nat /\ Pos(en, b) \in Nat
    BY <2>1, PosNat, Zenon DEF q
  <2>3. CASE k <= b
    <3>1. k \in 1 .. Len(dn)
      BY <1>1, <1>6, <2>3
    <3>2. dn2[k] = [id |-> k, status |-> "OK"]
      BY <1>2, <1>3, <3>1, Zenon
    <3>5. dn2[k].id = k /\ dn2[k].status = "OK"
      BY <3>2
    <3>3. Pos(en, k) <= Pos(en, b)
      BY <2>1, <2>3, PosMonotone, Zenon DEF q
    <3>4. Pos(en, k) <= m
      BY <1>2, <2>2, <3>3
    <3> QED
      BY <2>2, <3>5, <3>4, Zenon
  <2>4. CASE ~ (k <= b)
    <3>1. k - b \in 1 .. n /\ b + (k - b) = k /\ n # 0 /\ b + 1 \in 0 .. q /\ b + 1 <= k
      BY <1>1, <2>4
    <3>2. dn2[k] = [id |-> s[k - b].id, status |-> "EIO"] /\ s[k - b].id = k
      BY <1>2, <1>3, <1>6, <3>1, Zenon
    <3>3. dn2[k].id = k /\ dn2[k].status # "OK"
      BY <3>2
    <3>4. Pos(en, b + 1) <= Pos(en, k) /\ Pos(en, b + 1) \in Nat
      BY <2>1, <3>1, PosMonotone, Zenon DEF q
    <3>5. s[1].len = Pos(en, b + 1) - (m - 0) /\ s[1].len \in Nat \ {0}
      BY <1>2, <1>4, <1>5, <3>1, Zenon
    <3>6. ~ (Pos(en, k) <= m)
      BY <2>2, <3>4, <3>5, SMTT(30)
    <3> QED
      BY <2>2, <3>3, <3>6, Zenon
  <2> QED
    BY <2>3, <2>4
<1> QED
  BY <1>6, <1>7, Zenon DEF Closed, q


(* The books of the two directions. *)
Limits(d) ==
  moved[d] <= Pos(ends[d], Len(ends[d])) /\ Rising(ends[d]) /\ Len(ends[d]) <= NOps

Account(d) ==
  IF pc = "deleted" THEN Closed(ents[d], ends[d], moved[d], done[d])
  ELSE Book(ents[d], i[d], ret[d], ends[d], moved[d], done[d])

(* What the books say of one direction. *)
LEMMA BooksFor ==
  ASSUME NEW d \in Dirs, IInv
  PROVE  /\ Limits(d) /\ Account(d)
         /\ pc # "deleted" => Book(ents[d], i[d], ret[d], ends[d], moved[d], done[d])
         /\ ents[d] \in Seq(Entry) /\ i[d] \in Nat /\ ret[d] \in Nat /\ ends[d] \in Seq(Nat)
         /\ moved[d] \in Nat /\ done[d] \in Seq(Answer)
<1>1. Books /\ Tables
  BY Zenon DEF IInv
<1>2. Limits(d) /\ Account(d)
  BY <1>1, Zenon DEF Books, Limits, Account
<1>3. pc # "deleted" => Book(ents[d], i[d], ret[d], ends[d], moved[d], done[d])
  BY <1>2, Zenon DEF Account
<1>4. /\ ents[d] \in Seq(Entry) /\ i[d] \in Nat /\ ret[d] \in Nat /\ ends[d] \in Seq(Nat)
      /\ moved[d] \in Nat /\ done[d] \in Seq(Answer)
  BY <1>1 DEF Tables
<1> QED
  BY <1>2, <1>3, <1>4, Zenon

(* The books are those of the directions, in the next state. *)
LEMMA BooksNext ==
  ASSUME \A d \in Dirs : Limits(d)' /\ Account(d)'
  PROVE  Books'
BY Zenon DEF Books, Limits, Account

(* The books of a direction and of the other. *)
LEMMA BooksBoth ==
  ASSUME NEW d \in Dirs, Limits(d)', Account(d)', Limits(Other(d))', Account(Other(d))'
  PROVE  Books'
<1>1. ASSUME NEW e \in Dirs PROVE Limits(e)' /\ Account(e)'
  <2>1. e = d \/ e = Other(d)
    BY TwoDirs, Zenon
  <2> QED
    BY <2>1, Zenon
<1> QED
  BY <1>1, BooksNext, Zenon

(* A direction that a step leaves alone. *)
LEMMA BookSame ==
  ASSUME IInv, NEW d \in Dirs, pc # "deleted", pc' # "deleted",
         ents'[d] = ents[d], i'[d] = i[d], ret'[d] = ret[d], ends'[d] = ends[d],
         moved'[d] = moved[d], done'[d] = done[d]
  PROVE  Limits(d)' /\ Account(d)'
<1>1. Limits(d) /\ Book(ents[d], i[d], ret[d], ends[d], moved[d], done[d])
  BY BooksFor, Zenon
<1>2. Limits(d)'
  BY <1>1, Zenon DEF Limits
<1>3. Book(ents'[d], i'[d], ret'[d], ends'[d], moved'[d], done'[d])
  BY <1>1, Zenon
<1> QED
  BY <1>2, <1>3, Zenon DEF Account

(* A step that touches no entry, byte or callback. *)
LEMMA BooksSame ==
  ASSUME IInv, pc' = "deleted" <=> pc = "deleted", UNCHANGED <<ents, i, ret, ends, moved, done>>
  PROVE  Books'
<1>1. ASSUME NEW d \in Dirs PROVE Limits(d)' /\ Account(d)'
  <2>1. Limits(d) /\ Account(d)
    BY BooksFor, Zenon
  <2> QED
    BY <2>1, Zenon DEF Limits, Account
<1> QED
  BY <1>1, BooksNext, Zenon

(* put(): either everything goes on, or everyone is told. *)
LEMMA BooksPut ==
  ASSUME IInv, Stack', NEW es \in [Dirs -> Seq(Entry)], NEW next, next # "deleted", Put(es, next),
         UNCHANGED <<ends, moved>>,
         \A d \in Dirs : Book(es[d], i'[d], ret'[d], ends[d], moved[d], done[d])
  PROVE  Books'
<1>1. TypeOK /\ Tables
  BY Zenon DEF IInv
<1>2. ASSUME NEW d \in Dirs PROVE Limits(d)'
  <2>1. Limits(d)
    BY BooksFor, Zenon
  <2> QED
    BY <2>1, Zenon DEF Limits
<1>3. CASE ref # 1
  <2>1. ents' = es /\ pc' # "deleted" /\ done' = done
    BY <1>1, <1>3, PutEffect, Zenon
  <2>2. ASSUME NEW d \in Dirs PROVE Account(d)'
    BY <2>1, Zenon DEF Account
  <2> QED
    BY <1>2, <2>2, BooksNext, Zenon
<1>4. CASE ref = 1
  <2>1. ents' = Both(<< >>) /\ pc' = "deleted" /\ done' = Cancelled(es)
    BY <1>1, <1>4, PutEffect, Zenon
  <2>2. ASSUME NEW d \in Dirs PROVE Account(d)'
    <3>1. i'[d] = 0 /\ ret'[d] = 0
      BY <2>1, Zenon DEF Stack
    <3>2. Book(es[d], 0, 0, ends[d], moved[d], done[d])
      BY <3>1, Zenon
    <3>3. /\ es[d] \in Seq(Entry) /\ ends[d] \in Seq(Nat) /\ moved[d] \in Nat /\ done[d] \in Seq(Answer)
          /\ Rising(ends[d])
      BY BooksFor DEF Limits
    <3>4. /\ Cancelled(es)[d] \in Seq(Answer)
          /\ Len(Cancelled(es)[d]) = Len(done[d]) + Len(es[d])
          /\ \A k \in 1 .. Len(done[d]) : Cancelled(es)[d][k] = done[d][k]
          /\ \A k \in 1 .. Len(es[d]) :
               Cancelled(es)[d][Len(done[d]) + k] = [id |-> es[d][k].id, status |-> "EIO"]
      <4>1. Cancelled(es) \in [Dirs -> Seq(Answer)]
        BY <1>1, CancelledType, Zenon
      <4>2. Cancelled(es)[d] \in Seq(Answer)
        BY <4>1
      <4> QED
        BY <1>1, <4>2, CancelledType, Zenon
    <3>5. Closed(<< >>, ends[d], moved[d], Cancelled(es)[d])
      BY <3>2, <3>3, <3>4, BookClosed, Zenon
    <3>6. ents'[d] = << >> /\ done'[d] = Cancelled(es)[d]
      BY <2>1, Zenon DEF Both
    <3> QED
      BY <2>1, <3>5, <3>6, Zenon DEF Account
  <2> QED
    BY <1>2, <2>2, BooksNext, Zenon
<1> QED
  BY <1>3, <1>4

(* A new operation is written into the books of its direction. *)
LEMMA BooksStart ==
  ASSUME IInv, NEW d \in Dirs, NEW len \in Lens, Start(d, len), ~ (Len(ents[d]) >= MAX_SGS)
  PROVE  Books'
<1> DEFINE o == Other(d)
           e == [id |-> Len(ends[d]) + 1, len |-> len]
           v == Ended(d) + len
<1>1. /\ Ended(d) \in Nat /\ Len(ends[d]) \in Nat /\ Len(ends[d]) < NOps /\ len \in Nat \ {0}
      /\ ends'[d] = Append(ends[d], v) /\ ends'[o] = ends[o]
      /\ ents'[d] = Append(ents[d], e) /\ ents'[o] = ents[o]
  BY StartSeq, Zenon
<1>2. /\ UNCHANGED <<i, ret, moved, done>>
      /\ pc = "idle" \/ (pc = Loop(o) /\ ~ Active(d))
      /\ pc' = pc \/ pc' = d
  BY Zenon DEF Start
<1>3. pc # "deleted" /\ pc' # "deleted" /\ o \in Dirs
  <2>1. d # "deleted" /\ Loop(o) # "deleted" /\ o \in Dirs
    BY TwoDirs DEF Dirs
  <2> QED
    BY <1>2, <2>1
<1>4. i[d] = 0 /\ ret[d] = 0
  <2>1. ~ Active(d)
    BY <1>2, StackParts, Zenon DEF IInv, Frames
  <2> QED
    BY <2>1, Zenon DEF IInv, Stack
<1>5. /\ Book(ents[d], 0, 0, ends[d], moved[d], done[d]) /\ Limits(d)
      /\ ents[d] \in Seq(Entry) /\ ends[d] \in Seq(Nat)
      /\ moved[d] \in Nat /\ done[d] \in Seq(Answer)
  BY <1>3, <1>4, BooksFor, Zenon
<1>6. e \in Entry /\ e.id = Len(ends[d]) + 1 /\ e.len = len /\ NOps \in Nat
  BY <1>1, VecAssumption DEF Entry
<1>7. Ended(d) = Pos(ends[d], Len(ends[d])) /\ v \in Nat
  <2>1. Ended(d) = Pos(ends[d], Len(ends[d]))
    BY EndedPos, Zenon DEF IInv
  <2> QED
    BY <1>1, <2>1
<1>8. v = Pos(ends[d], Len(ends[d])) + len
  BY <1>7, Zenon
<1>9. Rising(ends[d]) /\ moved[d] <= Pos(ends[d], Len(ends[d]))
  BY <1>5, Zenon DEF Limits
<1> HIDE DEF e, v
<1>10. /\ Book(Append(ents[d], e), 0, 0, Append(ends[d], v), moved[d], done[d])
       /\ Rising(Append(ends[d], v)) /\ moved[d] <= Pos(Append(ends[d], v), Len(Append(ends[d], v)))
  BY <1>1, <1>5, <1>6, <1>7, <1>8, <1>9, BookAppend, Zenon
<1>11. Len(Append(ends[d], v)) = Len(ends[d]) + 1
  BY <1>5, <1>7, PosAppend, Zenon
<1>12. Len(Append(ends[d], v)) <= NOps
  BY <1>1, <1>6, <1>11
<1>13. Limits(d)'
  BY <1>1, <1>2, <1>10, <1>12, Zenon DEF Limits
<1>14. Account(d)'
  BY <1>1, <1>2, <1>3, <1>4, <1>10, Zenon DEF Account
<1>15. Limits(o)' /\ Account(o)'
  BY <1>1, <1>2, <1>3, BookSame, Zenon
<1> QED
  BY <1>13, <1>14, <1>15, BooksBoth, Zenon

(* A system call moves bytes that were asked for. *)
LEMMA BooksMoved ==
  ASSUME IInv, NEW d \in Dirs, pc = d, ents[d] # << >>, NEW n \in Nat, Moved(d, n), n <= Asked(d)
  PROVE  Books'
<1> DEFINE o == Other(d)
<1>1. /\ pc' = Loop(d)
      /\ i'[d] = 0 /\ i'[o] = i[o] /\ ret'[d] = n /\ ret'[o] = ret[o]
      /\ moved'[d] = moved[d] + n /\ moved'[o] = moved[o]
      /\ UNCHANGED <<ents, ends, done>>
  BY MovedEffect, Zenon
<1>2. pc # "deleted" /\ pc' # "deleted" /\ o \in Dirs
  <2>1. d # "deleted" /\ Loop(d) # "deleted" /\ o \in Dirs
    BY TwoDirs DEF Dirs
  <2> QED
    BY <1>1, <2>1
<1>3. /\ Asked(d) = Ended(d) - moved[d] /\ Ended(d) \in Nat /\ moved[d] \in Nat
      /\ i[d] = 0 /\ ret[d] = 0
  BY AskedNat, Zenon
<1>4. Book(ents[d], 0, 0, ends[d], moved[d], done[d]) /\ Limits(d)
  BY <1>2, <1>3, BooksFor, Zenon
<1>5. Book(ents[d], 0, n, ends[d], moved[d] + n, done[d])
  BY <1>3, <1>4, BookMoved, Zenon
<1>6. moved[d] + n <= Ended(d)
  BY <1>3
<1>7. Ended(d) = Pos(ends[d], Len(ends[d]))
  BY EndedPos, Zenon DEF IInv
<1>8. Limits(d)'
  BY <1>1, <1>4, <1>6, <1>7, Zenon DEF Limits
<1>9. Account(d)'
  BY <1>1, <1>2, <1>5, Zenon DEF Account
<1>10. Limits(o)' /\ Account(o)'
  BY <1>1, <1>2, BookSame, Zenon
<1> QED
  BY <1>8, <1>9, <1>10, BooksBoth, Zenon

(* A callback. *)
LEMMA BooksComplete ==
  ASSUME IInv, NEW d \in Dirs, Complete(d)
  PROVE  Books'
<1> DEFINE o == Other(d)
           e == ents[d][i[d] + 1]
<1>1. /\ pc = Loop(d) /\ i[d] < Len(ents[d]) /\ e.len <= ret[d]
      /\ i'[d] = i[d] + 1 /\ i'[o] = i[o]
      /\ ret'[d] = ret[d] - e.len /\ ret'[o] = ret[o]
      /\ done'[d] = Append(done[d], [id |-> e.id, status |-> "OK"]) /\ done'[o] = done[o]
      /\ UNCHANGED <<ents, pc, ends, moved>>
  BY CompleteEffect, Zenon
<1>2. pc # "deleted" /\ pc' # "deleted" /\ o \in Dirs
  BY <1>1, TwoDirs
<1>3. /\ Book(ents[d], i[d], ret[d], ends[d], moved[d], done[d]) /\ Limits(d)
      /\ ents[d] \in Seq(Entry) /\ i[d] \in Nat /\ ret[d] \in Nat /\ ends[d] \in Seq(Nat)
      /\ moved[d] \in Nat /\ done[d] \in Seq(Answer)
  BY <1>2, BooksFor, Zenon
<1>4. Book(ents[d], i[d] + 1, ret[d] - e.len, ends[d], moved[d], Append(done[d], [id |-> e.id, status |-> "OK"]))
  BY <1>1, <1>3, BookComplete, Zenon
<1>5. Limits(d)'
  BY <1>1, <1>3, Zenon DEF Limits
<1>6. Account(d)'
  BY <1>1, <1>2, <1>4, Zenon DEF Account
<1>7. Limits(o)' /\ Account(o)'
  BY <1>1, <1>2, BookSame, Zenon
<1> QED
  BY <1>5, <1>6, <1>7, BooksBoth, Zenon

(* The end of a loop. *)
LEMMA BooksLeave ==
  ASSUME IInv, Stack', NEW d \in Dirs, Partial(d) \/ AllComplete(d)
  PROVE  Books'
<1> DEFINE o == Other(d)
<1>1. PICK left \in Seq(Entry) :
         /\ pc = Loop(d) /\ Leave(d, left)
         /\ [ents EXCEPT ![d] = left] \in [Dirs -> Seq(Entry)]
         /\ [ents EXCEPT ![d] = left][d] = left
         /\ [ents EXCEPT ![d] = left][o] = ents[o]
         /\ Len(left) = Len(ents[d]) - i[d]
         /\ left # << >> =>
              /\ i[d] < Len(ents[d]) /\ ret[d] < ents[d][i[d] + 1].len
              /\ left[1] = [id |-> ents[d][i[d] + 1].id, len |-> ents[d][i[d] + 1].len - ret[d]]
              /\ \A k \in 2 .. Len(left) : left[k] = ents[d][i[d] + k]
         /\ left = << >> => i[d] = Len(ents[d]) /\ ret[d] = 0
  BY LeaveSeq, Zenon
<1>2. /\ i'[d] = 0 /\ i'[o] = i[o] /\ ret'[d] = 0 /\ ret'[o] = ret[o]
      /\ Put([ents EXCEPT ![d] = left], to[d]) /\ UNCHANGED <<ends, moved>>
  BY <1>1, LeaveEffect, Zenon
<1>3. pc # "deleted" /\ o \in Dirs /\ to[d] # "deleted"
  <2>1. to[d] # "deleted"
    BY <1>1, NotBelow
  <2> QED
    BY <1>1, <2>1, TwoDirs
<1>4. /\ Book(ents[d], i[d], ret[d], ends[d], moved[d], done[d])
      /\ ents[d] \in Seq(Entry) /\ i[d] \in Nat /\ ret[d] \in Nat /\ ends[d] \in Seq(Nat)
      /\ moved[d] \in Nat /\ done[d] \in Seq(Answer)
      /\ Book(ents[o], i[o], ret[o], ends[o], moved[o], done[o])
  BY <1>3, BooksFor, Zenon
<1>5. i[d] <= Len(ents[d])
  BY TypeParts, Zenon DEF IInv, DirOK
<1>6. Book(left, 0, 0, ends[d], moved[d], done[d])
  BY <1>1, <1>4, <1>5, BookLeave, Zenon
<1> DEFINE es == [ents EXCEPT ![d] = left]
<1>7. es \in [Dirs -> Seq(Entry)] /\ es[d] = left /\ es[o] = ents[o] /\ Put(es, to[d])
  BY <1>1, <1>2, Zenon
<1> HIDE DEF es
<1>8. ASSUME NEW x \in Dirs PROVE Book(es[x], i'[x], ret'[x], ends[x], moved[x], done[x])
  <2>1. CASE x = d
    BY <1>2, <1>6, <1>7, <2>1, Zenon
  <2>2. CASE x = o
    BY <1>2, <1>4, <1>7, <2>2, Zenon
  <2> QED
    BY <2>1, <2>2, TwoDirs, Zenon
<1> QED
  BY <1>2, <1>3, <1>7, <1>8, BooksPut, Zenon

(* Every step keeps the books. *)
LEMMA BooksPreserved ==
  ASSUME IInv, [Next]_vars
  PROVE  Books'
<1>1. Stack' /\ Tables /\ TypeOK /\ Stack
  BY StackPreserved, Zenon DEF IInv
<1>2. ASSUME NEW d \in Dirs, Again(d) \/ NothingPending(d), pc = d PROVE Books'
  <2>1. pc' = to[d] /\ UNCHANGED <<ents, i, ret, ends, moved, done>>
    BY <1>2, ReturnEffect, Zenon DEF uservars
  <2>2. pc # "deleted" /\ to[d] # "deleted"
    BY <1>2, NotBelow
  <2> QED
    BY <2>1, <2>2, BooksSame, Zenon
<1>3. ASSUME NEW d \in Dirs, (d = "rx" /\ Readv) \/ (d = "tx" /\ Writev) PROVE Books'
  <2>1. /\ pc = d /\ ents[d] # << >>
        /\ \/ \E n \in Nat : Moved(d, n) /\ n <= Asked(d)
           \/ Again(d)
           \/ \E e \in {"read", "write"} : SysError(e)
    BY <1>3, SysCalls, Zenon
  <2>2. ASSUME NEW n \in Nat, Moved(d, n), n <= Asked(d) PROVE Books'
    BY <2>1, <2>2, BooksMoved, Zenon
  <2>3. ASSUME NEW e \in {"read", "write"}, SysError(e) PROVE Books'
    <3>1. pc' = "dead" /\ UNCHANGED <<ents, i, ret, ends, moved, done>>
      BY <2>3, Zenon DEF SysError, Throw, uservars
    <3>2. pc' # "deleted" /\ pc # "deleted"
      BY <2>1, <3>1 DEF Dirs
    <3> QED
      BY <3>1, <3>2, BooksSame, Zenon
  <2> QED
    BY <1>2, <2>1, <2>2, <2>3, Zenon
<1>4. ASSUME Connect \/ RunIo \/ IoOut PROVE Books'
  <2>1. /\ pc \in {"new", "idle", "io_out"} /\ pc' \in {"idle", "dead", "rx", "tx", "io_out", "io_end"}
        /\ UNCHANGED <<ents, i, ret, ends, moved, done>>
    BY <1>4, Zenon DEF Connect, RunIo, IoOut, Throw, uservars
  <2>2. pc' # "deleted" /\ pc # "deleted"
    BY <2>1
  <2> QED
    BY <2>1, <2>2, BooksSame, Zenon
<1>5. ASSUME IoEnd \/ UserPut PROVE Books'
  <2>1. /\ Put(ents, "idle") \/ Put(ents, pc)
        /\ UNCHANGED <<i, ret, ends, moved>>
        /\ pc = "io_end" \/ pc = "idle" \/ \E d \in Dirs : pc = Loop(d)
    BY <1>5, Zenon DEF IoEnd, UserPut, InCallback
  <2>2. pc # "deleted" /\ "idle" # "deleted"
    BY <2>1, TwoDirs
  <2>3. \A d \in Dirs : Book(ents[d], i'[d], ret'[d], ends[d], moved[d], done[d])
    BY <2>1, <2>2, BooksFor, Zenon
  <2>4. ents \in [Dirs -> Seq(Entry)]
    BY <1>1, Zenon DEF Tables
  <2> QED
    BY <1>1, <2>1, <2>2, <2>3, <2>4, BooksPut, Zenon
<1>6. ASSUME NEW d \in Dirs, NEW len \in Lens, Start(d, len) PROVE Books'
  <2>1. CASE Len(ents[d]) >= MAX_SGS
    <3>1. /\ pc' = "dead" /\ UNCHANGED <<ents, i, ret, ends, moved, done>>
          /\ pc = "idle" \/ pc = Loop(Other(d))
      BY <1>6, <2>1, Zenon DEF Start, Throw
    <3>2. pc' # "deleted" /\ pc # "deleted"
      BY <3>1, TwoDirs
    <3> QED
      BY <3>1, <3>2, BooksSame, Zenon
  <2>2. CASE ~ (Len(ents[d]) >= MAX_SGS)
    BY <1>6, <2>2, BooksStart, Zenon
  <2> QED
    BY <2>1, <2>2, Zenon
<1>7. ASSUME EpollWait \/ ConnectDone \/ Deliver \/ Arrive \/ PeerClose \/ UNCHANGED vars PROVE Books'
  <2>1. UNCHANGED <<pc, ents, i, ret, ends, moved, done>>
    BY <1>7, Zenon DEF EpollWait, ConnectDone, Deliver, Arrive, PeerClose, sockvars, vars, uservars
  <2> QED
    BY <2>1, BooksSame, Zenon
<1>8. ASSUME NEW d \in Dirs, NothingPending(d) \/ Complete(d) \/ Partial(d) \/ AllComplete(d) PROVE Books'
  <2>1. NothingPending(d) => pc = d
    BY Zenon DEF NothingPending
  <2> QED
    BY <1>1, <1>2, <1>8, <2>1, BooksComplete, BooksLeave, Zenon
<1> QED
  BY <1>3, <1>4, <1>5, <1>6, <1>7, <1>8, TwoDirs, Zenon DEF Next, Thread, User, Read, Write


-----------------------------------------------------------------------------
(* The array stays within its slots, and the loop within the array. *)
LEMMA DirPreserved ==
  ASSUME IInv, [Next]_vars
  PROVE  \A d \in Dirs : DirOK(d)'
<1>1. Stack' /\ Tables /\ TypeOK /\ Tables'
  BY StackPreserved, TablesPreserved, Zenon DEF IInv
<1>2. ASSUME NEW d \in Dirs
      PROVE  /\ DirOK(d) /\ ents[d] \in Seq(Entry) /\ Len(ents[d]) \in Nat /\ i[d] \in Nat /\ MAX_SGS \in Nat \ {0}
  <2>1. ents[d] \in Seq(Entry) /\ i[d] \in Nat
    BY <1>1 DEF Tables
  <2> QED
    BY <1>1, <2>1, TypeParts, LenProperties, VecAssumption
<1>3. ASSUME NEW d \in Dirs, ents'[d] = ents[d], i'[d] = i[d] PROVE DirOK(d)'
  BY <1>2, <1>3, Zenon DEF DirOK
<1>4. ASSUME NEW d \in Dirs, ents'[d] = ents[d], i'[d] = 0 PROVE DirOK(d)'
  <2>1. Len(ents[d]) <= MAX_SGS
    BY <1>2, Zenon DEF DirOK
  <2>2. 0 <= Len(ents[d])
    BY <1>2
  <2> QED
    BY <1>4, <2>1, <2>2, Zenon DEF DirOK
<1>5. ASSUME NEW d \in Dirs, ents'[d] = << >>, pc' = "deleted" PROVE DirOK(d)'
  <2>1. i'[d] = 0
    BY <1>1, <1>5, Zenon DEF Stack
  <2>2. Len(ents'[d]) = 0
    BY <1>5
  <2> QED
    BY <1>2, <2>1, <2>2 DEF DirOK
<1>6. ASSUME NEW d \in Dirs, Complete(d) PROVE \A x \in Dirs : DirOK(x)'
  <2>1. i[d] < Len(ents[d]) /\ i'[d] = i[d] + 1 /\ i'[Other(d)] = i[Other(d)] /\ ents' = ents
    BY <1>6, CompleteEffect, Zenon
  <2>2. DirOK(d)'
    <3>1. i[d] + 1 <= Len(ents[d])
      BY <1>2, <2>1
    <3> QED
      BY <1>2, <2>1, <3>1, Zenon DEF DirOK
  <2>3. DirOK(Other(d))'
    BY <1>3, <2>1, TwoDirs, Zenon
  <2> QED
    BY <2>2, <2>3, TwoDirs, Zenon
<1>7. ASSUME NEW d \in Dirs, NEW n \in Nat, Moved(d, n) PROVE \A x \in Dirs : DirOK(x)'
  <2>1. i'[d] = 0 /\ i'[Other(d)] = i[Other(d)] /\ ents' = ents
    BY <1>7, MovedEffect, Zenon
  <2> QED
    BY <1>3, <1>4, <2>1, TwoDirs
<1>8. ASSUME NEW d \in Dirs, Partial(d) \/ AllComplete(d) PROVE \A x \in Dirs : DirOK(x)'
  <2>1. PICK left \in Seq(Entry) :
          /\ Leave(d, left) /\ [ents EXCEPT ![d] = left][d] = left
          /\ [ents EXCEPT ![d] = left][Other(d)] = ents[Other(d)]
          /\ Len(left) = Len(ents[d]) - i[d]
    BY <1>8, LeaveSeq, Zenon
  <2>2. /\ i'[d] = 0 /\ i'[Other(d)] = i[Other(d)]
        /\ Put([ents EXCEPT ![d] = left], to[d])
    BY <2>1, LeaveEffect, Zenon
  <2>3. CASE ref = 1
    <3>1. ents' = Both(<< >>) /\ pc' = "deleted"
      BY <1>1, <2>2, <2>3, PutEffect, Zenon
    <3> QED
      BY <1>5, <3>1, Zenon DEF Both
  <2>4. CASE ref # 1
    <3>1. ents' = [ents EXCEPT ![d] = left]
      BY <1>1, <2>2, <2>4, PutEffect, Zenon
    <3>2. ents'[d] = left /\ ents'[Other(d)] = ents[Other(d)]
      BY <2>1, <3>1, Zenon
    <3>3. Len(ents[d]) <= MAX_SGS /\ Len(left) \in Nat
      BY <1>2, LenProperties DEF DirOK
    <3>4. Len(left) <= MAX_SGS /\ 0 <= Len(left)
      BY <1>2, <2>1, <3>3
    <3>5. DirOK(d)'
      BY <2>2, <3>2, <3>4, Zenon DEF DirOK
    <3> QED
      BY <1>3, <2>2, <3>2, <3>5, TwoDirs
  <2> QED
    BY <2>3, <2>4
<1>9. ASSUME IoEnd \/ UserPut PROVE \A x \in Dirs : DirOK(x)'
  <2>1. (Put(ents, "idle") \/ Put(ents, pc)) /\ i' = i
    BY <1>9, Zenon DEF IoEnd, UserPut
  <2>2. (ents' = Both(<< >>) /\ pc' = "deleted") \/ ents' = ents
    BY <1>1, <2>1, PutEffect, Zenon
  <2> QED
    BY <1>3, <1>5, <2>1, <2>2, Zenon DEF Both
<1>10. ASSUME NEW d \in Dirs, NEW len \in Lens, Start(d, len) PROVE \A x \in Dirs : DirOK(x)'
  <2>1. i' = i
    BY <1>10, Zenon DEF Start
  <2>2. CASE Len(ents[d]) >= MAX_SGS
    <3>1. ents' = ents
      BY <1>10, <2>2, Zenon DEF Start
    <3> QED
      BY <1>3, <2>1, <3>1, Zenon
  <2>3. CASE ~ (Len(ents[d]) >= MAX_SGS)
    <3> DEFINE e == [id |-> Len(ends[d]) + 1, len |-> len]
    <3>1. ents'[d] = Append(ents[d], e) /\ ents'[Other(d)] = ents[Other(d)]
      BY <1>10, <2>3, StartSeq, Zenon
    <3> HIDE DEF e
    <3>2. Len(Append(ents[d], e)) = Len(ents[d]) + 1
      BY <1>2, LenProperties
    <3>3. i[d] <= Len(ents[d])
      BY <1>2, Zenon DEF DirOK
    <3>4. Len(ents[d]) + 1 <= MAX_SGS /\ i[d] <= Len(ents[d]) + 1
      BY <1>2, <2>3, <3>3
    <3>5. DirOK(d)'
      BY <2>1, <3>1, <3>2, <3>4, Zenon DEF DirOK
    <3> QED
      BY <1>3, <2>1, <3>1, <3>5, TwoDirs
  <2> QED
    BY <2>2, <2>3, Zenon
<1>11. ASSUME NEW d \in Dirs, (d = "rx" /\ Readv) \/ (d = "tx" /\ Writev) PROVE \A x \in Dirs : DirOK(x)'
  <2>1. (\E n \in Nat : Moved(d, n)) \/ UNCHANGED <<ents, i>>
    BY <1>11, SysCalls, Zenon DEF Again, SysError
  <2> QED
    BY <1>3, <1>7, <2>1, Zenon
<1>12. ASSUME \/ \E d \in Dirs : NothingPending(d)
              \/ Connect \/ RunIo \/ IoOut \/ EpollWait \/ ConnectDone \/ Deliver \/ Arrive \/ PeerClose
              \/ UNCHANGED vars
       PROVE  \A x \in Dirs : DirOK(x)'
  <2>1. UNCHANGED <<ents, i>>
    BY <1>12, Zenon DEF NothingPending, Connect, RunIo, IoOut, EpollWait, ConnectDone, Deliver, Arrive,
         PeerClose, sockvars, vars
  <2> QED
    BY <1>3, <2>1, Zenon
<1> QED
  BY <1>6, <1>8, <1>9, <1>10, <1>11, <1>12, TwoDirs, Zenon DEF Next, Thread, User, Read, Write

(* Type correctness is preserved. *)
LEMMA TypePreserved ==
  ASSUME IInv, [Next]_vars
  PROVE  TypeOK'
BY TablesPreserved, PlainPreserved, KernelPreserved, DirPreserved, TypePartsNext, Zenon


-----------------------------------------------------------------------------
(* Wakeups. *)

(* The parts of Wakeups. *)
Ready   == \A d \in Dirs : pc = d => rdy[d]
Opening == (pc = "new" => link = "none") /\ (link \in {"none", "connecting"} => krcv = 0)
RxAwake == link = "up" /\ krcv > 0 => edge \/ PendingIn \/ Settled("rx")
TxFull  == ksnd > SndLow => nospace \/ Settled("tx")
TxAwake == link = "up" => edge \/ PendingOut \/ (nospace /\ ksnd > SndLow) \/ Settled("tx")

(* Wakeups has these parts. *)
LEMMA WakeupParts ==
  Wakeups <=> (pc \notin {"dead", "deleted"} => Ready /\ Opening /\ RxAwake /\ TxFull /\ TxAwake)
BY Zenon DEF Wakeups, Ready, Opening, RxAwake, TxFull, TxAwake

(* The parts make up Wakeups, in the next state. *)
LEMMA WakeupPartsNext ==
  ASSUME pc' \notin {"dead", "deleted"} => Ready' /\ Opening' /\ RxAwake' /\ TxFull' /\ TxAwake'
  PROVE  Wakeups'
<1>1. CASE pc' \in {"dead", "deleted"}
  BY <1>1, Zenon DEF Wakeups
<1>2. CASE pc' \notin {"dead", "deleted"}
  BY <1>2, Zenon DEF Wakeups, Ready, Opening, RxAwake, TxFull, TxAwake
<1> QED
  BY <1>1, <1>2

(* A step of the thread that makes no system call: what was pending stays  *)
(* so or is being tried.                                                   *)
LEMMA WakeupsStay ==
  ASSUME IInv, pc \notin {"dead", "deleted"}, UNCHANGED kvars,
         Ready', pc' = "new" => pc = "new",
         PendingIn => PendingIn' \/ Settled("rx")', PendingOut => PendingOut' \/ Settled("tx")',
         \A d \in Dirs : Settled(d) => Settled(d)'
  PROVE  Wakeups'
<1>1. Ready /\ Opening /\ RxAwake /\ TxFull /\ TxAwake
  BY WakeupParts, Zenon DEF IInv
<1>2. UNCHANGED <<link, edge, nospace, ksnd, krcv>>
  BY Zenon DEF kvars
<1>3. (Settled("rx") => Settled("rx")') /\ (Settled("tx") => Settled("tx")')
  BY TwoDirs, Zenon
<1>4. Opening'
  BY <1>1, <1>2, Zenon DEF Opening
<1>5. RxAwake'
  BY <1>1, <1>2, <1>3, Zenon DEF RxAwake
<1>6. TxFull'
  BY <1>1, <1>2, <1>3, Zenon DEF TxFull
<1>7. TxAwake'
  BY <1>1, <1>2, <1>3, Zenon DEF TxAwake
<1> QED
  BY <1>4, <1>5, <1>6, <1>7, WakeupPartsNext, Zenon

(* A direction that a step leaves alone stays settled. *)
LEMMA SettledKept ==
  ASSUME NEW d \in Dirs, Settled(d), rdy'[d] = rdy[d] \/ rdy'[d], ents'[d] = ents[d], pc # d \/ pc' = d,
         moved'[d] = moved[d], ends'[d] = ends[d], InLoop(d) => InLoop(d)'
  PROVE  Settled(d)'
BY Zenon DEF Settled

(* Returning from rx() or tx() goes on with the other loop if that is      *)
(* where the call came from, and with the second half of run_io if that is.*)
LEMMA ReturnGoesOn ==
  ASSUME IInv, NEW d \in Dirs, pc \in {d, Loop(d)}, pc' = to[d], to'[d] = "none",
         to'[Other(d)] = to[Other(d)], UNCHANGED <<ev, inio>>
  PROVE  /\ (InLoop(Other(d)) => InLoop(Other(d))')
         /\ (PendingIn => PendingIn') /\ (PendingOut => PendingOut')
         /\ Ready' /\ pc' # "new"
<1>1. /\ to[d] \in Returns /\ pc # Loop(Other(d)) /\ to[d] # "none"
      /\ pc \in Dirs \cup {"rxloop", "txloop"}
  <2>1. to[d] \in Returns /\ pc # Loop(Other(d)) /\ to[d] # "none"
    BY NotBelow, Zenon
  <2> QED
    BY <2>1, TwoDirs
<1>2. InLoop(Other(d)) => InLoop(Other(d))'
  BY <1>1, TwoDirs, Zenon DEF InLoop
<1>3. PendingIn => PendingIn'
  BY Zenon DEF PendingIn
<1>4. PendingOut => PendingOut'
  <2>1. pc # "io_out"
    BY <1>1 DEF Dirs
  <2>2. d = "rx" \/ Other(d) = "rx"
    BY TwoDirs DEF Dirs
  <2>3. to["rx"] = "io_out" => pc' = "io_out" \/ to'["rx"] = "io_out"
    BY <2>2, Zenon
  <2> QED
    BY <2>1, <2>3, Zenon DEF PendingOut
<1>5. pc' \notin Dirs /\ pc' # "new"
  BY <1>1 DEF Returns, Dirs
<1>6. Ready'
  BY <1>5, Zenon DEF Ready
<1> QED
  BY <1>2, <1>3, <1>4, <1>5, <1>6, Zenon

(* A loop that has moved all there is completes every entry. *)
LEMMA AllMoved ==
  ASSUME IInv, NEW d \in Dirs, pc # "deleted", i[d] < Len(ents[d]), ret[d] < ents[d][i[d] + 1].len
  PROVE  moved[d] # Pos(ends[d], Len(ends[d]))
<1> DEFINE s == ents[d]
           en == ends[d]
           b == Before(s, en)
           a == i[d]
           m == moved[d]
           r == ret[d]
<1>1. /\ Book(s, a, r, en, m, done[d]) /\ Rising(en)
      /\ s \in Seq(Entry) /\ a \in Nat /\ r \in Nat /\ en \in Seq(Nat) /\ m \in Nat /\ done[d] \in Seq(Answer)
  BY BooksFor, Zenon DEF Limits
<1>2. s[a + 1].len = Pos(en, b + a + 1) - (m - r)
  <2>1. EndsAt(s, a, r, en, m)
    BY <1>1, EntryEnds, Zenon
  <2> QED
    BY <2>1, Zenon DEF EndsAt
<1>3. Len(s) \in Nat /\ Len(en) \in Nat /\ b \in Nat /\ b + Len(s) = Len(en)
  <2>1. Sizes(s, a, en, done[d])
    BY <1>1, BookParts, Zenon
  <2> QED
    BY <2>1, Zenon DEF Sizes
<1>4. b + a + 1 \in 0 .. Len(en) /\ Len(en) \in 0 .. Len(en) /\ b + a + 1 <= Len(en)
  <2> DEFINE x == Len(s)
             y == Len(en)
  <2>1. x \in Nat /\ y \in Nat /\ b \in Nat /\ b + x = y /\ a < x /\ a \in Nat
    BY <1>1, <1>3, Zenon
  <2> HIDE DEF x, y, b, a
  <2>2. b + a + 1 \in 0 .. y /\ y \in 0 .. y /\ b + a + 1 <= y
    BY <2>1
  <2> QED
    BY <2>2, Zenon DEF y
<1> DEFINE p == Pos(en, b + a + 1)
           z == Pos(en, Len(en))
           l == s[a + 1].len
<1>5. p <= z /\ p \in Nat /\ z \in Nat
  BY <1>1, <1>4, PosMonotone, Zenon
<1>6. l = p - (m - r) /\ r < l
  BY <1>2, Zenon
<1> HIDE DEF p, z, l, m, r
<1>7. m # z
  BY <1>1, <1>5, <1>6
<1> QED
  BY <1>7, Zenon DEF m, z


(* The end of a loop: its direction is settled if it was. *)
LEMMA WakeupsLeave ==
  ASSUME IInv, NEW d \in Dirs, Partial(d) \/ AllComplete(d)
  PROVE  Wakeups'
<1> DEFINE o == Other(d)
<1>1. PICK left \in Seq(Entry) :
         /\ pc = Loop(d) /\ Leave(d, left)
         /\ [ents EXCEPT ![d] = left][d] = left
         /\ [ents EXCEPT ![d] = left][o] = ents[o]
         /\ Len(left) = Len(ents[d]) - i[d]
         /\ left # << >> => i[d] < Len(ents[d]) /\ ret[d] < ents[d][i[d] + 1].len
  BY LeaveSeq, Zenon
<1>2. /\ to'[d] = "none" /\ to'[o] = to[o] /\ Put([ents EXCEPT ![d] = left], to[d])
      /\ UNCHANGED <<rdy, ev, inio, kvars, ends, moved>>
  BY <1>1, LeaveEffect, Zenon DEF iovars
<1>3. pc \notin {"dead", "deleted"} /\ o \in Dirs /\ pc \notin Dirs
  BY <1>1, TwoDirs DEF Dirs
<1>4. CASE ref = 1
  <2>1. pc' = "deleted"
    BY <1>2, <1>4, PutEffect, Zenon DEF IInv
  <2> QED
    BY <2>1, Zenon DEF Wakeups
<1>5. CASE ref # 1
  <2>1. pc' = to[d] /\ ents' = [ents EXCEPT ![d] = left]
    BY <1>2, <1>5, PutEffect, Zenon DEF IInv
  <2>2. ents'[d] = left /\ ents'[o] = ents[o]
    BY <1>1, <2>1, Zenon
  <2>3. /\ (InLoop(o) => InLoop(o)')
        /\ (PendingIn => PendingIn') /\ (PendingOut => PendingOut')
        /\ Ready' /\ pc' # "new"
    BY <1>1, <1>2, <2>1, ReturnGoesOn
  <2>4. Settled(o) => Settled(o)'
    BY <1>2, <1>3, <2>2, <2>3, SettledKept, Zenon
  <2>5. Settled(d) => Settled(d)'
    <3> SUFFICES ASSUME Settled(d) PROVE Settled(d)'
      OBVIOUS
    <3>1. rdy[d] /\ (ents[d] = << >> \/ moved[d] = Pos(ends[d], Len(ends[d])))
      BY <1>3, Zenon DEF Settled
    <3>2. left = << >>
      <4>1. CASE ents[d] = << >>
        <5>1. Len(ents[d]) = 0 /\ i[d] \in Nat
          BY <4>1 DEF IInv, Tables
        <5>2. left # << >> => FALSE
          BY <1>1, <5>1
        <5> QED
          BY <5>2
      <4>2. CASE moved[d] = Pos(ends[d], Len(ends[d]))
        <5>1. pc # "deleted"
          BY <1>3
        <5> QED
          BY <1>1, <4>2, <5>1, AllMoved, Zenon
      <4> QED
        BY <3>1, <4>1, <4>2
    <3> QED
      BY <1>2, <2>2, <3>1, <3>2, Zenon DEF Settled
  <2>6. \A x \in Dirs : Settled(x) => Settled(x)'
    BY <2>4, <2>5, TwoDirs
  <2> QED
    BY <1>2, <1>3, <2>3, <2>6, WakeupsStay, Zenon
<1> QED
  BY <1>4, <1>5

(* rx() reads all there is, or all it was asked for. *)
LEMMA WakeupsReadv ==
  ASSUME IInv, Readv
  PROVE  Wakeups'
<1>1. pc = "rx" /\ ents["rx"] # << >> /\ "rx" \in Dirs /\ "tx" \in Dirs /\ Other("rx") = "tx"
  BY ReadvCases, TwoDirs, Zenon
<1>2. pc \notin {"dead", "deleted"} /\ pc # "tx" /\ pc # "io_out" /\ pc # "new" /\ pc # "txloop"
  BY <1>1
<1>3. Ready /\ Opening /\ RxAwake /\ TxFull /\ TxAwake
  BY <1>2, WakeupParts, Zenon DEF IInv
<1>4. rdy["rx"]
  BY <1>1, <1>3, Zenon DEF Ready
<1>5. ASSUME SysError("read") PROVE Wakeups'
  <2>1. pc' = "dead"
    BY <1>5, Zenon DEF SysError, Throw
  <2> QED
    BY <2>1, Zenon DEF Wakeups
<1>6. ASSUME krcv = 0, Again("rx"), UNCHANGED kvars PROVE Wakeups'
  <2>1. /\ pc' = to["rx"] /\ to'["rx"] = "none" /\ to'["tx"] = to["tx"] /\ rdy'["tx"] = rdy["tx"]
        /\ UNCHANGED <<ents, ev, inio, ends, moved>>
    BY <1>1, <1>6, ReturnEffect, Zenon DEF iovars, uservars
  <2>2. /\ (InLoop("tx") => InLoop("tx")')
        /\ PendingOut => PendingOut'
        /\ Ready' /\ pc' # "new"
    BY <1>1, <2>1, ReturnGoesOn
  <2>3. Settled("tx") => Settled("tx")'
    BY <1>1, <1>2, <2>1, <2>2, SettledKept, Zenon
  <2>4. UNCHANGED <<link, edge, nospace, ksnd, krcv>>
    BY <1>6, Zenon DEF kvars
  <2>5. Opening' /\ TxFull' /\ TxAwake'
    BY <1>3, <2>2, <2>3, <2>4, Zenon DEF Opening, TxFull, TxAwake
  <2>6. RxAwake'
    <3>1. ~ (krcv' > 0)
      BY <1>6, <2>4
    <3> QED
      BY <3>1, Zenon DEF RxAwake
  <2> QED
    BY <2>2, <2>5, <2>6, WakeupPartsNext, Zenon
<1>7. ASSUME NEW n \in Nat, Moved("rx", n), n <= Asked("rx"), n <= krcv, n = krcv \/ n = Asked("rx"),
             krcv' = krcv - n, UNCHANGED <<link, edge, nospace, ksnd, rcvd>>
      PROVE  Wakeups'
  <2>1. /\ pc' = "rxloop" /\ moved'["rx"] = moved["rx"] + n /\ moved'["tx"] = moved["tx"]
        /\ UNCHANGED <<rdy, ents, to, ev, inio, ends>>
    BY <1>1, <1>7, MovedEffect, TwoDirs DEF iovars
  <2>2. krcv \in Nat
    BY TypeParts DEF IInv, KernelOK
  <2>3. pc' \notin Dirs /\ pc' # "new"
    BY <2>1 DEF Dirs
  <2>4. Ready'
    BY <2>3, Zenon DEF Ready
  <2>5. Opening'
    <3>1. krcv = 0 => krcv' = 0
      BY <1>7, <2>2
    <3> QED
      BY <1>3, <1>7, <2>3, <3>1, Zenon DEF Opening
  <2>6. Settled("tx") => Settled("tx")'
    <3>1. InLoop("tx") => InLoop("tx")'
      BY <1>2, <2>1, TwoDirs, Zenon DEF InLoop
    <3> QED
      BY <1>1, <1>2, <2>1, <3>1, SettledKept, Zenon
  <2>7. PendingOut => PendingOut'
    BY <1>2, <2>1, Zenon DEF PendingOut
  <2>8. TxFull' /\ TxAwake'
    BY <1>3, <1>7, <2>6, <2>7, Zenon DEF TxFull, TxAwake
  <2>9. RxAwake'
    <3>1. CASE n = krcv
      <4>1. ~ (krcv' > 0)
        BY <1>7, <2>2, <3>1
      <4> QED
        BY <4>1, Zenon DEF RxAwake
    <3>2. CASE n = Asked("rx")
      <4>1. Asked("rx") = Ended("rx") - moved["rx"] /\ Ended("rx") \in Nat /\ moved["rx"] \in Nat
        BY <1>1, AskedNat, Zenon
      <4>2. Ended("rx") = Pos(ends["rx"], Len(ends["rx"]))
        BY <1>1, EndedPos, Zenon DEF IInv
      <4>3. moved'["rx"] = Ended("rx")
        BY <2>1, <3>2, <4>1
      <4>4. Settled("rx")'
        BY <1>4, <2>1, <4>2, <4>3, TwoDirs, Zenon DEF Settled, InLoop
      <4> QED
        BY <4>4, Zenon DEF RxAwake
    <3> QED
      BY <1>7, <3>1, <3>2
  <2> QED
    BY <2>4, <2>5, <2>8, <2>9, WakeupPartsNext, Zenon
<1> QED
  BY <1>5, <1>6, <1>7, ReadvCases, Zenon

(* tx() writes all it was asked to, or fills the buffer and leaves word.   *)
LEMMA WakeupsWritev ==
  ASSUME IInv, Writev
  PROVE  Wakeups'
<1>1. pc = "tx" /\ ents["tx"] # << >> /\ "rx" \in Dirs /\ "tx" \in Dirs /\ Other("tx") = "rx"
  BY WritevCases, TwoDirs, Zenon
<1>2. pc \notin {"dead", "deleted"} /\ pc # "rx" /\ pc # "io_out" /\ pc # "new" /\ pc # "rxloop"
  BY <1>1
<1>3. Ready /\ Opening /\ RxAwake /\ TxFull /\ TxAwake
  BY <1>2, WakeupParts, Zenon DEF IInv
<1>4. rdy["tx"]
  BY <1>1, <1>3, Zenon DEF Ready
<1>5. SndBuf \in Nat /\ SndLow \in Nat /\ SndBuf > SndLow /\ ksnd \in Nat
  BY TypeParts, VecAssumption DEF IInv, KernelOK
<1>6. ASSUME SysError("write") PROVE Wakeups'
  <2>1. pc' = "dead"
    BY <1>6, Zenon DEF SysError, Throw
  <2> QED
    BY <2>1, Zenon DEF Wakeups
<1>7. ASSUME ksnd = SndBuf, Again("tx"), nospace' = TRUE, UNCHANGED <<link, edge, ksnd, krcv, rcvd>>
      PROVE Wakeups'
  <2>1. /\ pc' = to["tx"] /\ to'["tx"] = "none" /\ to'["rx"] = to["rx"] /\ rdy'["rx"] = rdy["rx"]
        /\ UNCHANGED <<ents, ev, inio, ends, moved>>
    BY <1>1, <1>7, ReturnEffect, Zenon DEF iovars, uservars
  <2>2. /\ (InLoop("rx") => InLoop("rx")')
        /\ PendingIn => PendingIn'
        /\ Ready' /\ pc' # "new"
    BY <1>1, <2>1, ReturnGoesOn
  <2>3. Settled("rx") => Settled("rx")'
    BY <1>1, <1>2, <2>1, <2>2, SettledKept, Zenon
  <2>4. Opening' /\ RxAwake'
    BY <1>3, <1>7, <2>2, <2>3, Zenon DEF Opening, RxAwake
  <2>5. nospace' /\ ksnd' > SndLow
    BY <1>5, <1>7
  <2>6. TxFull' /\ TxAwake'
    BY <2>5, Zenon DEF TxFull, TxAwake
  <2> QED
    BY <2>2, <2>4, <2>6, WakeupPartsNext, Zenon
<1>8. ASSUME NEW n \in Nat, Moved("tx", n), n <= Asked("tx"), ksnd + n <= SndBuf,
             ksnd + n = SndBuf \/ n = Asked("tx"), ksnd' = ksnd + n,
             nospace' = (nospace \/ n < Asked("tx")), UNCHANGED <<link, edge, krcv, rcvd>>
      PROVE  Wakeups'
  <2>1. /\ pc' = "txloop" /\ moved'["tx"] = moved["tx"] + n /\ moved'["rx"] = moved["rx"]
        /\ UNCHANGED <<rdy, ents, to, ev, inio, ends>>
    BY <1>1, <1>8, MovedEffect, TwoDirs DEF iovars
  <2>2. Asked("tx") = Ended("tx") - moved["tx"] /\ Ended("tx") \in Nat /\ moved["tx"] \in Nat /\ Asked("tx") \in Nat
    BY <1>1, AskedNat
  <2>3. pc' \notin Dirs /\ pc' # "new"
    BY <2>1 DEF Dirs
  <2>4. Ready'
    BY <2>3, Zenon DEF Ready
  <2>5. Opening'
    BY <1>3, <1>8, <2>3, Zenon DEF Opening
  <2>6. Settled("rx") => Settled("rx")'
    <3>1. InLoop("rx") => InLoop("rx")'
      BY <1>2, <2>1, TwoDirs, Zenon DEF InLoop
    <3> QED
      BY <1>1, <1>2, <2>1, <3>1, SettledKept, Zenon
  <2>7. PendingIn => PendingIn'
    BY <2>1, Zenon DEF PendingIn
  <2>8. RxAwake'
    BY <1>3, <1>8, <2>6, <2>7, Zenon DEF RxAwake
  <2>9. Settled("tx")' \/ (nospace' /\ ksnd' > SndLow)
    <3>1. CASE n = Asked("tx")
      <4>1. Ended("tx") = Pos(ends["tx"], Len(ends["tx"]))
        BY <1>1, EndedPos, Zenon DEF IInv
      <4>2. moved'["tx"] = Ended("tx")
        BY <2>1, <2>2, <3>1
      <4>3. Settled("tx")'
        BY <1>4, <2>1, <4>1, <4>2, TwoDirs, Zenon DEF Settled, InLoop
      <4> QED
        BY <4>3
    <3>2. CASE n # Asked("tx")
      <4>1. n < Asked("tx") /\ ksnd' = SndBuf
        BY <1>8, <2>2, <3>2
      <4> QED
        BY <1>5, <1>8, <4>1
    <3> QED
      BY <3>1, <3>2
  <2>10. TxFull' /\ TxAwake'
    BY <2>9, Zenon DEF TxFull, TxAwake
  <2> QED
    BY <2>4, <2>5, <2>8, <2>10, WakeupPartsNext, Zenon
<1> QED
  BY <1>6, <1>7, <1>8, WritevCases, Zenon


(* A new operation is tried at once if the direction is ready. *)
LEMMA WakeupsStart ==
  ASSUME IInv, NEW d \in Dirs, NEW len \in Lens, Start(d, len)
  PROVE  Wakeups'
<1> DEFINE o == Other(d)
<1>1. CASE Len(ents[d]) >= MAX_SGS
  <2>1. pc' = "dead"
    BY <1>1, Zenon DEF Start, Throw
  <2> QED
    BY <2>1, Zenon DEF Wakeups
<1>2. CASE ~ (Len(ents[d]) >= MAX_SGS)
  <2>1. /\ pc = "idle" \/ (pc = Loop(o) /\ ~ Active(d))
        /\ IF rdy[d] THEN pc' = d /\ to' = [to EXCEPT ![d] = pc] ELSE UNCHANGED <<pc, to>>
        /\ UNCHANGED <<rdy, i, ret, ev, inio, kvars, moved>>
    BY <1>2, Zenon DEF Start
  <2>2. ends'[o] = ends[o] /\ ents'[o] = ents[o]
    BY <1>2, StartSeq, Zenon
  <2>3. ~ Active(d)
    BY <2>1, StackParts, Zenon DEF IInv, Frames
  <2>4. to[d] = "none" /\ o \in Dirs /\ Loop(o) # "none" /\ Other(o) = d
    BY <2>3, TwoDirs DEF Active
  <2>5. pc \notin Dirs /\ pc \notin {"dead", "deleted", "io_out", "new"} /\ d # o
    BY <2>1, TwoDirs DEF Dirs
  <2>6. pc \in Returns
    BY <2>1, TwoDirs DEF Returns
  <2>7. rdy[d] => to'[d] = pc /\ to'[o] = to[o]
    BY <2>1, <2>6, ReturnTo, Zenon DEF IInv
  <2>8. Settled(o) => Settled(o)'
    <3>1. InLoop(o) => InLoop(o)'
      BY <2>1, <2>4, <2>7, Zenon DEF InLoop
    <3>2. pc # o
      BY <2>4, <2>5, Zenon
    <3> QED
      BY <2>1, <2>2, <2>4, <3>1, <3>2, SettledKept, Zenon
  <2>9. Settled(d) => Settled(d)'
    BY <2>1, Zenon DEF Settled
  <2>10. Ready'
    <3>1. (pc' = d /\ rdy'[d]) \/ pc' = pc
      BY <2>1, Zenon
    <3> QED
      BY <2>5, <3>1, Zenon DEF Ready
  <2>11. PendingIn => PendingIn'
    BY <2>1, Zenon DEF PendingIn
  <2>12. PendingOut => PendingOut'
    <3>1. d = "rx" \/ o = "rx"
      BY TwoDirs DEF Dirs
    <3>2. to["rx"] = "io_out" => to'["rx"] = "io_out"
      <4>1. CASE d = "rx"
        <5>1. to["rx"] # "io_out"
          BY <2>4, <4>1
        <5> QED
          BY <5>1
      <4>2. CASE o = "rx"
        BY <2>1, <2>7, <4>2, Zenon
      <4> QED
        BY <3>1, <4>1, <4>2
    <3>3. pc # "io_out"
      BY <2>5
    <3> QED
      BY <2>1, <3>2, <3>3, Zenon DEF PendingOut
  <2>13. pc' # "new"
    BY <2>1, <2>5 DEF Dirs
  <2>14. \A x \in Dirs : Settled(x) => Settled(x)'
    BY <2>8, <2>9, TwoDirs
  <2>15. pc \notin {"dead", "deleted"}
    BY <2>5
  <2> QED
    BY <2>1, <2>10, <2>11, <2>12, <2>13, <2>14, <2>15, WakeupsStay, Zenon
<1> QED
  BY <1>1, <1>2, Zenon

(* run_io: an event that is handled is tried. *)
LEMMA WakeupsIo ==
  ASSUME IInv, RunIo \/ IoOut \/ IoEnd
  PROVE  Wakeups'
<1>1. "rx" \in Dirs /\ "tx" \in Dirs /\ rdy \in [Dirs -> BOOLEAN] /\ to \in [Dirs -> Returns] /\ "rx" # "tx"
  BY TwoDirs DEF IInv, Tables
<1>2. pc \in {"idle", "io_out", "io_end"}
  BY Zenon DEF RunIo, IoOut, IoEnd
<1>3. pc \notin {"dead", "deleted"} /\ pc \notin Dirs /\ pc # "new"
  BY <1>2 DEF Dirs
<1>4. to["rx"] = "none" /\ to["tx"] = "none" /\ ~ InLoop("rx") /\ ~ InLoop("tx")
  BY <1>2, NoLoops
<1>5. UNCHANGED <<kvars, ends, moved>>
  BY Zenon DEF RunIo, IoOut, IoEnd, uservars
<1>6. ASSUME NEW d \in Dirs, rdy'[d] = rdy[d] \/ rdy'[d], ents'[d] = ents[d], Settled(d) PROVE Settled(d)'
  <2>1. ~ InLoop(d) /\ pc # d
    BY <1>3, <1>4, Zenon DEF Dirs
  <2> QED
    BY <1>5, <1>6, <2>1, SettledKept, Zenon
<1>7. ASSUME RunIo PROVE Wakeups'
  <2>1. pc = "idle" /\ inio' = TRUE /\ UNCHANGED <<ev, ents>>
    BY <1>7, Zenon DEF RunIo
  <2>2. CASE "in" \in ev
    <3>1. rdy' = [rdy EXCEPT !["rx"] = TRUE] /\ pc' = "rx" /\ to' = [to EXCEPT !["rx"] = "io_out"]
      BY <1>7, <2>2, Zenon DEF RunIo, MarkReady
    <3>2. rdy'["rx"] = TRUE /\ rdy'["tx"] = rdy["tx"] /\ to'["rx"] = "io_out" /\ "rx" # "new"
      BY <1>1, <3>1
    <3>3. Ready' /\ Settled("rx")'
      BY <3>1, <3>2, <1>1, Zenon DEF Ready, Settled
    <3>4. Settled("tx") => Settled("tx")'
      BY <1>1, <1>6, <2>1, <3>2, Zenon
    <3>5. PendingOut => PendingOut'
      BY <2>1, <3>2, Zenon DEF PendingOut
    <3>6. \A d \in Dirs : Settled(d) => Settled(d)'
      BY <3>3, <3>4, Zenon DEF Dirs
    <3> QED
      BY <1>3, <1>5, <3>1, <3>2, <3>3, <3>5, <3>6, WakeupsStay, Zenon
  <2>3. CASE "in" \notin ev
    <3>1. pc' = "io_out" /\ UNCHANGED rdy
      BY <1>7, <2>3, Zenon DEF RunIo
    <3>2. pc' \notin Dirs /\ pc' # "new"
      BY <3>1 DEF Dirs
    <3>3. Ready'
      BY <3>2, Zenon DEF Ready
    <3>4. ~ PendingIn
      BY <2>3, Zenon DEF PendingIn
    <3>5. PendingOut => PendingOut'
      BY <2>1, <3>1, Zenon DEF PendingOut
    <3>6. \A d \in Dirs : Settled(d) => Settled(d)'
      BY <1>6, <2>1, <3>1, Zenon
    <3> QED
      BY <1>3, <1>5, <3>2, <3>3, <3>4, <3>5, <3>6, WakeupsStay, Zenon
  <2> QED
    BY <2>2, <2>3
<1>8. ASSUME IoOut PROVE Wakeups'
  <2>1. pc = "io_out" /\ UNCHANGED <<ev, ents, inio>>
    BY <1>8, Zenon DEF IoOut
  <2>2. inio
    BY <2>1, StackParts, Zenon DEF IInv, Frames
  <2>3. ~ PendingIn
    BY <2>2, Zenon DEF PendingIn
  <2>4. CASE pc' = "io_end" /\ ~ WantsOut /\ UNCHANGED rdy
    <3>1. pc' \notin Dirs /\ pc' # "new"
      BY <2>4 DEF Dirs
    <3>2. Ready'
      BY <3>1, Zenon DEF Ready
    <3>3. ~ PendingOut
      BY <2>4, Zenon DEF PendingOut, WantsOut
    <3>4. \A d \in Dirs : Settled(d) => Settled(d)'
      BY <1>6, <2>1, <2>4, Zenon
    <3> QED
      BY <1>3, <1>5, <2>3, <3>1, <3>2, <3>3, <3>4, WakeupsStay, Zenon
  <2>5. CASE pc' = "dead"
    BY <2>5, Zenon DEF Wakeups
  <2>6. CASE pc' = "tx" /\ rdy' = MarkReady("tx")
    <3>1. rdy'["tx"] = TRUE /\ rdy'["rx"] = rdy["rx"] /\ pc' # "new"
      BY <1>1, <2>6 DEF MarkReady
    <3>2. Ready' /\ Settled("tx")'
      BY <2>6, <3>1, <1>1, Zenon DEF Ready, Settled
    <3>3. Settled("rx") => Settled("rx")'
      BY <1>1, <1>6, <2>1, <3>1, Zenon
    <3>4. \A d \in Dirs : Settled(d) => Settled(d)'
      BY <3>2, <3>3, Zenon DEF Dirs
    <3> QED
      BY <1>3, <1>5, <2>3, <3>1, <3>2, <3>4, WakeupsStay, Zenon
  <2> QED
    BY <1>8, <2>4, <2>5, <2>6, Zenon DEF IoOut, Throw
<1>9. ASSUME IoEnd PROVE Wakeups'
  <2>1. pc = "io_end" /\ Put(ents, "idle") /\ UNCHANGED rdy
    BY <1>9, Zenon DEF IoEnd
  <2>2. inio
    BY <2>1, StackParts, Zenon DEF IInv, Frames
  <2>3. ~ PendingIn
    BY <2>2, Zenon DEF PendingIn
  <2>4. ~ PendingOut
    <3>1. pc # "io_out" /\ to["rx"] # "io_out"
      BY <1>4, <2>1
    <3> QED
      BY <2>2, <3>1, Zenon DEF PendingOut
  <2>5. CASE ref = 1
    <3>1. pc' = "deleted"
      BY <2>1, <2>5, PutEffect, Zenon DEF IInv
    <3> QED
      BY <3>1, Zenon DEF Wakeups
  <2>6. CASE ref # 1
    <3>1. pc' = "idle" /\ ents' = ents
      BY <2>1, <2>6, PutEffect, Zenon DEF IInv
    <3>2. pc' \notin Dirs /\ pc' # "new"
      BY <3>1 DEF Dirs
    <3>3. Ready'
      BY <3>2, Zenon DEF Ready
    <3>4. \A d \in Dirs : Settled(d) => Settled(d)'
      BY <1>6, <2>1, <3>1, Zenon
    <3> QED
      BY <1>3, <1>5, <2>3, <2>4, <3>2, <3>3, <3>4, WakeupsStay, Zenon
  <2> QED
    BY <2>5, <2>6
<1> QED
  BY <1>7, <1>8, <1>9

(* What the kernel and the peer do wakes the thread if it has to be.       *)
LEMMA WakeupsKernel ==
  ASSUME IInv, ConnectDone \/ Deliver \/ Arrive \/ PeerClose \/ EpollWait \/ Connect
  PROVE  Wakeups'
<1>1. ksnd \in Nat /\ krcv \in Nat /\ SndLow \in Nat
  BY TypeParts, VecAssumption DEF IInv, KernelOK
<1>2. ASSUME UNCHANGED <<rdy, ents, pc, to, moved, ends>>
      PROVE  (Settled("rx")' <=> Settled("rx")) /\ (Settled("tx")' <=> Settled("tx")) /\ (Ready' <=> Ready)
  BY <1>2, Zenon DEF Settled, InLoop, Ready
<1>3. ASSUME UNCHANGED <<ev, inio, pc, to>>
      PROVE  (PendingIn' <=> PendingIn) /\ (PendingOut' <=> PendingOut)
  BY <1>3, Zenon DEF PendingIn, PendingOut
<1>4. pc \notin {"dead", "deleted"} => Ready /\ Opening /\ RxAwake /\ TxFull /\ TxAwake
  BY WakeupParts, Zenon DEF IInv
<1>5. ASSUME UNCHANGED sockvars
      PROVE  /\ (Settled("rx")' <=> Settled("rx")) /\ (Settled("tx")' <=> Settled("tx")) /\ (Ready' <=> Ready)
             /\ (PendingIn' <=> PendingIn) /\ (PendingOut' <=> PendingOut) /\ pc' = pc
  <2>1. UNCHANGED <<rdy, ents, pc, to, moved, ends, ev, inio>>
    BY <1>5, Zenon DEF sockvars
  <2> QED
    BY <1>2, <1>3, <2>1, Zenon
<1>6. ASSUME ConnectDone PROVE Wakeups'
  <2>1. /\ link = "connecting" /\ link' \in {"up", "refused"} /\ edge' = TRUE
        /\ UNCHANGED sockvars /\ UNCHANGED <<nospace, ksnd, krcv>>
    BY <1>6, Zenon DEF ConnectDone
  <2>2. link # "none" /\ link' \notin {"none", "connecting"}
    BY <2>1
  <2> QED
    BY <1>4, <1>5, <2>1, <2>2, WakeupPartsNext, Zenon DEF Opening, RxAwake, TxFull, TxAwake
<1>7. ASSUME Arrive PROVE Wakeups'
  <2>1. /\ link = "up" /\ edge' = TRUE
        /\ UNCHANGED sockvars /\ UNCHANGED <<link, nospace, ksnd>>
    BY <1>7, Zenon DEF Arrive
  <2>2. link' \notin {"none", "connecting"} /\ link # "none"
    BY <2>1
  <2> QED
    BY <1>4, <1>5, <2>1, <2>2, WakeupPartsNext, Zenon DEF Opening, RxAwake, TxFull, TxAwake
<1>8. ASSUME PeerClose PROVE Wakeups'
  <2>1. /\ link = "up" /\ link' = "closed"
        /\ UNCHANGED sockvars /\ UNCHANGED <<nospace, ksnd, krcv>>
    BY <1>8, Zenon DEF PeerClose
  <2>2. link' \notin {"none", "connecting"} /\ link # "none" /\ link' # "up"
    BY <2>1
  <2> QED
    BY <1>4, <1>5, <2>1, <2>2, WakeupPartsNext, Zenon DEF Opening, RxAwake, TxFull, TxAwake
<1>9. ASSUME Deliver PROVE Wakeups'
  <2>1. /\ link = "up" /\ (\E n \in 1 .. ksnd : ksnd' = ksnd - n)
        /\ edge' = (edge \/ (nospace /\ ksnd' <= SndLow))
        /\ nospace' = (nospace /\ ~ (nospace /\ ksnd' <= SndLow))
        /\ UNCHANGED sockvars /\ UNCHANGED <<link, krcv>>
    BY <1>9, Zenon DEF Deliver
  <2>2. (ksnd' > SndLow => ksnd > SndLow) /\ (ksnd' > SndLow <=> ~ (ksnd' <= SndLow))
    BY <1>1, <2>1
  <2>3. link' \notin {"none", "connecting"} /\ link # "none"
    BY <2>1
  <2>4. pc \notin {"dead", "deleted"} => Opening' /\ RxAwake'
    BY <1>4, <1>5, <2>1, <2>3, Zenon DEF Opening, RxAwake
  <2>5. pc \notin {"dead", "deleted"} => TxFull' /\ TxAwake'
    BY <1>4, <1>5, <2>1, <2>2, Zenon DEF TxFull, TxAwake
  <2> QED
    BY <1>4, <1>5, <2>1, <2>4, <2>5, WakeupPartsNext, Zenon
<1>10. ASSUME EpollWait PROVE Wakeups'
  <2>1. /\ pc = "idle" /\ ev' = Readiness
        /\ UNCHANGED <<rdy, ents, pc, to, inio, link, nospace, ksnd, krcv, moved, ends>>
    BY <1>10, Zenon DEF EpollWait, uservars
  <2>2. ~ inio /\ pc \notin {"dead", "deleted"}
    <3>1. ~ inio
      BY <2>1, StackParts, Zenon DEF IInv, Frames
    <3> QED
      BY <2>1, <3>1
  <2>3. link = "up" /\ krcv > 0 => PendingIn'
    BY <2>1, <2>2 DEF PendingIn, Readiness
  <2>4. link = "up" /\ ksnd <= SndLow => PendingOut'
    BY <2>1, <2>2 DEF PendingOut, Readiness
  <2>5. ksnd > SndLow \/ ksnd <= SndLow
    BY <1>1
  <2>6. Opening' /\ RxAwake'
    BY <1>4, <2>1, <2>2, <2>3, Zenon DEF Opening, RxAwake
  <2>7. TxFull' /\ TxAwake'
    BY <1>2, <1>4, <2>1, <2>2, <2>4, <2>5, Zenon DEF TxFull, TxAwake
  <2> QED
    BY <1>2, <1>4, <2>1, <2>2, <2>6, <2>7, WakeupPartsNext, Zenon
<1>11. ASSUME Connect PROVE Wakeups'
  <2>1. /\ pc = "new" /\ (pc' = "dead" \/ (pc' = "idle" /\ link' = "connecting"))
        /\ UNCHANGED <<rdy, ents, to, ev, inio, edge, nospace, ksnd, krcv, moved, ends>>
    BY <1>11, Zenon DEF Connect, Throw, uservars
  <2>2. CASE pc' = "dead"
    BY <2>2, Zenon DEF Wakeups
  <2>3. CASE pc' = "idle" /\ link' = "connecting"
    <3>1. /\ pc \notin {"dead", "deleted"} /\ pc' \notin Dirs /\ pc' # "new" /\ link' # "up"
          /\ pc \notin {"tx", "txloop"}
      BY <2>1, <2>3 DEF Dirs
    <3>2. Ready'
      BY <3>1, Zenon DEF Ready
    <3>3. Opening' /\ RxAwake' /\ TxAwake'
      BY <1>4, <2>1, <3>1, Zenon DEF Opening, RxAwake, TxAwake
    <3>4. Settled("tx") => Settled("tx")'
      BY <2>1, <3>1, TwoDirs, Zenon DEF Settled, InLoop
    <3>5. TxFull'
      BY <1>4, <2>1, <3>1, <3>4, Zenon DEF TxFull
    <3> QED
      BY <3>2, <3>3, <3>5, WakeupPartsNext, Zenon
  <2> QED
    BY <2>1, <2>2, <2>3
<1> QED
  BY <1>6, <1>7, <1>8, <1>9, <1>10, <1>11, Zenon

(* No step loses a wakeup. *)
LEMMA WakeupsPreserved ==
  ASSUME IInv, [Next]_vars
  PROVE  Wakeups'
<1>1. Wakeups /\ TypeOK
  BY Zenon DEF IInv
<1>2. ASSUME UNCHANGED <<rdy, ents, pc, to, ev, inio, kvars, ends, moved>> PROVE Wakeups'
  BY <1>1, <1>2, Zenon DEF Wakeups, PendingIn, PendingOut, Settled, InLoop, kvars
<1>3. ASSUME NEW d \in Dirs, NothingPending(d) PROVE Wakeups'
  <2>1. /\ pc = d /\ ents[d] = << >> /\ rdy' = rdy
    BY <1>3, Zenon DEF NothingPending
  <2>2. /\ pc' = to[d] /\ to'[d] = "none" /\ to'[Other(d)] = to[Other(d)]
        /\ UNCHANGED <<ents, ev, inio, ends, moved>>
    BY <1>3, ReturnEffect, Zenon DEF iovars, uservars
  <2>3. UNCHANGED kvars
    BY <1>3, Zenon DEF NothingPending
  <2>4. /\ (InLoop(Other(d)) => InLoop(Other(d))')
        /\ (PendingIn => PendingIn') /\ (PendingOut => PendingOut')
        /\ Ready' /\ pc' # "new"
    BY <2>1, <2>2, ReturnGoesOn
  <2>5. pc \notin {"dead", "deleted"} /\ Other(d) \in Dirs /\ pc # Other(d)
    BY <2>1, TwoDirs DEF Dirs
  <2>6. Settled(Other(d)) => Settled(Other(d))'
    BY <2>1, <2>2, <2>4, <2>5, SettledKept, Zenon
  <2>7. Settled(d) => Settled(d)'
    BY <2>1, <2>2, Zenon DEF Settled
  <2>8. \A x \in Dirs : Settled(x) => Settled(x)'
    BY <2>6, <2>7, TwoDirs
  <2> QED
    BY <2>3, <2>4, <2>5, <2>8, WakeupsStay, Zenon
<1>4. ASSUME NEW d \in Dirs, Complete(d) PROVE Wakeups'
  <2>1. UNCHANGED <<rdy, ents, pc, to, ev, inio, kvars, ends, moved>>
    BY <1>4, Zenon DEF Complete, iovars
  <2> QED
    BY <1>2, <2>1, Zenon
<1>5. ASSUME UserPut PROVE Wakeups'
  <2>1. Put(ents, pc) /\ UNCHANGED <<rdy, to, ev, inio, kvars, ends, moved>>
    BY <1>5, Zenon DEF UserPut, iovars
  <2>2. pc' = "deleted" \/ (pc' = pc /\ ents' = ents)
    BY <1>1, <2>1, PutEffect, Zenon
  <2>3. pc' = "deleted" => Wakeups'
    BY Zenon DEF Wakeups
  <2> QED
    BY <1>2, <2>1, <2>2, <2>3, Zenon
<1>6. ASSUME UNCHANGED vars PROVE Wakeups'
  BY <1>2, <1>6, Zenon DEF vars
<1> QED
  BY <1>3, <1>4, <1>5, <1>6, WakeupsLeave, WakeupsReadv, WakeupsWritev, WakeupsStart, WakeupsIo, WakeupsKernel,
     TwoDirs, Zenon DEF Next, Thread, User, Read, Write


-----------------------------------------------------------------------------
(* The invariant, and what it says. *)

(* The invariant holds at first. *)
LEMMA InitIInv ==
  ASSUME Init
  PROVE  IInv
<1>1. VecAssumption
  BY VecAssumption
<1>2. /\ ref = 1 /\ connected = FALSE /\ rdy = Both(FALSE) /\ ents = Both(<< >>)
      /\ pc = "new" /\ i = Both(0) /\ ret = Both(0) /\ to = Both("none")
      /\ ev = {} /\ inio = FALSE /\ err = "none"
      /\ link = "none" /\ edge = FALSE /\ nospace = FALSE
      /\ ksnd = 0 /\ krcv = 0 /\ rcvd = 0
      /\ held = TRUE /\ ends = Both(<< >>) /\ moved = Both(0) /\ done = Both(<< >>)
  BY Zenon DEF Init
<1>3. Tables
  <2>1. /\ rdy \in [Dirs -> BOOLEAN] /\ i \in [Dirs -> Nat] /\ ret \in [Dirs -> Nat]
        /\ to \in [Dirs -> Returns] /\ moved \in [Dirs -> Nat]
    BY <1>2 DEF Both, Returns
  <2>2. << >> \in Seq(Entry) /\ << >> \in Seq(Nat) /\ << >> \in Seq(Answer)
    OBVIOUS
  <2>3. ents \in [Dirs -> Seq(Entry)] /\ ends \in [Dirs -> Seq(Nat)] /\ done \in [Dirs -> Seq(Answer)]
    BY <1>2, <2>2, Zenon DEF Both
  <2> QED
    BY <2>1, <2>3 DEF Tables
<1>4. ASSUME NEW d \in Dirs
      PROVE  /\ rdy[d] = FALSE /\ ents[d] = << >> /\ i[d] = 0 /\ ret[d] = 0 /\ to[d] = "none"
             /\ ends[d] = << >> /\ moved[d] = 0 /\ done[d] = << >>
  BY <1>2, Zenon DEF Both
<1>5. TypeOK
  <2>1. ASSUME NEW d \in Dirs
        PROVE  /\ ents[d] \in Seq([id : 1 .. NOps, len : Nat \ {0}]) /\ Len(ents[d]) <= MAX_SGS
               /\ i[d] \in 0 .. Len(ents[d]) /\ ret[d] \in Nat /\ ends[d] \in Seq(Nat)
               /\ to[d] \in {"none", "idle", "rxloop", "txloop", "io_out", "io_end"}
    <3>1. ents[d] = << >> /\ i[d] = 0 /\ ret[d] = 0 /\ ends[d] = << >> /\ to[d] = "none"
      BY <1>4, Zenon
    <3>2. Len(<< >>) = 0 /\ << >> \in Seq([id : 1 .. NOps, len : Nat \ {0}]) /\ << >> \in Seq(Nat)
      OBVIOUS
    <3>3. 0 <= MAX_SGS /\ 0 \in 0 .. 0 /\ 0 \in Nat
      BY VecAssumption
    <3> QED
      BY <3>1, <3>2, <3>3, Zenon
  <2>2. ksnd \in 0 .. SndBuf /\ krcv \in Nat /\ rcvd \in 0 .. RcvTotal /\ ref \in Nat
    BY <1>2, VecAssumption
  <2>3. rdy \in [Dirs -> BOOLEAN]
    BY <1>3, Zenon DEF Tables
  <2>4. /\ held \in BOOLEAN /\ connected \in BOOLEAN /\ inio \in BOOLEAN /\ ev \subseteq {"in", "out"}
        /\ pc \in Dirs \cup {"new", "idle", "rxloop", "txloop", "io_out", "io_end", "deleted", "dead"}
        /\ err \in {"none", "ENOSPC", "read", "write", "connect"}
    BY <1>2
  <2> QED
    BY <2>1, <2>2, <2>3, <2>4, Zenon DEF TypeOK
<1>6. Stack
  <2>1. \A d \in Dirs : ~ Active(d)
    BY <1>4, Zenon DEF Active
  <2>2. ASSUME NEW d \in Dirs
        PROVE  /\ pc \notin {d, Loop(d)} /\ to[d] # Loop(d) /\ to[d] # Loop(Other(d))
               /\ to[d] \notin {"idle", "io_out", "io_end"} /\ to[d] = "none" /\ i[d] = 0 /\ ret[d] = 0
    <3>1. to[d] = "none" /\ i[d] = 0 /\ ret[d] = 0
      BY <1>4, Zenon
    <3> QED
      BY <1>2, <3>1, TwoDirs DEF Dirs
  <2>3. pc \notin {"io_out", "io_end"} /\ ~ inio
    BY <1>2
  <2> QED
    BY <2>1, <2>2, <2>3, Zenon DEF Stack
<1>7. RefsHeld
  <2>1. ~ InLoop("rx") /\ ~ InLoop("tx")
    <3>1. to["rx"] = "none" /\ to["tx"] = "none"
      BY <1>4, TwoDirs, Zenon
    <3> QED
      BY <1>2, <3>1, TwoDirs DEF InLoop
  <2>2. Refs = 1
    BY <1>2, <2>1 DEF Refs, One
  <2>3. pc # "deleted"
    BY <1>2
  <2> QED
    BY <1>2, <2>2, <2>3, RefsSum, Zenon
<1>8. Books
  <2>1. ASSUME NEW d \in Dirs
        PROVE  Limits(d) /\ Account(d)
    <3>1. /\ ents[d] = << >> /\ i[d] = 0 /\ ret[d] = 0 /\ ends[d] = << >> /\ moved[d] = 0 /\ done[d] = << >>
      BY <1>4, Zenon
    <3>2. Len(<< >>) = 0
      OBVIOUS
    <3>3. Limits(d)
      BY <3>1, <3>2, VecAssumption DEF Limits, Rising, Pos
    <3>4. Book(<< >>, 0, 0, << >>, 0, << >>)
      BY <3>2 DEF Book, Before, Pos
    <3>5. pc # "deleted"
      BY <1>2
    <3> QED
      BY <3>1, <3>3, <3>4, <3>5, Zenon DEF Account
  <2> QED
    BY <2>1, Zenon DEF Books, Limits, Account
<1>9. Wakeups
  <2>1. ~ (ksnd > SndLow) /\ link # "up" /\ pc \notin Dirs
    BY <1>2, VecAssumption DEF Dirs
  <2> QED
    BY <1>2, <2>1, Zenon DEF Wakeups
<1> QED
  BY <1>3, <1>5, <1>6, <1>7, <1>8, <1>9, Zenon DEF IInv

(* IInv is an invariant of the scatter-gather socket.                      *)
THEOREM Invariant == Spec => []IInv
<1>1. Init => IInv
  BY InitIInv, Zenon
<1>2. IInv /\ [Next]_vars => IInv'
  <2> SUFFICES ASSUME IInv, [Next]_vars PROVE IInv'
    OBVIOUS
  <2>1. Tables' /\ TypeOK' /\ Stack' /\ RefsHeld' /\ Books' /\ Wakeups'
    BY TablesPreserved, TypePreserved, StackPreserved, RefsPreserved, BooksPreserved, WakeupsPreserved, Zenon
  <2> QED
    BY <2>1, Zenon DEF IInv
<1> QED
  BY <1>1, <1>2, PTL DEF Spec

(* The state keeps its type: no more entries than slots, no loop past the  *)
(* end of its array, and no entry without bytes left (rx, tx, read, write).*)
THEOREM TypeCorrect == Spec => []TypeOK
<1>1. IInv => TypeOK
  BY Zenon DEF IInv
<1> QED
  BY <1>1, Invariant, PTL

(* The reference count is exact, and only the last put() deletes (get,     *)
(* put, run_io).                                                           *)
THEOREM RefsCorrect == Spec => []RefsHeld
<1>1. IInv => RefsHeld
  BY Zenon DEF IInv
<1> QED
  BY <1>1, Invariant, PTL

(* What the books say of the callbacks. *)
LEMMA BooksTold ==
  ASSUME IInv
  PROVE  ToldOnce
<1> SUFFICES ASSUME NEW d \in Dirs
             PROVE  /\ \A k \in DOMAIN done[d] : done[d][k].id = k
                    /\ \A k \in DOMAIN done[d] : done[d][k].status = "OK" => ends[d][k] <= moved[d]
                    /\ pc # Loop(d) /\ ~ Active(d) =>
                         \A k \in DOMAIN ends[d] :
                           ends[d][k] <= moved[d] => k \in DOMAIN done[d] /\ done[d][k].status = "OK"
                    /\ pc = "deleted" => Len(done[d]) = Len(ends[d])
  BY Zenon DEF ToldOnce
<1> DEFINE s == ents[d]
           en == ends[d]
           m == moved[d]
           dn == done[d]
           r == ret[d]
           a == i[d]
           b == Before(s, en)
<1>1. /\ s \in Seq(Entry) /\ a \in Nat /\ r \in Nat /\ en \in Seq(Nat) /\ m \in Nat /\ dn \in Seq(Answer)
      /\ Rising(en) /\ Account(d)
  BY BooksFor, Zenon DEF Limits
<1>2. /\ DOMAIN dn = 1 .. Len(dn) /\ DOMAIN en = 1 .. Len(en) /\ Len(dn) \in Nat /\ Len(en) \in Nat
  BY <1>1, LenProperties
<1>3. CASE pc = "deleted"
  <2>1. /\ Len(dn) = Len(en)
        /\ \A k \in 1 .. Len(dn) : dn[k].id = k /\ (dn[k].status = "OK" <=> en[k] <= m)
    BY <1>1, <1>3, Zenon DEF Account, Closed
  <2> QED
    BY <1>2, <2>1, Zenon
<1>4. CASE pc # "deleted"
  <2>1. Book(s, a, r, en, m, dn)
    BY <1>1, <1>4, Zenon DEF Account
  <2>2. /\ \A k \in 1 .. Len(dn) : dn[k] = [id |-> k, status |-> "OK"]
        /\ (a > 0 => m - r = Pos(en, b + a))
        /\ (a = 0 => Pos(en, b) <= m - r)
        /\ (a = 0 /\ s # << >> => s[1].len = Pos(en, b + 1) - (m - r))
    BY <2>1, Zenon DEF Book
  <2>3. Len(s) \in Nat /\ b \in Nat /\ b + Len(s) = Len(en) /\ Len(dn) = b + a
    <3>1. Sizes(s, a, en, dn)
      BY <1>1, <2>1, BookParts, Zenon
    <3> QED
      BY <3>1, Zenon DEF Sizes
  <2>4. a <= Len(s)
    BY TypeParts, Zenon DEF IInv, DirOK
  <2>5. b + a \in 0 .. Len(en)
    <3> DEFINE x == Len(s)
               y == Len(en)
    <3>1. x \in Nat /\ y \in Nat /\ b \in Nat /\ b + x = y /\ a <= x /\ a \in Nat
      BY <1>1, <1>2, <2>3, <2>4, Zenon
    <3> HIDE DEF x, y, b, a
    <3>2. b + a \in 0 .. y
      BY <3>1
    <3> QED
      BY <3>2, Zenon DEF y
  <2>6. Pos(en, b + a) <= m /\ Pos(en, b + a) \in Nat
    <3> DEFINE p == Pos(en, b + a)
    <3>1. p \in Nat
      BY <1>1, <2>5, PosNat, Zenon
    <3>2. a = 0 => b + a = b
      BY <2>3
    <3>3. (a > 0 => m - r = p) /\ (a = 0 => p <= m - r)
      BY <2>2, <3>2, Zenon
    <3> HIDE DEF p, m, r, a
    <3>4. p <= m
      BY <1>1, <3>1, <3>3
    <3> QED
      BY <3>1, <3>4, Zenon DEF p
  <2>7. ASSUME NEW k \in 1 .. Len(dn) PROVE dn[k].id = k /\ dn[k].status = "OK" /\ en[k] <= m
    <3>1. dn[k].id = k /\ dn[k].status = "OK"
      <4>1. dn[k] = [id |-> k, status |-> "OK"]
        BY <2>2, Zenon
      <4> QED
        BY <4>1
    <3>2. k \in 0 .. Len(en) /\ k # 0 /\ k <= b + a
      BY <1>2, <2>3, <2>5
    <3>3. Pos(en, k) <= Pos(en, b + a) /\ Pos(en, k) \in Nat
      BY <1>1, <2>5, <3>2, PosMonotone, Zenon
    <3>4. Pos(en, k) = en[k]
      BY <1>1, <3>2, PosNat, Zenon
    <3>5. Pos(en, k) <= m
      BY <1>1, <2>6, <3>3
    <3> QED
      BY <3>1, <3>4, <3>5, Zenon
  <2>8. ASSUME pc # Loop(d), ~ Active(d), NEW k \in 1 .. Len(en), en[k] <= m PROVE k \in 1 .. Len(dn)
    <3>1. a = 0 /\ r = 0
      BY <2>8, Zenon DEF IInv, Stack
    <3>2. SUFFICES ASSUME k \notin 1 .. Len(dn) PROVE FALSE
      BY Zenon
    <3>3. Len(dn) = b /\ k \in Nat /\ b + 1 <= k /\ k # 0
      BY <1>2, <2>3, <3>1, <3>2
    <3>4. b + 1 \in 0 .. Len(en) /\ k \in 0 .. Len(en) /\ Len(s) # 0
      BY <1>2, <2>3, <3>3
    <3>5. s # << >>
      BY <3>4
    <3>6. s[1].len = Pos(en, b + 1) - (m - r)
      BY <2>2, <3>1, <3>5, Zenon
    <3>7. s[1].len \in Nat \ {0}
      <4>1. 1 \in 1 .. Len(s)
        BY <2>3, <3>4
      <4>2. s[1] \in Entry
        BY <1>1, <4>1, ElementOfSeq, Zenon
      <4> QED
        BY <4>2 DEF Entry
    <3>8. Pos(en, b + 1) <= Pos(en, k) /\ Pos(en, b + 1) \in Nat /\ Pos(en, k) \in Nat
      BY <1>1, <3>3, <3>4, PosMonotone, Zenon
    <3>9. Pos(en, k) = en[k]
      BY <1>1, <3>3, <3>4, PosNat, Zenon
    <3>10. Pos(en, k) <= m
      BY <2>8, <3>9, Zenon
    <3> DEFINE p == Pos(en, b + 1)
               z == Pos(en, k)
               l == s[1].len
    <3>11. l = p - (m - r) /\ l \in Nat \ {0} /\ p <= z /\ z <= m /\ p \in Nat /\ z \in Nat
      BY <3>6, <3>7, <3>8, <3>10, Zenon
    <3> HIDE DEF p, z, l, m, r
    <3> QED
      BY <1>1, <3>1, <3>11
  <2> QED
    BY <1>2, <1>4, <2>7, <2>8, Zenon
<1> QED
  BY <1>3, <1>4

(* Every operation is told once, in order, and truly (rx, tx, ~Sock).      *)
THEOREM ToldCorrect == Spec => []ToldOnce
<1>1. IInv => ToldOnce
  BY BooksTold, Zenon
<1> QED
  BY <1>1, Invariant, PTL

(* One system call for each call of rx() and tx() never loses a wakeup,    *)
(* although epoll is edge-triggered (rx, tx, run_io).                      *)
THEOREM WakeupsCorrect == Spec => []NoLostWakeup
<1>1. IInv => NoLostWakeup
  <2> SUFFICES ASSUME IInv, pc = "idle", ev = {}, ~ edge, link = "up"
               PROVE  /\ krcv > 0 => ents["rx"] = << >> /\ rdy["rx"]
                      /\ ents["tx"] # << >> => nospace /\ ksnd > SndLow
    BY Zenon DEF NoLostWakeup
  <2>1. pc \notin {"dead", "deleted"} /\ pc # "rx" /\ pc # "tx" /\ "in" \notin ev /\ "out" \notin ev
    OBVIOUS
  <2>2. RxAwake /\ TxAwake
    BY <2>1, WakeupParts, Zenon DEF IInv
  <2>3. ~ InLoop("rx") /\ ~ InLoop("tx")
    BY NoLoops
  <2>4. krcv > 0 => Settled("rx")
    BY <2>1, <2>2, Zenon DEF RxAwake, PendingIn
  <2>5. (nospace /\ ksnd > SndLow) \/ Settled("tx")
    BY <2>1, <2>2, Zenon DEF TxAwake, PendingOut
  <2> QED
    BY <2>1, <2>3, <2>4, <2>5, Zenon DEF Settled
<1> QED
  BY <1>1, Invariant, PTL

==================================================================================
