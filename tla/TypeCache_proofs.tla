--------------------------- MODULE TypeCache_proofs ---------------------------
(***************************************************************************)
(* Theorems about TypeCache, for every program (finite or not), any number *)
(* of goroutines and all interleavings of them.                            *)
(***************************************************************************)
EXTENDS TypeCache, SequenceTheorems, TLAPS

-----------------------------------------------------------------------------
(* The inductive invariant.                                                *)

TypeOK ==
  /\ shape \in [Keys -> [Sides -> [ok : BOOLEAN, kids : Seq(Keys)]]]
  /\ cur \subseteq Keys /\ next \subseteq Keys
  /\ info \in [Keys -> [Sides -> {"none", "fn", "error"}]]
  /\ mu \in Threads \cup {None}
  /\ stack \in Seq([key : Keys, side : Sides, i : Nat \ {0}])
  /\ pc \in [Threads -> {"idle", "lock", "check", "generate", "unlock", "using"}]
  /\ key \in [Threads -> Keys \cup {None}]
  /\ \A t \in Threads : pc[t] # "idle" => key[t] \in Keys

(* The mutex is held by the one thread that is between Lock and Unlock.    *)
MutexHeld == \A t \in Threads : pc[t] \in {"check", "generate", "unlock"} <=> mu = t

(* The kids of a frame that have been looked up.                           *)
LookedUp(f) == {Made(f).kids[i] : i \in 1..(f.i - 1)}

(* A frame works on a new key of the map; its kids so far are in seen, and *)
(* the writer is made when there is a decoder.                             *)
FrameInv(f, map, seen) ==
  /\ f.key \in map \ cur
  /\ f.i <= Len(Made(f).kids) + 1
  /\ LookedUp(f) \subseteq seen
  /\ f.side = "writer" => info[f.key]["decoder"] # "none"

(* The map extends the published one by keys that are finished or that a   *)
(* frame works on, and no side is finished before its kids are in the map. *)
MapInv(map, frames, seen) ==
  /\ cur \subseteq map
  /\ \A j \in 1..Len(frames) : FrameInv(frames[j], map, seen)
  /\ \A k \in map \ cur : Complete(k) \/ \E j \in 1..Len(frames) : frames[j].key = k
  /\ \A k \in map \ cur, side \in Sides : info[k][side] # "none" => KidsOf(k, side) \subseteq map

(* So does the map that is being built, and the key that was asked for is  *)
(* in it.                                                                  *)
BuildInv == \A t \in Threads : pc[t] = "generate" => key[t] \in next /\ MapInv(next, stack, next)

(* A thread that has published its key, or found it, can use it.           *)
FoundInv == \A t \in Threads : pc[t] = "unlock" => key[t] \in cur

Inv == TypeOK /\ MutexHeld /\ BuildInv /\ FoundInv /\ PublishedComplete

-----------------------------------------------------------------------------
(* Facts about the stack.                                                  *)

LEMMA PushFrame ==
  ASSUME NEW S, NEW s \in Seq(S), NEW e \in S
  PROVE  /\ <<e>> \o s \in Seq(S)
         /\ Len(<<e>> \o s) = Len(s) + 1
         /\ (<<e>> \o s)[1] = e
         /\ \A j \in 1..Len(s) : (<<e>> \o s)[j + 1] = s[j]
<1>1. <<e>> \in Seq(S) /\ Len(<<e>>) = 1 /\ Len(s) \in Nat
  OBVIOUS
<1>2. <<e>> \o s \in Seq(S) /\ Len(<<e>> \o s) = Len(s) + 1
  BY <1>1
<1>3. \A j \in 1..(Len(s) + 1) : (<<e>> \o s)[j] = IF j <= 1 THEN <<e>>[j] ELSE s[j - 1]
  BY <1>1
<1>4. \A j \in 1..Len(s) : j + 1 \in 1..(Len(s) + 1) /\ ~(j + 1 <= 1) /\ (j + 1) - 1 = j
  BY <1>1
<1>5. 1 \in 1..(Len(s) + 1)
  BY <1>1
<1> QED
  BY <1>2, <1>3, <1>4, <1>5

(* The innermost frame and the others.                                     *)
LEMMA HeadFrame ==
  ASSUME NEW S, NEW s \in Seq(S), s # <<>>
  PROVE  /\ Head(s) \in S /\ Head(s) = s[1] /\ Len(s) \in Nat \ {0}
         /\ Tail(s) \in Seq(S) /\ Len(Tail(s)) = Len(s) - 1
         /\ \A j \in 1..Len(Tail(s)) : Tail(s)[j] = s[j + 1]
BY HeadTailProperties

LEMMA MadeType ==
  ASSUME TypeOK, NEW f \in [key : Keys, side : Sides, i : Nat \ {0}]
  PROVE  /\ Made(f) \in [ok : BOOLEAN, kids : Seq(Keys)]
         /\ Len(Made(f).kids) \in Nat
         /\ DOMAIN Made(f).kids = 1..Len(Made(f).kids)
         /\ \A i \in 1..Len(Made(f).kids) : Made(f).kids[i] \in Keys
         /\ Made(f) = shape[f.key][f.side]
<1>1. Made(f) \in [ok : BOOLEAN, kids : Seq(Keys)]
  BY DEF TypeOK, Made
<1>2. Made(f).kids \in Seq(Keys)
  BY <1>1
<1> QED
  BY <1>1, <1>2 DEF Made

-----------------------------------------------------------------------------
(* Steps that do not touch the maps.                                       *)

LEMMA QuietType ==
  ASSUME Inv, NEW t \in Threads,
         (\E k \in Roots : Info(t, k)) \/ Lock(t) \/ Recheck(t) \/ Return(t) \/ Use(t)
  PROVE  /\ TypeOK' /\ MutexHeld'
         /\ UNCHANGED <<shape, cur, next, info, stack>>
         /\ \A u \in Threads : pc'[u] = "generate" => pc[u] = "generate" /\ key'[u] = key[u]
         /\ \A u \in Threads : pc'[u] = "unlock" => pc[u] = "unlock" /\ key'[u] = key[u]
         /\ \A u \in Threads : pc'[u] = "using" => key'[u] \in cur
<1> USE TypeCacheAssumption DEF Inv, TypeOK, MutexHeld, FoundInv, PublishedComplete, Goto, Unlock
<1>1. ASSUME NEW k \in Roots, Info(t, k)
      PROVE  /\ TypeOK' /\ MutexHeld'
             /\ UNCHANGED <<shape, cur, next, info, stack>>
             /\ \A u \in Threads : pc'[u] = "generate" => pc[u] = "generate" /\ key'[u] = key[u]
             /\ \A u \in Threads : pc'[u] = "unlock" => pc[u] = "unlock" /\ key'[u] = key[u]
             /\ \A u \in Threads : pc'[u] = "using" => key'[u] \in cur
  BY <1>1 DEF Info
<1>2. CASE Lock(t)
  BY <1>2 DEF Lock
<1>3. CASE Recheck(t)
  BY <1>3 DEF Recheck
<1>4. CASE Return(t)
  BY <1>4 DEF Return
<1>5. CASE Use(t)
  BY <1>5 DEF Use
<1> QED
  BY <1>1, <1>2, <1>3, <1>4, <1>5

LEMMA QuietKeeps ==
  ASSUME Inv, NEW t \in Threads,
         (\E k \in Roots : Info(t, k)) \/ Lock(t) \/ Recheck(t) \/ Return(t) \/ Use(t)
  PROVE  Inv' /\ UNCHANGED <<cur, info>>
<1>1. /\ TypeOK' /\ MutexHeld'
      /\ UNCHANGED <<shape, cur, next, info, stack>>
      /\ \A u \in Threads : pc'[u] = "generate" => pc[u] = "generate" /\ key'[u] = key[u]
      /\ \A u \in Threads : pc'[u] = "unlock" => pc[u] = "unlock" /\ key'[u] = key[u]
      /\ \A u \in Threads : pc'[u] = "using" => key'[u] \in cur
  BY QuietType
<1>2. BuildInv'
  BY <1>1, SMTT(80) DEF Inv, BuildInv, MapInv, FrameInv, LookedUp, Made, KidsOf, Complete
<1>3. FoundInv' /\ PublishedComplete'
  BY <1>1 DEF Inv, FoundInv, PublishedComplete, Complete, KidsOf
<1> QED
  BY <1>1, <1>2, <1>3 DEF Inv

-----------------------------------------------------------------------------
(* Steps of the thread that builds the next map.                           *)

Frames == [key : Keys, side : Sides, i : Nat \ {0}]

(* A new key enters the map that is being built, with a dummy.             *)
LEMMA EnterKeeps ==
  ASSUME Inv, NEW t \in Threads, mu = t, pc[t] \in {"check", "generate"},
         NEW k \in Keys, NEW map \in SUBSET Keys, NEW frames \in Seq(Frames),
         k \notin map, MapInv(map, frames, map \cup {k}), key[t] \in map \cup {k},
         infoWhileGenerating(k, map, frames), pc' = [pc EXCEPT ![t] = "generate"],
         UNCHANGED <<shape, mu, key>>
  PROVE  Inv' /\ \A j \in cur : j \in cur' /\ info'[j] = info[j]
<1> DEFINE e == [key |-> k, side |-> "decoder", i |-> 1]
<1>1. next' = map \cup {k} /\ cur' = cur /\ info' = [info EXCEPT ![k] = Dummy] /\ stack' = <<e>> \o frames
  BY DEF infoWhileGenerating
<1>2. e \in Frames /\ e.key = k /\ e.side = "decoder" /\ e.i = 1
  BY DEF Frames, Sides
<1> HIDE DEF e
<1>3. /\ stack' \in Seq(Frames) /\ Len(stack') = Len(frames) + 1 /\ stack'[1] = e
      /\ \A j \in 1..Len(frames) : stack'[j + 1] = frames[j]
      /\ Len(frames) \in Nat
  BY <1>1, <1>2, PushFrame
<1>4. /\ info'[k] = Dummy
      /\ \A j \in Keys : j # k => info'[j] = info[j]
      /\ info' \in [Keys -> [Sides -> {"none", "fn", "error"}]]
  BY <1>1 DEF Inv, TypeOK, Dummy
<1>5. cur \subseteq map /\ k \notin cur
  BY DEF MapInv
<1>6. /\ \A f : LookedUp(f)' = LookedUp(f) /\ Made(f)' = Made(f)
      /\ \A j, side : KidsOf(j, side)' = KidsOf(j, side)
      /\ \A j \in Keys : j # k => Complete(j)' = Complete(j)
  BY <1>4 DEF LookedUp, Made, KidsOf, Complete
<1>7. TypeOK'
  BY <1>1, <1>3, <1>4 DEF Inv, TypeOK, Frames
<1>8. MutexHeld'
  BY DEF Inv, TypeOK, MutexHeld
<1>9. ASSUME NEW j \in 1..Len(stack') PROVE FrameInv(stack[j], next, next)'
  <2>1. CASE j = 1
    <3>1. stack'[j] = e
      BY <1>3, <2>1
    <3>2. Len(Made(e).kids) \in Nat
      BY <1>2, MadeType DEF Inv, Frames
    <3>3. LookedUp(e) = {}
      BY <1>2 DEF LookedUp
    <3>4. LookedUp(stack[j])' = {} /\ Made(stack[j])' = Made(e)
      BY <1>6, <3>1, <3>3 DEF LookedUp, Made
    <3>5. stack'[j].key \in next' \ cur' /\ stack'[j].side # "writer"
      BY <1>1, <1>2, <1>5, <3>1
    <3>6. stack'[j].i <= Len(Made(stack[j])'.kids) + 1
      BY <1>2, <3>1, <3>2, <3>4
    <3> QED
      BY <3>4, <3>5, <3>6 DEF FrameInv
  <2>2. CASE j # 1
    <3>1. PICK n \in 1..Len(frames) : j = n + 1
      <4>1. j - 1 \in 1..Len(frames) /\ j = (j - 1) + 1
        BY <1>3, <2>2
      <4> QED
        BY <4>1
    <3>2. FrameInv(frames[n], map, map \cup {k}) /\ stack'[j] = frames[n]
      BY <1>3, <3>1 DEF MapInv
    <3>3. LookedUp(stack[j])' = LookedUp(frames[n]) /\ Made(stack[j])' = Made(frames[n])
      BY <1>6, <3>2 DEF LookedUp, Made
    <3>4. frames[n].key # k /\ frames[n].key \in Keys
      BY <3>2 DEF FrameInv
    <3> QED
      BY <1>1, <1>4, <3>2, <3>3, <3>4 DEF FrameInv
  <2> QED
    BY <2>1, <2>2
<1>10. ASSUME NEW j \in next' \ cur'
       PROVE  Complete(j)' \/ \E n \in 1..Len(stack') : stack'[n].key = j
  <2>1. CASE j = k
    <3>1. 1 \in 1..Len(stack')
      BY <1>3
    <3> QED
      BY <1>2, <1>3, <2>1, <3>1
  <2>2. CASE j # k
    <3>1. j \in map \ cur
      BY <1>1, <1>10, <2>2
    <3>2. CASE Complete(j)
      BY <1>6, <2>2, <3>1, <3>2
    <3>3. CASE \E n \in 1..Len(frames) : frames[n].key = j
      <4>1. PICK n \in 1..Len(frames) : frames[n].key = j
        BY <3>3
      <4>2. n + 1 \in 1..Len(stack') /\ stack'[n + 1].key = j
        BY <1>3, <4>1
      <4> QED
        BY <4>2
    <3> QED
      BY <3>1, <3>2, <3>3 DEF MapInv
  <2> QED
    BY <2>1, <2>2
<1>11. ASSUME NEW j \in next' \ cur', NEW side \in Sides, info'[j][side] # "none"
       PROVE  KidsOf(j, side)' \subseteq next'
  <2>1. j # k
    BY <1>4, <1>11 DEF Dummy
  <2>2. j \in map \ cur /\ info[j][side] # "none"
    BY <1>1, <1>4, <1>11, <2>1
  <2> QED
    BY <1>1, <1>6, <2>2 DEF MapInv
<1>12. MapInv(next, stack, next)'
  BY <1>1, <1>5, <1>9, <1>10, <1>11 DEF MapInv
<1>13. ASSUME NEW u \in Threads, u # t
       PROVE  pc'[u] = pc[u] /\ pc[u] \notin {"check", "generate", "unlock"}
  BY <1>13 DEF Inv, TypeOK, MutexHeld
<1>14. BuildInv' /\ FoundInv'
  BY <1>1, <1>12, <1>13 DEF Inv, TypeOK, BuildInv, FoundInv
<1>15. PublishedComplete'
  <2>1. \A j \in cur : j # k /\ j \in Keys
    BY <1>5 DEF Inv, TypeOK
  <2>2. pc'[t] # "using"
    BY DEF Inv, TypeOK
  <2> QED
    BY <1>1, <1>6, <1>13, <2>1, <2>2 DEF Inv, PublishedComplete
<1> QED
  BY <1>1, <1>4, <1>5, <1>7, <1>8, <1>14, <1>15 DEF Inv, TypeOK

LEMMA GenerateKeeps ==
  ASSUME Inv, NEW t \in Threads, Generate(t)
  PROVE  Inv' /\ \A j \in cur : j \in cur' /\ info'[j] = info[j]
<1>1. PICK k \in Keys : k = key[t]
  BY DEF Generate, Inv, TypeOK
<1>2. /\ pc[t] = "check" /\ k \notin cur /\ infoWhileGenerating(k, cur, <<>>)
      /\ pc' = [pc EXCEPT ![t] = "generate"] /\ UNCHANGED <<shape, mu, key>>
  BY <1>1 DEF Generate, Goto
<1>3. mu = t /\ cur \in SUBSET Keys /\ <<>> \in Seq(Frames)
  BY <1>2 DEF Inv, TypeOK, MutexHeld
<1>4. MapInv(cur, <<>>, cur \cup {k})
  BY DEF MapInv
<1> QED
  BY <1>1, <1>2, <1>3, <1>4, EnterKeeps

(* The thread that builds the map: nobody else works under the mutex.      *)
LEMMA Builder ==
  ASSUME Inv, NEW t \in Threads, pc[t] = "generate"
  PROVE  /\ mu = t /\ key[t] \in next /\ key[t] \in Keys /\ MapInv(next, stack, next)
         /\ \A u \in Threads : u # t => pc[u] \notin {"check", "generate", "unlock"}
BY DEF Inv, TypeOK, MutexHeld, BuildInv

(* The innermost frame, when it has looked up one more kid.                *)
LEMMA NextKid ==
  ASSUME TypeOK, MapInv(next, stack, next), stack # <<>>,
         NEW f, f = Head(stack), f.i <= Len(Made(f).kids),
         NEW kid, kid = Made(f).kids[f.i],
         NEW frames, frames = <<[f EXCEPT !.i = @ + 1]>> \o Tail(stack)
  PROVE  /\ frames \in Seq(Frames) /\ kid \in Keys
         /\ MapInv(next, frames, next \cup {kid})
<1> DEFINE g == [f EXCEPT !.i = @ + 1]
<1>1. /\ f \in Frames /\ f = stack[1] /\ Len(stack) \in Nat \ {0}
      /\ Tail(stack) \in Seq(Frames) /\ Len(Tail(stack)) = Len(stack) - 1
      /\ \A j \in 1..Len(Tail(stack)) : Tail(stack)[j] = stack[j + 1]
  BY HeadFrame DEF TypeOK, Frames
<1>2. g \in Frames /\ g.key = f.key /\ g.side = f.side /\ g.i = f.i + 1
  <2>1. f \in Frames
    BY <1>1
  <2>2. f.i \in Nat \ {0} /\ f.i + 1 \in Nat \ {0}
    BY <2>1 DEF Frames
  <2> QED
    BY <2>1, <2>2 DEF Frames
<1> HIDE DEF g
<1>3. /\ frames \in Seq(Frames) /\ Len(frames) = Len(stack)
      /\ frames[1] = g
      /\ \A j \in 1..(Len(stack) - 1) : frames[j + 1] = stack[j + 1]
  BY <1>1, <1>2, PushFrame DEF g
<1>4. Made(g) = Made(f) /\ Len(Made(f).kids) \in Nat /\ f.i \in Nat \ {0}
  BY <1>1, <1>2, MadeType DEF Made, Frames
<1>5. kid \in Keys
  BY <1>1, <1>4, MadeType DEF Frames
<1>6. LookedUp(g) \subseteq LookedUp(f) \cup {kid}
  <2>1. \A i \in 1..(g.i - 1) : i \in 1..(f.i - 1) \/ i = f.i
    BY <1>2, <1>4
  <2> QED
    BY <1>4, <2>1 DEF LookedUp
<1>7. ASSUME NEW j \in 1..Len(frames) PROVE FrameInv(frames[j], next, next \cup {kid})
  <2>1. FrameInv(stack[j], next, next)
    BY <1>1, <1>3 DEF MapInv
  <2>2. CASE j = 1
    <3>1. frames[j] = g /\ stack[j] = f
      BY <1>1, <1>3, <2>2
    <3>2. FrameInv(f, next, next)
      BY <2>1, <3>1
    <3>3. g.i <= Len(Made(g).kids) + 1
      BY <1>2, <1>4
    <3>4. LookedUp(g) \subseteq next \cup {kid}
      BY <1>6, <3>2 DEF FrameInv
    <3> QED
      BY <1>2, <3>1, <3>2, <3>3, <3>4 DEF FrameInv
  <2>3. CASE j # 1
    <3>1. j - 1 \in 1..(Len(stack) - 1) /\ (j - 1) + 1 = j
      BY <1>1, <1>3, <2>3
    <3>2. frames[j] = stack[j]
      BY <1>3, <3>1
    <3> QED
      BY <2>1, <3>2 DEF FrameInv
  <2> QED
    BY <2>2, <2>3
<1>8. \A j \in 1..Len(stack) : frames[j].key = stack[j].key
  <2>1. \A j \in 1..Len(stack) : j = 1 \/ (j - 1 \in 1..(Len(stack) - 1) /\ (j - 1) + 1 = j)
    BY <1>1
  <2> QED
    BY <1>1, <1>2, <1>3, <2>1
<1> QED
  BY <1>3, <1>5, <1>7, <1>8, ZenonT(80) DEF MapInv

LEMMA ResolveKeeps ==
  ASSUME Inv, NEW t \in Threads, Resolve(t)
  PROVE  Inv' /\ \A j \in cur : j \in cur' /\ info'[j] = info[j]
<1>1. PICK f : f = Head(stack)
  OBVIOUS
<1>2. PICK kid : kid = Made(f).kids[f.i]
  OBVIOUS
<1>3. PICK frames : frames = <<[f EXCEPT !.i = @ + 1]>> \o Tail(stack)
  OBVIOUS
<1>4. /\ pc[t] = "generate" /\ stack # <<>> /\ f.i <= Len(Made(f).kids)
      /\ UNCHANGED <<shape, mu, pc, key>>
  BY <1>1 DEF Resolve
<1>5. /\ mu = t /\ key[t] \in next /\ MapInv(next, stack, next)
      /\ \A u \in Threads : u # t => pc[u] \notin {"check", "generate", "unlock"}
  BY <1>4, Builder
<1>6. frames \in Seq(Frames) /\ kid \in Keys /\ MapInv(next, frames, next \cup {kid})
  BY <1>1, <1>2, <1>3, <1>4, <1>5, NextKid DEF Inv
<1>7. CASE kid \notin next
  <2>1. infoWhileGenerating(kid, next, frames)
    BY <1>1, <1>2, <1>3, <1>7 DEF Resolve
  <2>2. pc' = [pc EXCEPT ![t] = "generate"] /\ next \in SUBSET Keys
    BY <1>4 DEF Inv, TypeOK
  <2> QED
    BY <1>4, <1>5, <1>6, <1>7, <2>1, <2>2, EnterKeeps
<1>8. CASE kid \in next
  <2>1. stack' = frames /\ UNCHANGED <<cur, next, info>>
    BY <1>1, <1>2, <1>3, <1>8 DEF Resolve
  <2>2. next \cup {kid} = next
    BY <1>8
  <2>3. MapInv(next, frames, next)
    BY <1>6, <2>2
  <2>4. MapInv(next, stack, next)'
    <3>1. ASSUME NEW j \in 1..Len(stack') PROVE FrameInv(stack[j], next, next)'
      <4>1. FrameInv(frames[j], next, next) /\ stack'[j] = frames[j]
        BY <2>1, <2>3, <3>1 DEF MapInv
      <4>2. LookedUp(stack[j])' = LookedUp(frames[j]) /\ Made(stack[j])' = Made(frames[j])
        BY <1>4, <4>1 DEF LookedUp, Made
      <4> QED
        BY <2>1, <4>1, <4>2 DEF FrameInv
    <3>2. \A j : Complete(j)' = Complete(j) /\ \A side : KidsOf(j, side)' = KidsOf(j, side)
      BY <1>4, <2>1 DEF Complete, KidsOf
    <3> QED
      BY <2>1, <2>3, <3>1, <3>2 DEF MapInv
  <2>5. BuildInv'
    BY <1>4, <1>5, <2>1, <2>4 DEF BuildInv
  <2>6. TypeOK' /\ MutexHeld' /\ FoundInv'
    BY <1>4, <1>6, <2>1 DEF Inv, TypeOK, MutexHeld, FoundInv, Frames
  <2>7. PublishedComplete'
    BY <1>4, <2>1 DEF Inv, PublishedComplete, Complete, KidsOf
  <2> QED
    BY <2>1, <2>5, <2>6, <2>7 DEF Inv
<1> QED
  BY <1>7, <1>8

(* One side of an info is filled in, when all kids of it are in the map.   *)
LEMMA MakeKeeps ==
  ASSUME Inv, NEW t \in Threads, Make(t)
  PROVE  Inv' /\ \A j \in cur : j \in cur' /\ info'[j] = info[j]
<1>1. PICK f : f = Head(stack)
  OBVIOUS
<1>2. PICK res \in {"error", "fn"} : res = IF Fails(f) THEN "error" ELSE "fn"
  OBVIOUS
<1>3. PICK w : w = [key |-> f.key, side |-> "writer", i |-> 1]
  OBVIOUS
<1>4. /\ pc[t] = "generate" /\ stack # <<>> /\ f.i > Len(Made(f).kids)
      /\ info' = [info EXCEPT ![f.key][f.side] = res]
      /\ stack' = IF f.side = "decoder" THEN <<w>> \o Tail(stack) ELSE Tail(stack)
      /\ UNCHANGED <<shape, cur, next, mu, pc, key>>
  BY <1>1, <1>2, <1>3 DEF Make
<1>5. /\ mu = t /\ key[t] \in next /\ MapInv(next, stack, next)
      /\ \A u \in Threads : u # t => pc[u] \notin {"check", "generate", "unlock"}
  BY <1>4, Builder
<1>6. /\ f \in Frames /\ f = stack[1] /\ Len(stack) \in Nat \ {0}
      /\ Tail(stack) \in Seq(Frames) /\ Len(Tail(stack)) = Len(stack) - 1
      /\ \A j \in 1..Len(Tail(stack)) : Tail(stack)[j] = stack[j + 1]
  BY <1>1, <1>4, HeadFrame DEF Inv, TypeOK, Frames
<1>7. FrameInv(f, next, next)
  BY <1>5, <1>6 DEF MapInv
<1>8. f.key \in Keys /\ f.side \in Sides /\ f.key \in next /\ f.key \notin cur
  BY <1>6, <1>7 DEF Frames, FrameInv
<1>9. /\ info'[f.key][f.side] = res
      /\ \A k \in Keys, side \in Sides :
           k # f.key \/ side # f.side => info'[k][side] = info[k][side]
      /\ \A k \in Keys : k # f.key => info'[k] = info[k]
      /\ info' \in [Keys -> [Sides -> {"none", "fn", "error"}]]
  BY <1>2, <1>4, <1>8 DEF Inv, TypeOK
<1>10. \A k \in Keys, side \in Sides : info[k][side] # "none" => info'[k][side] # "none"
  BY <1>2, <1>9
<1>11. KidsOf(f.key, f.side) \subseteq next
  <2>1. Len(Made(f).kids) \in Nat /\ DOMAIN Made(f).kids = 1..Len(Made(f).kids) /\ Made(f) = shape[f.key][f.side]
    BY <1>6, MadeType DEF Inv, Frames
  <2>2. f.i - 1 = Len(Made(f).kids)
    BY <1>4, <1>6, <1>7, <2>1, SMTT(80) DEF FrameInv, Frames
  <2>3. KidsOf(f.key, f.side) = LookedUp(f)
    BY <2>1, <2>2 DEF KidsOf, LookedUp
  <2> QED
    BY <1>7, <2>3 DEF FrameInv
<1>12. w \in Frames /\ w.key = f.key /\ w.side = "writer" /\ w.i = 1
  BY <1>3, <1>8 DEF Frames, Sides
<1>13. stack' \in Seq(Frames) /\ Len(stack') \in Nat
  BY <1>4, <1>6, <1>12, PushFrame
<1>14. ASSUME f.side = "decoder"
       PROVE  /\ Len(stack') = Len(stack) /\ stack'[1] = w
              /\ \A j \in 2..Len(stack) : stack'[j] = stack[j]
  <2>1. /\ Len(stack') = Len(stack) /\ stack'[1] = w
        /\ \A j \in 1..(Len(stack) - 1) : stack'[j + 1] = stack[j + 1]
    BY <1>4, <1>6, <1>12, <1>14, PushFrame
  <2>2. \A j \in 2..Len(stack) : j - 1 \in 1..(Len(stack) - 1) /\ (j - 1) + 1 = j
    BY <1>6
  <2> QED
    BY <2>1, <2>2
<1>15. ASSUME f.side # "decoder"
       PROVE  /\ Len(stack') = Len(stack) - 1
              /\ \A j \in 2..Len(stack) : j - 1 \in 1..Len(stack') /\ stack'[j - 1] = stack[j]
              /\ \A j \in 1..Len(stack') : j + 1 \in 2..Len(stack) /\ stack'[j] = stack[j + 1]
  <2>1. stack' = Tail(stack)
    BY <1>4, <1>15
  <2>2. \A j \in 2..Len(stack) : j - 1 \in 1..(Len(stack) - 1) /\ (j - 1) + 1 = j
    BY <1>6
  <2>3. \A j \in 1..(Len(stack) - 1) : j + 1 \in 2..Len(stack)
    BY <1>6
  <2> QED
    BY <1>6, <2>1, <2>2, <2>3
<1>16. /\ \A j \in 1..Len(stack') : stack'[j] = w \/ \E n \in 1..Len(stack) : stack'[j] = stack[n]
       /\ \A j \in 1..Len(stack') : stack'[j] = w => info'[f.key]["decoder"] # "none"
  <2>1. CASE f.side = "decoder"
    <3>1. \A j \in 1..Len(stack') : j = 1 \/ j \in 2..Len(stack)
      BY <1>6, <1>14, <2>1
    <3>2. info'[f.key]["decoder"] # "none"
      BY <1>2, <1>9, <2>1
    <3> QED
      BY <1>14, <2>1, <3>1, <3>2
  <2>2. CASE f.side # "decoder"
    <3>1. info[f.key]["decoder"] # "none"
      BY <1>7, <1>8, <2>2 DEF FrameInv, Sides
    <3>2. info'[f.key]["decoder"] # "none"
      BY <1>8, <1>10, <3>1 DEF Sides
    <3> QED
      BY <1>15, <2>2, <3>2
  <2> QED
    BY <2>1, <2>2
<1>17. ASSUME NEW j \in 1..Len(stack') PROVE FrameInv(stack[j], next, next)'
  <2>1. CASE stack'[j] = w
    <3>1. Len(Made(w).kids) \in Nat
      BY <1>12, MadeType DEF Inv, Frames
    <3>6. LookedUp(w) = {}
      BY <1>12 DEF LookedUp
    <3>2. Made(stack[j])' = Made(w) /\ LookedUp(stack[j])' = {}
      BY <1>4, <2>1, <3>6 DEF Made, LookedUp
    <3>3. info'[stack'[j].key]["decoder"] # "none"
      BY <1>12, <1>16, <2>1
    <3>4. stack'[j].i <= Len(Made(stack[j])'.kids) + 1
      BY <1>12, <2>1, <3>1, <3>2
    <3>5. stack'[j].key \in next' \ cur'
      BY <1>4, <1>8, <1>12, <2>1
    <3> QED
      BY <3>2, <3>3, <3>4, <3>5 DEF FrameInv
  <2>2. CASE stack'[j] # w
    <3>1. PICK n \in 1..Len(stack) : stack'[j] = stack[n]
      BY <1>16, <2>2
    <3>2. FrameInv(stack[n], next, next) /\ stack[n].key \in Keys
      BY <1>5, <3>1 DEF MapInv, FrameInv, Inv, TypeOK
    <3>3. Made(stack[j])' = Made(stack[n]) /\ LookedUp(stack[j])' = LookedUp(stack[n])
      BY <1>4, <3>1 DEF Made, LookedUp
    <3>4. stack'[j].side = "writer" => info'[stack'[j].key]["decoder"] # "none"
      BY <1>10, <3>1, <3>2 DEF FrameInv, Sides
    <3> QED
      BY <1>4, <3>1, <3>2, <3>3, <3>4 DEF FrameInv
  <2> QED
    BY <2>1, <2>2
<1>18. next \subseteq Keys /\ cur \subseteq Keys
  BY DEF Inv, TypeOK
<1>19. ASSUME NEW k \in next \ cur
       PROVE  Complete(k)' \/ \E n \in 1..Len(stack') : stack'[n].key = k
  <2>1. CASE Complete(k)
    BY <1>10, <1>18, <2>1 DEF Complete
  <2>2. CASE ~Complete(k)
    <3>1. PICK n \in 1..Len(stack) : stack[n].key = k
      BY <1>5, <2>2 DEF MapInv
    <3>2. CASE n # 1
      <4>1. n \in 2..Len(stack)
        BY <1>6, <3>2
      <4>2. CASE f.side = "decoder"
        BY <1>6, <1>14, <3>1, <4>1, <4>2
      <4>3. CASE f.side # "decoder"
        BY <1>15, <3>1, <4>1, <4>3
      <4> QED
        BY <4>2, <4>3
    <3>3. CASE n = 1
      <4>1. k = f.key
        BY <1>6, <3>1, <3>3
      <4>2. CASE f.side = "decoder"
        <5>1. 1 \in 1..Len(stack') /\ stack'[1].key = k
          BY <1>6, <1>12, <1>14, <4>1, <4>2
        <5> QED
          BY <5>1
      <4>3. CASE f.side # "decoder"
        <5>1. f.side = "writer" /\ info[k]["decoder"] # "none"
          BY <1>7, <1>8, <4>1, <4>3 DEF FrameInv, Sides
        <5>2. info'[k]["decoder"] # "none" /\ info'[k]["writer"] # "none"
          BY <1>2, <1>8, <1>9, <1>10, <4>1, <5>1 DEF Sides
        <5> QED
          BY <5>2 DEF Complete, Sides
      <4> QED
        BY <4>2, <4>3
    <3> QED
      BY <3>2, <3>3
  <2> QED
    BY <2>1, <2>2
<1>20. \A k, side : KidsOf(k, side)' = KidsOf(k, side)
  BY <1>4 DEF KidsOf
<1>21. ASSUME NEW k \in next \ cur, NEW side \in Sides, info'[k][side] # "none"
       PROVE  KidsOf(k, side) \subseteq next
  <2>1. CASE k = f.key /\ side = f.side
    BY <1>11, <2>1
  <2>2. CASE ~(k = f.key /\ side = f.side)
    <3>1. info[k][side] # "none"
      BY <1>9, <1>18, <1>21, <2>2
    <3> QED
      BY <1>5, <3>1 DEF MapInv
  <2> QED
    BY <2>1, <2>2
<1>22. MapInv(next, stack, next)'
  BY <1>4, <1>5, <1>17, <1>19, <1>20, <1>21 DEF MapInv
<1>23. BuildInv'
  BY <1>4, <1>5, <1>22 DEF BuildInv
<1>24. TypeOK' /\ MutexHeld' /\ FoundInv'
  BY <1>4, <1>9, <1>13 DEF Inv, TypeOK, MutexHeld, FoundInv, Frames
<1>25. PublishedComplete'
  <2>1. \A k \in cur : Complete(k)' = Complete(k)
    BY <1>8, <1>9, <1>18 DEF Complete
  <2> QED
    BY <1>4, <1>20, <2>1 DEF Inv, PublishedComplete
<1> QED
  BY <1>4, <1>8, <1>9, <1>18, <1>23, <1>24, <1>25 DEF Inv

(* The map is published when no frame is left: all its keys are finished.  *)
LEMMA PublishKeeps ==
  ASSUME Inv, NEW t \in Threads, Publish(t)
  PROVE  Inv' /\ \A j \in cur : j \in cur' /\ info'[j] = info[j]
<1>1. /\ pc[t] = "generate" /\ stack = <<>> /\ cur' = next /\ next' = {}
      /\ pc' = [pc EXCEPT ![t] = "unlock"]
      /\ UNCHANGED <<shape, info, mu, stack, key>>
  BY DEF Publish, Goto
<1>2. /\ mu = t /\ key[t] \in next /\ MapInv(next, stack, next)
      /\ \A u \in Threads : u # t => pc[u] \notin {"check", "generate", "unlock"}
  BY <1>1, Builder
<1>3. cur \subseteq next
  BY <1>2 DEF MapInv
<1>4. \A k \in next \ cur : Complete(k) /\ \A side \in Sides : KidsOf(k, side) \subseteq next
  BY <1>1, <1>2 DEF MapInv, Complete
<1>5. \A k : Complete(k)' = Complete(k) /\ \A side : KidsOf(k, side)' = KidsOf(k, side)
  BY <1>1 DEF Complete, KidsOf
<1>6. \A u \in Threads : pc'[u] = IF u = t THEN "unlock" ELSE pc[u]
  BY <1>1 DEF Inv, TypeOK
<1>7. PublishedComplete'
  BY <1>1, <1>3, <1>4, <1>5, <1>6 DEF Inv, PublishedComplete
<1>8. BuildInv' /\ FoundInv' /\ MutexHeld'
  BY <1>1, <1>2, <1>6 DEF Inv, BuildInv, FoundInv, MutexHeld
<1>9. TypeOK'
  BY <1>1, <1>6 DEF Inv, TypeOK
<1> QED
  BY <1>1, <1>3, <1>7, <1>8, <1>9 DEF Inv

-----------------------------------------------------------------------------
(* Reachability.                                                           *)

(* Kids are keys.                                                          *)
LEMMA KidsType ==
  ASSUME TypeOK, NEW k \in Keys, NEW side \in Sides
  PROVE  KidsOf(k, side) \subseteq Keys
<1>1. shape[k][side].kids \in Seq(Keys)
  BY DEF TypeOK
<1> QED
  BY <1>1 DEF KidsOf

LEMMA ReachSelf ==
  ASSUME NEW k \in Keys, NEW sides
  PROVE  k \in Reach(k, sides)
BY DEF Reach

LEMMA ReachKid ==
  ASSUME TypeOK, NEW sides \in SUBSET Sides, NEW k, NEW j \in Reach(k, sides),
         NEW side \in sides, NEW kid \in KidsOf(j, side)
  PROVE  kid \in Reach(k, sides)
<1>1. kid \in Keys
  BY KidsType DEF Reach
<1>2. ASSUME NEW S \in SUBSET Keys, k \in S, Closed(S, sides)
      PROVE  kid \in S
  BY <1>2 DEF Reach, Closed
<1> QED
  BY <1>1, <1>2 DEF Reach

LEMMA ReachTransitive ==
  ASSUME NEW sides, NEW k, NEW j \in Reach(k, sides), NEW i \in Reach(j, sides)
  PROVE  i \in Reach(k, sides)
BY DEF Reach

(* What is reached from k is k itself or is reached from a kid of it.      *)
LEMMA ReachStep ==
  ASSUME TypeOK, NEW side \in Sides, NEW k \in Keys, NEW j \in Reach(k, {side})
  PROVE  j = k \/ \E kid \in KidsOf(k, side) : j \in Reach(kid, {side})
<1> DEFINE S == {i \in Keys : i = k \/ \E kid \in KidsOf(k, side) : i \in Reach(kid, {side})}
<1>1. S \in SUBSET Keys /\ k \in S
  OBVIOUS
<1>2. ASSUME NEW i \in S, NEW kid \in KidsOf(i, side) PROVE kid \in S
  <2>1. kid \in Keys
    BY KidsType
  <2>2. CASE i = k
    BY <2>1, <2>2, ReachSelf
  <2>3. CASE i # k
    <3>1. PICK top \in KidsOf(k, side) : i \in Reach(top, {side})
      BY <2>3
    <3>2. kid \in Reach(top, {side})
      BY <3>1, ReachKid
    <3> QED
      BY <2>1, <3>1, <3>2
  <2> QED
    BY <2>2, <2>3
<1>3. Closed(S, {side})
  BY <1>2 DEF Closed
<1>4. j \in S
  <2> HIDE DEF S
  <2> QED
    BY <1>1, <1>3 DEF Reach
<1> QED
  BY <1>4

(* A key without an encoding makes those unusable that are made of it.     *)
LEMMA UnusableAbove ==
  ASSUME TypeOK, NEW side \in Sides, NEW k \in Keys, NEW kid \in KidsOf(k, side), Unusable(kid, side)
  PROVE  Unusable(k, side)
<1>1. PICK j \in Reach(kid, {side}) : ~shape[j][side].ok
  BY DEF Unusable
<1>2. kid \in Reach(k, {side})
  BY ReachSelf, ReachKid
<1>3. j \in Reach(k, {side})
  BY <1>1, <1>2, ReachTransitive
<1> QED
  BY <1>1, <1>3 DEF Unusable

(* and nothing else does.                                                  *)
LEMMA UnusableBelow ==
  ASSUME TypeOK, NEW side \in Sides, NEW k \in Keys, Unusable(k, side), shape[k][side].ok
  PROVE  \E kid \in KidsOf(k, side) : Unusable(kid, side)
<1>1. PICK j \in Reach(k, {side}) : ~shape[j][side].ok
  BY DEF Unusable
<1>2. PICK kid \in KidsOf(k, side) : j \in Reach(kid, {side})
  BY <1>1, ReachStep
<1> QED
  BY <1>1, <1>2 DEF Unusable

LEMMA BrokenAbove ==
  ASSUME TypeOK, NEW side \in Sides, NEW k \in Keys, NEW kid \in KidsOf(k, side), Broken(kid, side)
  PROVE  Broken(k, side)
<1>1. PICK j \in Reach(kid, Sides) : Recursive(j) /\ Unusable(j, side)
  BY DEF Broken
<1>2. kid \in Reach(k, Sides)
  BY ReachSelf, ReachKid
<1>3. j \in Reach(k, Sides)
  BY <1>1, <1>2, ReachTransitive
<1> QED
  BY <1>1, <1>3 DEF Broken

-----------------------------------------------------------------------------
(* Which infos have an error.  A kid that is a dummy is the key of a frame *)
(* on the stack, from which the frame that looks it up can be reached: the *)
(* key of that frame is recursive.                                         *)

(* The key of a frame is reached from those of the frames below it.        *)
Chain(frames) ==
  \A m \in 1..Len(frames), n \in 1..Len(frames) :
    m <= n => frames[m].key \in Reach(frames[n].key, Sides)

Exact(k, side) ==
  /\ info[k][side] = "error" => Unusable(k, side)
  /\ info[k][side] = "fn" /\ Unusable(k, side) => Broken(k, side)

ExactInv == Inv /\ Chain(stack) /\ \A k \in Keys, side \in Sides : Exact(k, side)

(* The program does not change.                                            *)
LEMMA ShapeConstant ==
  ASSUME UNCHANGED shape
  PROVE  /\ \A k, sides : Reach(k, sides)' = Reach(k, sides)
         /\ \A k, side : Unusable(k, side)' = Unusable(k, side)
         /\ \A k, side : Broken(k, side)' = Broken(k, side)
BY DEF Reach, Closed, KidsOf, Unusable, Broken, Recursive

LEMMA ChainPush ==
  ASSUME TypeOK, NEW frames \in Seq(Frames), Chain(frames), NEW e \in Frames,
         frames # <<>> => e.key \in Reach(frames[1].key, Sides)
  PROVE  Chain(<<e>> \o frames)
<1> DEFINE s == <<e>> \o frames
<1>1. /\ Len(s) = Len(frames) + 1 /\ Len(frames) \in Nat /\ s[1] = e
      /\ \A j \in 1..Len(frames) : s[j + 1] = frames[j]
  BY PushFrame
<1> HIDE DEF s
<1>2. e.key \in Keys /\ e.key \in Reach(e.key, Sides)
  BY ReachSelf DEF Frames
<1>3. ASSUME NEW m \in 1..Len(s), NEW n \in 1..Len(s), m <= n
      PROVE  s[m].key \in Reach(s[n].key, Sides)
  <2>1. CASE n = 1
    BY <1>1, <1>2, <1>3, <2>1
  <2>2. CASE n # 1
    <3>1. PICK j \in 1..Len(frames) : j = n - 1 /\ n = j + 1
      BY <1>1, <2>2
    <3>2. s[n] = frames[j] /\ frames # <<>>
      BY <1>1, <3>1
    <3>3. CASE m = 1
      <4>1. frames[1].key \in Reach(frames[j].key, Sides)
        BY <3>1, <1>1 DEF Chain
      <4> QED
        BY <1>1, <3>2, <3>3, <4>1, ReachTransitive
    <3>4. CASE m # 1
      <4>1. PICK i \in 1..Len(frames) : m = i + 1 /\ i <= j
        BY <1>1, <1>3, <3>1, <3>4
      <4> QED
        BY <1>1, <3>2, <4>1 DEF Chain
    <3> QED
      BY <3>3, <3>4
  <2> QED
    BY <2>1, <2>2
<1> QED
  BY <1>3 DEF Chain, s

LEMMA ChainTail ==
  ASSUME NEW frames \in Seq(Frames), frames # <<>>, Chain(frames)
  PROVE  Chain(Tail(frames))
<1>1. /\ Tail(frames) \in Seq(Frames) /\ Len(Tail(frames)) = Len(frames) - 1 /\ Len(frames) \in Nat
      /\ \A j \in 1..Len(Tail(frames)) : Tail(frames)[j] = frames[j + 1]
  BY HeadFrame
<1>2. ASSUME NEW m \in 1..Len(Tail(frames)), NEW n \in 1..Len(Tail(frames)), m <= n
      PROVE  Tail(frames)[m].key \in Reach(Tail(frames)[n].key, Sides)
  <2>1. m + 1 \in 1..Len(frames) /\ n + 1 \in 1..Len(frames) /\ m + 1 <= n + 1
    BY <1>1, <1>2
  <2> QED
    BY <1>1, <2>1 DEF Chain
<1> QED
  BY <1>2 DEF Chain

(* The frame on top may be replaced by another one for its key.            *)
LEMMA ChainReplace ==
  ASSUME TypeOK, NEW frames \in Seq(Frames), frames # <<>>, Chain(frames),
         NEW e \in Frames, e.key = Head(frames).key
  PROVE  Chain(<<e>> \o Tail(frames))
<1>1. /\ Head(frames) = frames[1] /\ Tail(frames) \in Seq(Frames) /\ Len(frames) \in Nat \ {0}
      /\ Len(Tail(frames)) = Len(frames) - 1
      /\ \A j \in 1..Len(Tail(frames)) : Tail(frames)[j] = frames[j + 1]
  BY HeadFrame
<1>2. Tail(frames) # <<>> => e.key \in Reach(Tail(frames)[1].key, Sides)
  <2> SUFFICES ASSUME Tail(frames) # <<>> PROVE e.key \in Reach(Tail(frames)[1].key, Sides)
    OBVIOUS
  <2>1. 1 \in 1..Len(Tail(frames)) /\ 2 \in 1..Len(frames) /\ 1 \in 1..Len(frames)
    BY <1>1, EmptySeq
  <2> QED
    BY <1>1, <2>1 DEF Chain
<1> QED
  BY <1>1, <1>2, ChainTail, ChainPush

(* A new dummy has neither a decoder nor an error.                         *)
LEMMA ExactDummy ==
  ASSUME TypeOK, \A k \in Keys, side \in Sides : Exact(k, side), UNCHANGED shape,
         NEW new \in Keys, info' = [info EXCEPT ![new] = Dummy]
  PROVE  \A k \in Keys, side \in Sides : Exact(k, side)'
<1> SUFFICES ASSUME NEW k \in Keys, NEW side \in Sides PROVE Exact(k, side)'
  OBVIOUS
<1>1. info'[k][side] = IF k = new THEN "none" ELSE info[k][side]
  BY DEF TypeOK, Dummy
<1> QED
  BY <1>1, ShapeConstant DEF Exact

(* The kid that the frame on top looks up can be reached from its key.     *)
LEMMA ExactResolve ==
  ASSUME ExactInv, NEW t \in Threads, Resolve(t)
  PROVE  Chain(stack)' /\ \A k \in Keys, side \in Sides : Exact(k, side)'
<1>1. PICK f : f = Head(stack)
  OBVIOUS
<1>2. PICK kid : kid = Made(f).kids[f.i]
  OBVIOUS
<1>3. PICK g : g = [f EXCEPT !.i = @ + 1]
  OBVIOUS
<1>4. PICK frames : frames = <<g>> \o Tail(stack)
  OBVIOUS
<1>5. /\ stack # <<>> /\ f.i <= Len(Made(f).kids) /\ UNCHANGED shape
      /\ \/ stack' = frames /\ UNCHANGED info
         \/ infoWhileGenerating(kid, next, frames)
  BY <1>1, <1>2, <1>3, <1>4 DEF Resolve
<1>6. TypeOK /\ stack \in Seq(Frames) /\ Chain(stack)
  BY DEF ExactInv, Inv, TypeOK, Frames
<1>7. f \in Frames /\ Tail(stack) \in Seq(Frames)
  BY <1>1, <1>5, <1>6, HeadFrame
<1>8. g \in Frames /\ g.key = f.key
  <2>1. f.i + 1 \in Nat \ {0}
    BY <1>7 DEF Frames
  <2> QED
    BY <1>3, <1>7, <2>1 DEF Frames
<1>9. frames \in Seq(Frames) /\ Chain(frames) /\ frames[1] = g
  BY <1>1, <1>4, <1>5, <1>6, <1>7, <1>8, ChainReplace, PushFrame
<1>10. kid \in Keys /\ kid \in KidsOf(f.key, f.side) /\ f.side \in Sides
  <2>1. f.i \in 1..Len(Made(f).kids) /\ f.side \in Sides
    BY <1>5, <1>6, <1>7, MadeType DEF Frames
  <2> QED
    BY <1>2, <1>6, <1>7, <2>1, MadeType DEF Frames, KidsOf
<1>11. kid \in Reach(g.key, Sides)
  BY <1>6, <1>7, <1>8, <1>10, ReachSelf, ReachKid DEF Frames
<1>12. CASE stack' = frames /\ UNCHANGED info
  <2>1. Chain(stack)'
    BY <1>5, <1>9, <1>12, ShapeConstant DEF Chain
  <2>2. \A k \in Keys, side \in Sides : Exact(k, side)'
    BY <1>5, <1>12, ShapeConstant DEF ExactInv, Exact
  <2> QED
    BY <2>1, <2>2
<1>13. CASE infoWhileGenerating(kid, next, frames)
  <2>1. PICK e : e = [key |-> kid, side |-> "decoder", i |-> 1]
    OBVIOUS
  <2>2. info' = [info EXCEPT ![kid] = Dummy] /\ stack' = <<e>> \o frames
    BY <1>13, <2>1 DEF infoWhileGenerating
  <2>3. e \in Frames /\ e.key = kid
    BY <1>10, <2>1 DEF Frames, Sides
  <2>4. Chain(<<e>> \o frames)
    BY <1>6, <1>9, <1>11, <2>3, ChainPush
  <2>5. Chain(stack)'
    BY <1>5, <2>2, <2>4, ShapeConstant DEF Chain
  <2> QED
    BY <1>5, <1>6, <1>10, <2>2, <2>5, ExactDummy DEF ExactInv
<1> QED
  BY <1>5, <1>12, <1>13

LEMMA ExactGenerate ==
  ASSUME ExactInv, NEW t \in Threads, Generate(t)
  PROVE  Chain(stack)' /\ \A k \in Keys, side \in Sides : Exact(k, side)'
<1>1. PICK k \in Keys : k = key[t]
  BY DEF Generate, ExactInv, Inv, TypeOK
<1>2. PICK e : e = [key |-> k, side |-> "decoder", i |-> 1]
  OBVIOUS
<1>3. info' = [info EXCEPT ![k] = Dummy] /\ stack' = <<e>> \o <<>> /\ UNCHANGED shape
  BY <1>1, <1>2 DEF Generate, infoWhileGenerating
<1>4. TypeOK /\ e \in Frames /\ <<>> \in Seq(Frames) /\ Chain(<<>>)
  BY <1>2 DEF Frames, Sides, ExactInv, Inv, Chain
<1>5. Chain(<<e>> \o <<>>)
  BY <1>4, ChainPush
<1>6. Chain(stack)'
  BY <1>3, <1>5, ShapeConstant DEF Chain
<1> QED
  BY <1>3, <1>4, <1>6, ExactDummy DEF ExactInv

-----------------------------------------------------------------------------
(* The theorems.                                                           *)

LEMMA InvInit == Init => Inv
<1> SUFFICES ASSUME Init PROVE Inv
  OBVIOUS
<1>1. TypeOK
  BY TypeCacheAssumption DEF Init, TypeOK, Dummy
<1> QED
  BY <1>1, TypeCacheAssumption DEF Init, Inv, MutexHeld, BuildInv, FoundInv, PublishedComplete

LEMMA InvStep ==
  ASSUME Inv, [Next]_vars
  PROVE  Inv' /\ \A j \in cur : j \in cur' /\ info'[j] = info[j]
<1>1. CASE UNCHANGED vars
  <2>1. TypeOK' /\ MutexHeld' /\ FoundInv' /\ UNCHANGED <<cur, info>>
    BY <1>1 DEF vars, Inv, TypeOK, MutexHeld, FoundInv
  <2>2. BuildInv'
    BY <1>1, SMTT(80) DEF vars, Inv, BuildInv, MapInv, FrameInv, LookedUp, Made, KidsOf, Complete
  <2>3. PublishedComplete'
    BY <1>1 DEF vars, Inv, PublishedComplete, Complete, KidsOf
  <2> QED
    BY <2>1, <2>2, <2>3 DEF Inv
<1>2. ASSUME NEW t \in Threads, Step(t) \/ \E k \in Roots : Info(t, k)
      PROVE  Inv' /\ \A j \in cur : j \in cur' /\ info'[j] = info[j]
  BY <1>2, QuietKeeps, GenerateKeeps, ResolveKeeps, MakeKeeps, PublishKeeps DEF Step
<1> QED
  BY <1>1, <1>2 DEF Next

LEMMA Invariant == Spec => []Inv
<1>1. Inv /\ [Next]_vars => Inv'
  BY InvStep
<1> QED
  BY <1>1, InvInit, PTL DEF Spec

(* A side is made of the infos of its kids: an error comes from one of     *)
(* them, and a kid that is unusable but has none is a dummy or broken.     *)
LEMMA ExactMake ==
  ASSUME ExactInv, NEW t \in Threads, Make(t)
  PROVE  Chain(stack)' /\ \A k \in Keys, side \in Sides : Exact(k, side)'
<1>1. PICK f : f = Head(stack)
  OBVIOUS
<1>2. PICK res \in {"error", "fn"} : res = IF Fails(f) THEN "error" ELSE "fn"
  OBVIOUS
<1>3. PICK w : w = [key |-> f.key, side |-> "writer", i |-> 1]
  OBVIOUS
<1>4. /\ pc[t] = "generate" /\ stack # <<>> /\ f.i > Len(Made(f).kids)
      /\ info' = [info EXCEPT ![f.key][f.side] = res]
      /\ stack' = IF f.side = "decoder" THEN <<w>> \o Tail(stack) ELSE Tail(stack)
      /\ UNCHANGED shape
  BY <1>1, <1>2, <1>3 DEF Make
<1>5. TypeOK /\ stack \in Seq(Frames) /\ Chain(stack)
  BY DEF ExactInv, Inv, TypeOK, Frames
<1>6. f \in Frames /\ f = stack[1] /\ Len(stack) \in Nat \ {0}
  BY <1>1, <1>4, <1>5, HeadFrame
<1>7. PICK k \in Keys : k = f.key
  BY <1>6 DEF Frames
<1>8. PICK side \in Sides : side = f.side
  BY <1>6 DEF Frames
<1>9. w \in Frames /\ w.key = f.key
  BY <1>3, <1>7 DEF Frames, Sides
<1>10. Chain(stack)'
  <2>1. Chain(<<w>> \o Tail(stack)) /\ Chain(Tail(stack))
    BY <1>1, <1>4, <1>5, <1>9, ChainReplace, ChainTail
  <2>2. CASE f.side = "decoder"
    BY <1>4, <2>1, <2>2, ShapeConstant DEF Chain
  <2>3. CASE f.side # "decoder"
    BY <1>4, <2>1, <2>3, ShapeConstant DEF Chain
  <2> QED
    BY <2>2, <2>3
<1>11. MapInv(next, stack, next)
  BY <1>4, Builder DEF ExactInv
<1>12. /\ shape[k][side] = Made(f)
       /\ KidsOf(k, side) = {Made(f).kids[i] : i \in DOMAIN Made(f).kids}
  BY <1>7, <1>8 DEF Made, KidsOf
<1>13. KidsOf(k, side) \subseteq next
  <2>1. FrameInv(f, next, next)
    BY <1>6, <1>11 DEF MapInv
  <2>2. Len(Made(f).kids) \in Nat /\ DOMAIN Made(f).kids = 1..Len(Made(f).kids) /\ f.i \in Nat
    BY <1>5, <1>6, MadeType DEF Frames
  <2>3. f.i - 1 = Len(Made(f).kids)
    BY <1>4, <2>1, <2>2 DEF FrameInv
  <2>4. LookedUp(f) = KidsOf(k, side)
    BY <1>12, <2>2, <2>3 DEF LookedUp
  <2> QED
    BY <2>1, <2>4 DEF FrameInv
<1>14. Fails(f) <=> ~shape[k][side].ok \/ \E kid \in KidsOf(k, side) : info[kid][side] = "error"
  BY <1>8, <1>12 DEF Fails
<1>15. Fails(f) => Unusable(k, side)
  <2>1. CASE ~shape[k][side].ok
    BY <2>1, ReachSelf DEF Unusable
  <2>2. ASSUME NEW kid \in KidsOf(k, side), info[kid][side] = "error" PROVE Unusable(k, side)
    <3>1. kid \in Keys
      BY <1>5, KidsType
    <3>2. Unusable(kid, side)
      BY <2>2, <3>1 DEF ExactInv, Exact
    <3> QED
      BY <1>5, <3>2, UnusableAbove
  <2> QED
    BY <1>14, <2>1, <2>2
<1>16. ASSUME ~Fails(f), Unusable(k, side) PROVE Broken(k, side)
  <2>1. PICK kid \in KidsOf(k, side) : Unusable(kid, side)
    BY <1>5, <1>14, <1>16, UnusableBelow
  <2>2. kid \in Keys /\ kid \in next /\ info[kid][side] # "error"
    BY <1>5, <1>13, <1>14, <1>16, KidsType
  <2>3. CASE info[kid][side] = "fn"
    <3>1. Broken(kid, side)
      BY <2>1, <2>2, <2>3 DEF ExactInv, Exact
    <3> QED
      BY <1>5, <3>1, BrokenAbove
  <2>4. CASE info[kid][side] = "none"
    <3>1. ~Complete(kid)
      BY <2>4 DEF Complete
    <3>2. kid \notin cur
      BY <3>1 DEF ExactInv, Inv, PublishedComplete
    <3>3. PICK n \in 1..Len(stack) : stack[n].key = kid
      BY <1>11, <2>2, <3>1, <3>2 DEF MapInv
    <3>4. 1 \in 1..Len(stack) /\ 1 <= n
      BY <1>6
    <3>5. k \in Reach(kid, Sides)
      BY <1>5, <1>6, <1>7, <3>3, <3>4 DEF Chain
    <3>6. Recursive(k) /\ k \in Reach(k, Sides)
      BY <3>5, ReachSelf DEF Recursive
    <3> QED
      BY <1>16, <3>6 DEF Broken
  <2>5. info[kid][side] \in {"none", "fn", "error"}
    BY <1>5, <2>2 DEF TypeOK
  <2> QED
    BY <2>2, <2>3, <2>4, <2>5
<1>17. ASSUME NEW j \in Keys, NEW s \in Sides PROVE Exact(j, s)'
  <2>1. info'[j][s] = IF j = k /\ s = side THEN res ELSE info[j][s]
    BY <1>4, <1>5, <1>7, <1>8 DEF TypeOK
  <2>2. CASE j = k /\ s = side
    BY <1>2, <1>4, <1>15, <1>16, <2>1, <2>2, ShapeConstant DEF Exact
  <2>3. CASE ~(j = k /\ s = side)
    BY <1>4, <2>1, <2>3, ShapeConstant DEF ExactInv, Exact
  <2> QED
    BY <2>2, <2>3
<1> QED
  BY <1>10, <1>17

LEMMA ExactStep ==
  ASSUME ExactInv, [Next]_vars
  PROVE  ExactInv'
<1>1. Inv'
  <2>1. Inv
    BY DEF ExactInv
  <2> QED
    BY <2>1, InvStep
<1>2. ASSUME UNCHANGED <<shape, info, stack>>
      PROVE  Chain(stack)' /\ \A k \in Keys, side \in Sides : Exact(k, side)'
  BY <1>2, ShapeConstant DEF ExactInv, Chain, Exact
<1>3. ASSUME UNCHANGED vars
      PROVE  Chain(stack)' /\ \A k \in Keys, side \in Sides : Exact(k, side)'
  BY <1>2, <1>3 DEF vars
<1>4. ASSUME NEW t \in Threads, Step(t) \/ \E k \in Roots : Info(t, k)
      PROVE  Chain(stack)' /\ \A k \in Keys, side \in Sides : Exact(k, side)'
  <2>1. CASE (\E k \in Roots : Info(t, k)) \/ Lock(t) \/ Recheck(t) \/ Return(t) \/ Use(t) \/ Publish(t)
    BY <1>2, <2>1 DEF Info, Lock, Recheck, Return, Use, Publish
  <2> QED
    BY <1>4, <2>1, ExactGenerate, ExactResolve, ExactMake DEF Step
<1>5. Chain(stack)' /\ \A k \in Keys, side \in Sides : Exact(k, side)'
  BY <1>3, <1>4 DEF Next
<1> QED
  BY <1>1, <1>5 DEF ExactInv

LEMMA ExactInvariant == Spec => []ExactInv
<1>1. Init => ExactInv
  <2> SUFFICES ASSUME Init PROVE ExactInv
    OBVIOUS
  <2>1. Inv
    BY InvInit
  <2>2. stack = <<>> /\ \A k \in Keys, side \in Sides : info[k][side] = "none"
    BY DEF Init, Dummy
  <2> QED
    BY <2>1, <2>2 DEF ExactInv, Exact, Chain
<1>2. ExactInv /\ [Next]_vars => ExactInv'
  BY ExactStep
<1> QED
  BY <1>1, <1>2, PTL DEF Spec

(* A goroutine that reads the published map without the lock never finds   *)
(* an info that is still a dummy, nor one that leads to a key that is not  *)
(* published.                                                              *)
THEOREM NoDummyIsPublished == Spec => []PublishedComplete
<1>1. Inv => PublishedComplete
  BY DEF Inv
<1> QED
  BY <1>1, Invariant, PTL

(* What is published is never taken back and never changed, although the   *)
(* next map is built from the same infos.                                  *)
THEOREM InfosAreImmutable == Spec => PublishedForever
<1>1. Inv /\ [Next]_vars => [\A k \in cur : k \in cur' /\ info'[k] = info[k]]_vars
  BY InvStep
<1> QED
  BY <1>1, Invariant, PTL DEF Spec, PublishedForever
(* The error of a type is right whatever the order in which types are      *)
(* looked up and whoever generates them: a published type has an error     *)
(* only if it is made of one without an encoding, and if it is, it has an  *)
(* error unless that happens within a recursive type, which finds its own  *)
(* dummy before there is an error in it.                                   *)
THEOREM ErrorsAreExact == Spec => []PublishedExact
<1>1. ExactInv => PublishedExact
  BY DEF ExactInv, Inv, TypeOK, Exact, PublishedExact
<1> QED
  BY <1>1, ExactInvariant, PTL
=============================================================================
