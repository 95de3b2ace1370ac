----------------------------- MODULE TypeCache -----------------------------
(***************************************************************************)
(* The cache of type information (src/rlp/typecache.go) and the goroutines *)
(* that use it.  Readers load the published map without a lock; a type     *)
(* that is not in it is generated under a mutex in a copy of the map,      *)
(* together with all types it is made of, and the copy is published.       *)
(*                                                                         *)
(* A key stands for a type with struct tags.  Making the decoder (or the   *)
(* writer) of a key looks up the infos of other keys, its kids, and fails  *)
(* if one of these has an error; or it fails by itself, for a type without *)
(* an encoding and a struct with invalid tags.  What the decoders and      *)
(* writers do is in RlpCodec.                                              *)
(***************************************************************************)
EXTENDS Integers, Sequences

CONSTANTS
  Threads,   (* The goroutines.                                            *)
  Keys,      (* Types with tags.                                           *)
  Roots,     (* Those without tags, which the goroutines ask for.          *)
  Shapes,    (* Programs: functions from Keys to records of a decoder and  *)
             (* a writer side, each with ok, FALSE if it fails by itself,  *)
             (* and kids, a sequence of keys.                              *)
  None       (* No thread or key.                                          *)

Sides == {"decoder", "writer"}

ASSUME TypeCacheAssumption ==
  /\ Roots \subseteq Keys
  /\ None \notin Threads \cup Keys
  /\ Shapes \subseteq [Keys -> [Sides -> [ok : BOOLEAN, kids : Seq(Keys)]]]

VARIABLES
  shape,   (* The types of the program, which never change.                *)
  cur,     (* The keys of the published map.                               *)
  next,    (* The keys of the map that is being built.                     *)
  info,    (* The infos: per side "fn", "error", or "none" while the info  *)
           (* is a dummy.                                                  *)
  mu,      (* The thread that holds the mutex.                             *)
  stack,   (* Its calls of infoWhileGenerating: the key, the side that is  *)
           (* being made and the kid that is looked up next.               *)
  pc,      (* Where each thread is.                                        *)
  key      (* The key it asked for.                                        *)

vars == <<shape, cur, next, info, mu, stack, pc, key>>

Dummy == [side \in Sides |-> "none"]

Init ==
  /\ shape \in Shapes
  /\ cur = {} /\ next = {}
  /\ info = [k \in Keys |-> Dummy]
  /\ mu = None
  /\ stack = <<>>
  /\ pc = [t \in Threads |-> "idle"]
  /\ key = [t \in Threads |-> None]

Goto(t, where) == pc' = [pc EXCEPT ![t] = where]

-----------------------------------------------------------------------------

(* info: the lookup in the published map.                                  *)
Info(t, k) ==
  /\ pc[t] = "idle"
  /\ key' = [key EXCEPT ![t] = k]
  /\ Goto(t, IF k \in cur THEN "using" ELSE "lock")
  /\ UNCHANGED <<shape, cur, next, info, mu, stack>>

(* generate takes the mutex,                                               *)
Lock(t) ==
  /\ pc[t] = "lock" /\ mu = None
  /\ mu' = t
  /\ Goto(t, "check")
  /\ UNCHANGED <<shape, cur, next, info, stack, key>>

Unlock(t) == mu' = None /\ Goto(t, "using")

(* Mutant: without the deferred Unlock.                                    *)
Recheck_KeepsLock(t) ==
  /\ pc[t] = "check" /\ key[t] \in cur
  /\ Goto(t, "using")
  /\ UNCHANGED <<shape, cur, next, info, mu, stack, key>>

(* returns if another thread has published the key in the meantime,        *)
Recheck(t) ==
  /\ pc[t] = "check" /\ key[t] \in cur
  /\ Unlock(t)
  /\ UNCHANGED <<shape, cur, next, info, stack, key>>

(* Mutant: the dummy goes into the published map.                          *)
infoWhileGenerating_InPlace(k, map, frames) ==
  /\ next' = map \cup {k} /\ cur' = next'
  /\ info' = [info EXCEPT ![k] = Dummy]
  /\ stack' = <<[key |-> k, side |-> "decoder", i |-> 1]>> \o frames

(* infoWhileGenerating for a key that is not in the map: a dummy goes into *)
(* the map, and the decoder is made first.                                 *)
infoWhileGenerating(k, map, frames) ==
  /\ next' = map \cup {k} /\ cur' = cur
  /\ info' = [info EXCEPT ![k] = Dummy]
  /\ stack' = <<[key |-> k, side |-> "decoder", i |-> 1]>> \o frames

(* Mutant: the map starts out empty.                                       *)
Generate_NoCopy(t) ==
  /\ pc[t] = "check" /\ key[t] \notin cur
  /\ infoWhileGenerating(key[t], {}, <<>>)
  /\ Goto(t, "generate")
  /\ UNCHANGED <<shape, mu, key>>

(* or copies the published map and starts.                                 *)
Generate(t) ==
  /\ pc[t] = "check" /\ key[t] \notin cur
  /\ infoWhileGenerating(key[t], cur, <<>>)
  /\ Goto(t, "generate")
  /\ UNCHANGED <<shape, mu, key>>

Made(f) == shape[f.key][f.side]

(* makeDecoder or makeWriter looks up the info of a kid.                   *)
Resolve(t) ==
  /\ pc[t] = "generate" /\ stack # <<>>
  /\ LET f == Head(stack)
         frames == <<[f EXCEPT !.i = @ + 1]>> \o Tail(stack)
     IN  /\ f.i <= Len(Made(f).kids)
         /\ IF Made(f).kids[f.i] \in next
            THEN stack' = frames /\ UNCHANGED <<cur, next, info>>
            ELSE infoWhileGenerating(Made(f).kids[f.i], next, frames)
  /\ UNCHANGED <<shape, mu, pc, key>>

(* Mutant: the error of the first field only.                              *)
Fails_FirstKid(f) ==
  \/ ~Made(f).ok
  \/ \E i \in {1} \cap DOMAIN Made(f).kids : info[Made(f).kids[i]][f.side] = "error"

(* A type fails by itself or because of one it is made of.                 *)
Fails(f) ==
  \/ ~Made(f).ok
  \/ \E i \in DOMAIN Made(f).kids : info[Made(f).kids[i]][f.side] = "error"

(* Once all kids are looked up, the decoder or writer is made; the writer  *)
(* follows the decoder.                                                    *)
Make(t) ==
  /\ pc[t] = "generate" /\ stack # <<>>
  /\ LET f == Head(stack)
     IN  /\ f.i > Len(Made(f).kids)
         /\ info' = [info EXCEPT ![f.key][f.side] = IF Fails(f) THEN "error" ELSE "fn"]
         /\ stack' = IF f.side = "decoder"
                     THEN <<[key |-> f.key, side |-> "writer", i |-> 1]>> \o Tail(stack)
                     ELSE Tail(stack)
  /\ UNCHANGED <<shape, cur, next, mu, pc, key>>

(* The new map is published,                                               *)
Publish(t) ==
  /\ pc[t] = "generate" /\ stack = <<>>
  /\ cur' = next /\ next' = {}
  /\ Goto(t, "unlock")
  /\ UNCHANGED <<shape, info, mu, stack, key>>

(* and generate returns.                                                   *)
Return(t) ==
  /\ pc[t] = "unlock"
  /\ Unlock(t)
  /\ UNCHANGED <<shape, cur, next, info, stack, key>>

(* The thread has used the decoder or writer.                              *)
Use(t) ==
  /\ pc[t] = "using"
  /\ Goto(t, "idle")
  /\ key' = [key EXCEPT ![t] = None]
  /\ UNCHANGED <<shape, cur, next, info, mu, stack>>

Step(t) ==
  \/ Lock(t) \/ Recheck(t) \/ Generate(t) \/ Resolve(t) \/ Make(t)
  \/ Publish(t) \/ Return(t) \/ Use(t)

Next == \E t \in Threads : Step(t) \/ \E k \in Roots : Info(t, k)

Spec == Init /\ [][Next]_vars

(* Every goroutine is scheduled; nobody has to ask for a type.             *)
LiveSpec == Spec /\ \A t \in Threads : WF_vars(Step(t))

-----------------------------------------------------------------------------
(* Properties.                                                             *)

Complete(k) == \A side \in Sides : info[k][side] # "none"

KidsOf(k, side) == {shape[k][side].kids[i] : i \in DOMAIN shape[k][side].kids}

(* A goroutine never sees a dummy: what is published is finished, and so   *)
(* is all that its decoder and writer refer to, even while the next map is *)
(* built from the same infos; and what a goroutine has got is published.   *)
PublishedComplete ==
  /\ \A k \in cur : Complete(k) /\ \A side \in Sides : KidsOf(k, side) \subseteq cur
  /\ \A t \in Threads : pc[t] = "using" => key[t] \in cur

(* Infos that are published stay in the map and never change: decoders and *)
(* writers are called without the lock.                                    *)
PublishedForever ==
  [][\A k \in cur : k \in cur' /\ info'[k] = info[k]]_vars

(* The keys that can be reached from k over kids on the given sides: those *)
(* in every set that holds k and the kids of its members.                  *)
Closed(S, sides) == \A j \in S, side \in sides : KidsOf(j, side) \subseteq S

Reach(k, sides) ==
  {j \in Keys : \A S \in SUBSET Keys : k \in S /\ Closed(S, sides) => j \in S}

Unusable(k, side) == \E j \in Reach(k, {side}) : ~shape[j][side].ok

Recursive(k) == \E side \in Sides : \E j \in KidsOf(k, side) : k \in Reach(j, Sides)

(* A recursive type that has no encoding; see PublishedExact.              *)
Broken(k, side) == \E j \in Reach(k, Sides) : Recursive(j) /\ Unusable(j, side)

(* A type has an error only if it is made of one without an encoding, and  *)
(* has one in every such case, unless recursive types without an encoding  *)
(* are involved: for these the answer depends on the order of lookups.     *)
PublishedExact ==
  \A k \in cur, side \in Sides :
    /\ info[k][side] = "error" => Unusable(k, side)
    /\ info[k][side] = "fn" /\ Unusable(k, side) => Broken(k, side)

(* Every request for a type is answered.                                   *)
RequestsReturn == \A t \in Threads : pc[t] # "idle" ~> pc[t] = "idle"
=============================================================================
