-------------------------- MODULE OperationCache --------------------------
(***************************************************************************)
(* load_or_compute (src/runtime/cache.rs): concurrent callers look a       *)
(* result up in a cache that somebody else owns, or compute and store it.  *)
(* The owner evicts entries when it likes; entries may be misplaced,       *)
(* written half, altered on the medium or encoded anew; a caller may die   *)
(* between any two of its steps.                                           *)
(*                                                                         *)
(* SHA-256 is taken as free of collisions, so a digest is modelled by what *)
(* it is taken of.  The result of an operation is named by the input, the  *)
(* options, the set of providers and the type it was computed for.         *)
(***************************************************************************)
EXTENDS Naturals, SequencesExt

CONSTANTS
  Callers,   \* concurrent callers
  Requests,  \* operations they may ask for
  MaxCalls,  \* bound: calls of one caller
  MaxDamage  \* bound: entries damaged

ASSUME OperationCacheAssumption ==
  /\ \A r \in Requests : r.providers \in Seq(Nat)
  /\ MaxCalls \in Nat /\ MaxDamage \in Nat

VARIABLES
  store,   \* the owner's entries, by key digest
  pc,      \* where each caller is in its call
  key,     \* the key of the call
  value,   \* its value and the entry it belongs to, in a sequence of at most one
  result,  \* what the call returned
  (* History only: nothing below is read by an action but for its bounds.  *)
  calls,   \* calls begun by each caller
  damaged, \* entries damaged so far
  got,     \* the entry the owner answered with, in a sequence of at most one
  stored   \* entries ever handed to the owner

call == <<pc, key, value, result>>
history == <<calls, damaged, got, stored>>
vars == <<store, call, history>>

Outcomes == {"miss_stored", "hit_validated"}
Errors == {"validation", "cache", "compute", "died"}

-----------------------------------------------------------------------------
(* Keys.                                                                   *)

(* Provider digests are sorted and unique: the order they were given in    *)
(* does not matter.                                                        *)
Canonical(providers) == SetToSortSeq(ToSet(providers), <)

Material(k) == [input |-> k.input, options |-> k.options, providers |-> k.providers]

(* Fault: the options are left out of what is hashed.                      *)
ExpectedDigestOfInput(k) == [input |-> k.input, providers |-> k.providers]

ExpectedDigest(k) == Material(k)

(* CacheKey::new; the type is the caller's T and no part of the key.       *)
KeyFor(r) ==
  LET k == [input |-> r.input, options |-> r.options, providers |-> Canonical(r.providers)]
  IN  k @@ [type |-> r.type, digest |-> ExpectedDigest(k)]

(* A key read back from somewhere, its options edited.                     *)
Edited(k, options) == [k EXCEPT !.options = options]

KeyValid(k) ==
  /\ \A i \in 1..(Len(k.providers) - 1) : k.providers[i] < k.providers[i + 1]
  /\ k.digest = ExpectedDigest(k)

(* What computing the operation of k yields.                               *)
ResultOf(k) == [of |-> Material(k), type |-> k.type]

-----------------------------------------------------------------------------
(* Entries.                                                                *)

(* Output bytes are a value in an encoding; torn bytes are no JSON.        *)
Bytes(v, encoding) == [value |-> v, encoding |-> encoding]

(* CacheEntry::from_value                                                  *)
EntryFor(k, v) ==
  [schema |-> "v1", key_digest |-> k.digest,
   output_sha256 |-> Bytes(v, "canonical"), output |-> Bytes(v, "canonical")]

(* CacheEntry::decode succeeds.                                            *)
Decodes(e, k) ==
  /\ KeyValid(k)
  /\ e.schema = "v1" /\ e.key_digest = k.digest
  /\ e.output_sha256 = e.output
  /\ e.output.encoding = "canonical"
  /\ e.output.value.type = k.type

Record(k, e, outcome) ==
  [outcome |-> outcome, key_digest |-> k.digest, output_sha256 |-> e.output_sha256,
   value |-> e.output.value]

Failure(error) == [outcome |-> error]

NoKey == [digest |-> "none"]
NoResult == Failure("none")

-----------------------------------------------------------------------------
Init ==
  /\ store = <<>>
  /\ pc = [c \in Callers |-> "idle"]
  /\ key = [c \in Callers |-> NoKey]
  /\ value = [c \in Callers |-> <<>>]
  /\ result = [c \in Callers |-> NoResult]
  /\ calls = [c \in Callers |-> 0]
  /\ damaged = 0
  /\ got = [c \in Callers |-> <<>>]
  /\ stored = {}

(* The entries once the owner keeps e under d.                             *)
With(d, e) == [x \in DOMAIN store \cup {d} |-> IF x = d THEN e ELSE store[x]]

(* The call of c ends.                                                     *)
Returns(c, r) ==
  /\ pc' = [pc EXCEPT ![c] = "idle"]
  /\ result' = [result EXCEPT ![c] = r]
  /\ value' = [value EXCEPT ![c] = <<>>]
  /\ UNCHANGED key

Goto(c, to) == pc' = [pc EXCEPT ![c] = to]

(* The key is validated before the cache is asked.                         *)
Call(c, k) ==
  /\ pc[c] = "idle" /\ calls[c] < MaxCalls
  /\ key' = [key EXCEPT ![c] = k]
  /\ IF KeyValid(k)
     THEN Goto(c, "get") /\ result' = [result EXCEPT ![c] = NoResult]
     ELSE result' = [result EXCEPT ![c] = Failure("validation")] /\ UNCHANGED pc
  /\ calls' = [calls EXCEPT ![c] = calls[c] + 1]
  /\ got' = [got EXCEPT ![c] = <<>>]
  /\ UNCHANGED <<store, value, damaged, stored>>

GetFails(c) ==
  /\ pc[c] = "get"
  /\ Returns(c, Failure("cache"))
  /\ UNCHANGED <<store, history>>

GetMisses(c) ==
  /\ pc[c] = "get" /\ key[c].digest \notin DOMAIN store
  /\ Goto(c, "compute")
  /\ UNCHANGED <<store, key, value, result, history>>

(* Fault: an entry that does not decode is a miss.                         *)
AnswerOrCompute(c, e) ==
  IF Decodes(e, key[c]) THEN Returns(c, Record(key[c], e, "hit_validated"))
  ELSE Goto(c, "compute") /\ UNCHANGED <<key, value, result>>

Answer(c, e) ==
  Returns(c, IF Decodes(e, key[c]) THEN Record(key[c], e, "hit_validated")
             ELSE Failure("validation"))

GetHits(c) ==
  /\ pc[c] = "get" /\ key[c].digest \in DOMAIN store
  /\ got' = [got EXCEPT ![c] = <<store[key[c].digest]>>]
  /\ Answer(c, store[key[c].digest])
  /\ UNCHANGED <<store, calls, damaged, stored>>

(* The computation fails, or its result cannot be made into an entry.      *)
ComputeFails(c) ==
  /\ pc[c] = "compute"
  /\ \E error \in {"compute", "validation"} : Returns(c, Failure(error))
  /\ UNCHANGED <<store, history>>

Compute(c) ==
  /\ pc[c] = "compute"
  /\ value' = [value EXCEPT ![c] = <<EntryFor(key[c], ResultOf(key[c]))>>]
  /\ Goto(c, "put")
  /\ UNCHANGED <<store, key, result, history>>

(* The owner may have kept the entry although it answers with an error.    *)
PutFails(c) ==
  /\ pc[c] = "put"
  /\ \/ UNCHANGED <<store, stored>>
     \/ /\ store' = With(key[c].digest, value[c][1])
        /\ stored' = stored \cup {value[c][1]}
  /\ Returns(c, Failure("cache"))
  /\ UNCHANGED <<calls, damaged, got>>

(* Fault: the reuse record is a validated hit's.                           *)
PutAsHit(c) ==
  /\ pc[c] = "put"
  /\ store' = With(key[c].digest, value[c][1])
  /\ Returns(c, Record(key[c], value[c][1], "hit_validated"))
  /\ stored' = stored \cup {value[c][1]}
  /\ UNCHANGED <<calls, damaged, got>>

Put(c) ==
  /\ pc[c] = "put"
  /\ store' = With(key[c].digest, value[c][1])
  /\ Returns(c, Record(key[c], value[c][1], "miss_stored"))
  /\ stored' = stored \cup {value[c][1]}
  /\ UNCHANGED <<calls, damaged, got>>

(* The caller's process ends in the middle of a call.                      *)
Die(c) ==
  /\ pc[c] # "idle"
  /\ Returns(c, Failure("died"))
  /\ UNCHANGED <<store, history>>

-----------------------------------------------------------------------------
(* The owner, and what happens to what it keeps.                           *)

Evict(d) ==
  /\ d \in DOMAIN store
  /\ store' = Restrict(store, DOMAIN store \ {d})
  /\ UNCHANGED <<call, history>>

Replace(d, e) ==
  /\ damaged < MaxDamage
  /\ store' = With(d, e)
  /\ damaged' = damaged + 1
  /\ UNCHANGED <<call, calls, got, stored>>

(* An entry is answered for another digest, is the half of a write or of   *)
(* another version, has its bytes altered, or is encoded anew by an owner  *)
(* that keeps JSON rather than bytes, with or without its digest.          *)
Damage(d) ==
  /\ d \in DOMAIN store
  /\ LET e == store[d] IN
     \/ \E f \in DOMAIN store \ {d} : Replace(f, e)
     \/ Replace(d, [e EXCEPT !.output.encoding = "torn"])
     \/ Replace(d, [e EXCEPT !.schema = "v0"])
     \/ \E s \in stored : Replace(d, [e EXCEPT !.output = s.output])
     \/ Replace(d, [e EXCEPT !.output.encoding = "other"])
     \/ Replace(d, [e EXCEPT !.output.encoding = "other", !.output_sha256.encoding = "other"])

Keys == {KeyFor(r) : r \in Requests}

EditedKeys == {Edited(k, l.options) : k, l \in Keys}

Next ==
  \/ \E c \in Callers :
       \/ \E k \in Keys \cup EditedKeys : Call(c, k)
       \/ GetFails(c) \/ GetMisses(c) \/ GetHits(c)
       \/ ComputeFails(c) \/ Compute(c)
       \/ PutFails(c) \/ Put(c) \/ Die(c)
  \/ \E d \in DOMAIN store : Evict(d) \/ Damage(d)

Spec == Init /\ [][Next]_vars

-----------------------------------------------------------------------------
(* Whatever callers race, die or edit, and however entries are damaged, a  *)
(* value that is returned is the result of the operation asked for, as the *)
(* type asked for.                                                         *)
ServedIsResult ==
  \A c \in Callers :
    result[c].outcome \in Outcomes => result[c].value = ResultOf(key[c])

(* The reuse record is proof of what happened: it names the key and the    *)
(* canonical bytes of the value, a hit was handed to the owner before by   *)
(* some caller, and a miss was not answered.                               *)
RecordIsProof ==
  \A c \in Callers :
    result[c].outcome \in Outcomes =>
      /\ result[c].key_digest = key[c].digest
      /\ result[c].output_sha256 = Bytes(result[c].value, "canonical")
      /\ \E e \in stored : e.output = result[c].output_sha256 /\ e.key_digest = key[c].digest
      /\ result[c].outcome = "hit_validated" <=> got[c] # <<>>

(* An entry that is not what was stored for the key is reported, and never *)
(* becomes a computation: the promise of docs/runtime-observability-cache- *)
(* parallelism.md.                                                         *)
DamageIsReported ==
  \A c \in Callers :
    /\ got[c] # <<>>
    /\ got[c][1] \notin {e \in stored : e.key_digest = key[c].digest}
    => pc[c] = "idle" /\ result[c].outcome = "validation"
============================================================================
