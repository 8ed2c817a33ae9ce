----------------------- MODULE OperationCacheProofs -----------------------
(***************************************************************************)
(* The cache serves nothing but results of the operation asked for, its    *)
(* records are true and damage is told of, for any callers and requests,   *)
(* and however often entries are damaged.                                  *)
(*                                                                         *)
(* The invariant: whatever happens to an entry, the digest of its output   *)
(* stays that of a result of the operation its key digest names, and one   *)
(* that is still of canonical bytes is the digest of what some caller      *)
(* stored for that key.  Damage changes an entry's place, its bytes or its *)
(* encoding, and an entry whose bytes no longer fit its digests does not   *)
(* decode; one that decodes is therefore what was stored.                  *)
(***************************************************************************)
EXTENDS OperationCache, TLAPS

KeySet == Keys \cup EditedKeys

Values == [of : {k.digest : k \in KeySet}, type : {k.type : k \in KeySet}]

Outputs == [value : Values, encoding : {"canonical", "torn", "other"}]

Entries ==
  [schema : {"v0", "v1"}, key_digest : {k.digest : k \in KeySet},
   output_sha256 : Outputs, output : Outputs]

Sound(e) == e \in Entries /\ e.output_sha256.value.of = e.key_digest

(* An entry as it is built.                                                *)
Whole(e) ==
  /\ e.schema = "v1" /\ e.output_sha256 = e.output
  /\ e.output.encoding = "canonical"

(* The digests of an entry are those of one that some caller stored.       *)
Stems(e, S) ==
  e.output_sha256.encoding = "canonical" =>
    \E s \in S : s.key_digest = e.key_digest /\ s.output = e.output_sha256

StoreInv ==
  /\ \A d \in DOMAIN store : Sound(store[d]) /\ Stems(store[d], stored)
  /\ \A e \in stored : Sound(e) /\ Whole(e)

CallInv ==
  /\ pc \in [Callers -> {"idle", "get", "compute", "put"}]
  /\ key \in [Callers -> KeySet \cup {NoKey}]
  /\ DOMAIN value = Callers /\ DOMAIN result = Callers /\ DOMAIN got = Callers
  /\ \A c \in Callers :
       /\ pc[c] # "idle" => key[c] \in KeySet /\ KeyValid(key[c]) /\ got[c] = <<>>
       /\ pc[c] = "put" => value[c] = <<EntryFor(key[c], ResultOf(key[c]))>>

Inv == StoreInv /\ CallInv /\ ServedIsResult /\ RecordIsProof /\ DamageIsReported

(* An entry built for a valid key is sound and whole.                      *)
LEMMA BuiltIsSound ==
  ASSUME NEW k \in KeySet, KeyValid(k)
  PROVE  LET e == EntryFor(k, ResultOf(k))
         IN  /\ Sound(e) /\ Whole(e) /\ e.key_digest = k.digest
             /\ e.output = Bytes(ResultOf(k), "canonical")
<1> DEFINE e == EntryFor(k, ResultOf(k))
<1>1. k.digest = Material(k)
  BY DEF KeyValid, ExpectedDigest
<1>2. ResultOf(k) \in Values
  BY <1>1 DEF ResultOf, Values
<1>3. Bytes(ResultOf(k), "canonical") \in Outputs
  BY <1>2 DEF Bytes, Outputs
<1>4. e \in Entries
  BY <1>3 DEF EntryFor, Entries
<1>5. e.output_sha256.value.of = Material(k)
  BY DEF EntryFor, Bytes, ResultOf
<1>6. Whole(e) /\ e.key_digest = k.digest /\ e.output = Bytes(ResultOf(k), "canonical")
  BY DEF EntryFor, Whole, Bytes
<1> QED BY <1>1, <1>4, <1>5, <1>6 DEF Sound

(* A sound entry that decodes holds the result of the key's operation.     *)
LEMMA DecodedIsResult ==
  ASSUME NEW e, Sound(e), NEW k \in KeySet, Decodes(e, k)
  PROVE  e.output.value = ResultOf(k)
<1>1. e.output.value.of = Material(k) /\ e.output.value.type = k.type
  BY DEF Decodes, KeyValid, ExpectedDigest, Sound
<1>2. e.output.value \in Values
  BY DEF Sound, Entries, Outputs
<1> QED BY <1>1, <1>2 DEF Values, ResultOf

(* One that decodes is an entry that was stored for the key.               *)
LEMMA DecodedWasStored ==
  ASSUME NEW e, Sound(e), NEW S, Stems(e, S), \A s \in S : Sound(s) /\ Whole(s),
         NEW k \in KeySet, Decodes(e, k)
  PROVE  /\ e \in S /\ e.key_digest = k.digest
         /\ e.output_sha256 = Bytes(e.output.value, "canonical")
<1>1. PICK s \in S : s.key_digest = e.key_digest /\ s.output = e.output
  BY DEF Decodes, Stems
<1>2. s \in Entries /\ e \in Entries
  BY DEF Sound
<1>3. s.schema = e.schema /\ s.output_sha256 = e.output_sha256
  BY <1>1 DEF Whole, Decodes
<1>4. s = e
  BY <1>1, <1>2, <1>3 DEF Entries
<1>5. e.output \in Outputs
  BY <1>2 DEF Entries
<1> QED BY <1>4, <1>5 DEF Decodes, Outputs, Bytes

(* Damage leaves a sound entry sound, and its digests what they were or    *)
(* not those of canonical bytes, whatever else it does to it.              *)
LEMMA DamageIsSound ==
  ASSUME NEW e, NEW S, Sound(e), Stems(e, S), NEW s, Sound(s)
  PROVE  \A f \in {[e EXCEPT !.output.encoding = "torn"], [e EXCEPT !.schema = "v0"],
                   [e EXCEPT !.output = s.output], [e EXCEPT !.output.encoding = "other"],
                   [e EXCEPT !.output.encoding = "other", !.output_sha256.encoding = "other"]} :
           Sound(f) /\ Stems(f, S)
<1>1. e.output \in Outputs /\ e.output_sha256 \in Outputs /\ s.output \in Outputs
  BY DEF Sound, Entries
<1>2. \A o \in Outputs, n \in {"torn", "other"} :
        /\ [o EXCEPT !.encoding = n] \in Outputs /\ [o EXCEPT !.encoding = n].value = o.value
        /\ [o EXCEPT !.encoding = n].encoding = n
  BY DEF Outputs
<1>3. \A f \in {[e EXCEPT !.output.encoding = "torn"], [e EXCEPT !.schema = "v0"],
                [e EXCEPT !.output = s.output], [e EXCEPT !.output.encoding = "other"]} :
        Sound(f) /\ f.key_digest = e.key_digest /\ f.output_sha256 = e.output_sha256
  BY <1>1, <1>2 DEF Sound, Entries
<1>4. LET f == [e EXCEPT !.output.encoding = "other", !.output_sha256.encoding = "other"]
      IN  Sound(f) /\ f.output_sha256.encoding = "other"
  BY <1>1, <1>2 DEF Sound, Entries
<1> QED BY <1>3, <1>4 DEF Stems

(* One more entry under some digest keeps a lawful store.                  *)
LEMMA KeepSound ==
  ASSUME StoreInv, NEW d, NEW e, Sound(e), Stems(e, stored'), stored \subseteq stored',
         store' = With(d, e)
  PROVE  \A x \in DOMAIN store' : Sound(store'[x]) /\ Stems(store'[x], stored')
BY DEF StoreInv, With, Stems

LEMMA InitInv == Init => Inv
<1> SUFFICES ASSUME Init PROVE Inv
  OBVIOUS
<1>1. StoreInv
  BY DEF Init, StoreInv
<1>2. CallInv
  BY DEF Init, CallInv
<1>3. ServedIsResult /\ RecordIsProof /\ DamageIsReported
  BY DEF Init, ServedIsResult, RecordIsProof, DamageIsReported, NoResult, Failure, Outcomes
<1> QED BY <1>1, <1>2, <1>3 DEF Inv

(* A call that ends in a failure has nothing to prove; a caller that does  *)
(* not take the step keeps what it has, since nothing leaves stored.       *)
LEMMA FailureIsTrue ==
  ASSUME Inv, NEW c \in Callers, pc[c] # "idle", NEW error \in Errors, Returns(c, Failure(error)),
         UNCHANGED got, stored \subseteq stored'
  PROVE  ServedIsResult' /\ RecordIsProof' /\ DamageIsReported'
<1>1. got[c] = <<>> /\ result'[c].outcome \notin Outcomes
  BY DEF Inv, CallInv, Returns, Failure, Errors, Outcomes
<1>2. \A x \in Callers \ {c} : pc'[x] = pc[x] /\ result'[x] = result[x]
  BY DEF Inv, CallInv, Returns
<1>3. ServedIsResult'
  BY <1>1, <1>2 DEF Inv, Returns, ServedIsResult
<1>4. RecordIsProof'
  BY <1>1, <1>2 DEF Inv, Returns, RecordIsProof
<1>5. DamageIsReported'
  BY <1>1, <1>2 DEF Inv, Returns, DamageIsReported
<1> QED BY <1>3, <1>4, <1>5

(* The steps of a caller.                                                  *)
LEMMA CallerStep ==
  ASSUME Inv, NEW c \in Callers,
         \/ \E k \in Keys \cup EditedKeys : Call(c, k)
         \/ GetFails(c) \/ GetMisses(c) \/ GetHits(c)
         \/ ComputeFails(c) \/ Compute(c)
         \/ PutFails(c) \/ Put(c) \/ Die(c)
  PROVE  Inv'
<1> USE DEF Inv
<1>1. ASSUME NEW k \in KeySet, Call(c, k) PROVE Inv'
  <2>1. StoreInv'
    BY <1>1 DEF Call, StoreInv
  <2>2. CallInv'
    BY <1>1 DEF Call, Goto, CallInv
  <2>3. result'[c].outcome \notin Outcomes /\ got'[c] = <<>>
    BY <1>1 DEF Call, CallInv, NoResult, Failure, Outcomes
  <2>4. \A x \in Callers \ {c} :
          pc'[x] = pc[x] /\ key'[x] = key[x] /\ result'[x] = result[x] /\ got'[x] = got[x]
    BY <1>1 DEF Call, Goto, CallInv
  <2>5. ServedIsResult' /\ RecordIsProof'
    BY <1>1, <2>3, <2>4 DEF Call, ServedIsResult, RecordIsProof
  <2>6. DamageIsReported'
    BY <1>1, <2>3, <2>4 DEF Call, DamageIsReported
  <2> QED BY <2>1, <2>2, <2>5, <2>6
<1>2. ASSUME GetFails(c) \/ ComputeFails(c) \/ Die(c) PROVE Inv'
  <2>1. UNCHANGED <<store, history>> /\ pc[c] # "idle"
    BY <1>2 DEF GetFails, ComputeFails, Die
  <2>2. PICK error \in Errors : Returns(c, Failure(error))
    BY <1>2 DEF GetFails, ComputeFails, Die, Errors
  <2>3. StoreInv'
    BY <2>1 DEF history, StoreInv
  <2>4. CallInv'
    BY <2>1, <2>2 DEF Returns, CallInv, history
  <2> QED BY <2>1, <2>2, <2>3, <2>4, FailureIsTrue DEF history
<1>3. ASSUME GetMisses(c) \/ Compute(c) PROVE Inv'
  <2>1. StoreInv'
    BY <1>3 DEF GetMisses, Compute, history, StoreInv
  <2>2. CallInv'
    BY <1>3 DEF GetMisses, Compute, Goto, CallInv, history
  <2>3. ServedIsResult' /\ RecordIsProof'
    BY <1>3 DEF GetMisses, Compute, ServedIsResult, RecordIsProof, history
  <2>4. got[c] = <<>> /\ \A x \in Callers \ {c} : pc'[x] = pc[x]
    BY <1>3 DEF GetMisses, Compute, Goto, CallInv
  <2>5. DamageIsReported'
    BY <1>3, <2>4 DEF GetMisses, Compute, DamageIsReported, history
  <2> QED BY <2>1, <2>2, <2>3, <2>5
<1>4. ASSUME GetHits(c) PROVE Inv'
  <2> DEFINE e == store[key[c].digest]
  <2>1. key[c] \in KeySet /\ Sound(e) /\ Stems(e, stored) /\ UNCHANGED <<key, stored>>
    BY <1>4 DEF GetHits, Answer, Returns, CallInv, StoreInv
  <2>2. StoreInv'
    BY <1>4 DEF GetHits, StoreInv
  <2>3. CallInv'
    BY <1>4 DEF GetHits, Answer, Returns, CallInv
  <2>4. pc'[c] = "idle" /\ got'[c] = <<e>>
    BY <1>4 DEF GetHits, Answer, Returns, CallInv
  <2>5. \A x \in Callers \ {c} : pc'[x] = pc[x] /\ result'[x] = result[x] /\ got'[x] = got[x]
    BY <1>4 DEF GetHits, Answer, Returns, CallInv
  <2>6. CASE Decodes(e, key[c])
    <3>1. result'[c] = Record(key[c], e, "hit_validated")
      BY <1>4, <2>6 DEF GetHits, Answer, Returns, CallInv
    <3>2. e.output.value = ResultOf(key[c])
      BY <2>1, <2>6, DecodedIsResult
    <3>3. /\ e \in stored /\ e.key_digest = key[c].digest
          /\ e.output_sha256 = Bytes(e.output.value, "canonical")
      BY <2>1, <2>6, DecodedWasStored DEF StoreInv
    <3>4. ServedIsResult'
      BY <2>1, <2>5, <3>1, <3>2 DEF Record, ServedIsResult
    <3>5. e.output = e.output_sha256
      BY <2>6 DEF Decodes
    <3>6. /\ result'[c].key_digest = key[c].digest /\ result'[c].outcome = "hit_validated"
          /\ result'[c].output_sha256 = Bytes(result'[c].value, "canonical")
          /\ e.output = result'[c].output_sha256
      BY <3>1, <3>3, <3>5 DEF Record
    <3>8. RecordIsProof'
      BY <2>1, <2>4, <2>5, <3>3, <3>6 DEF RecordIsProof
    <3>7. DamageIsReported'
      BY <2>1, <2>4, <2>5, <3>3 DEF DamageIsReported
    <3> QED BY <2>2, <2>3, <3>4, <3>7, <3>8
  <2>7. CASE ~ Decodes(e, key[c])
    <3>1. result'[c] = Failure("validation")
      BY <1>4, <2>7 DEF GetHits, Answer, Returns, CallInv
    <3>2. ServedIsResult' /\ RecordIsProof'
      BY <2>1, <2>5, <3>1 DEF Failure, Outcomes, ServedIsResult, RecordIsProof
    <3>3. DamageIsReported'
      BY <2>1, <2>4, <2>5, <3>1 DEF Failure, DamageIsReported
    <3> QED BY <2>2, <2>3, <3>2, <3>3
  <2> QED BY <2>6, <2>7
<1>5. ASSUME PutFails(c) \/ Put(c) PROVE Inv'
  <2> DEFINE e == value[c][1]
  <2>1. e = EntryFor(key[c], ResultOf(key[c])) /\ key[c] \in KeySet /\ KeyValid(key[c]) /\ got[c] = <<>>
    BY <1>5 DEF PutFails, Put, CallInv
  <2>2. /\ Sound(e) /\ Whole(e) /\ e.key_digest = key[c].digest
        /\ e.output = Bytes(ResultOf(key[c]), "canonical")
    BY <2>1, BuiltIsSound
  <2>3. UNCHANGED <<key, got>> /\ stored \subseteq stored'
    BY <1>5 DEF PutFails, Put, Returns
  <2>4. StoreInv'
    <3>1. CASE UNCHANGED <<store, stored>>
      BY <3>1 DEF StoreInv
    <3>2. CASE store' = With(key[c].digest, e) /\ stored' = stored \cup {e}
      <4>1. Stems(e, stored')
        BY <2>2, <3>2 DEF Stems, Whole
      <4>2. \A x \in DOMAIN store' : Sound(store'[x]) /\ Stems(store'[x], stored')
        BY <2>2, <2>3, <3>2, <4>1, KeepSound
      <4> QED BY <2>2, <3>2, <4>2 DEF StoreInv
    <3> QED BY <1>5, <3>1, <3>2 DEF PutFails, Put
  <2>5. CallInv'
    BY <1>5, <2>3 DEF PutFails, Put, Returns, CallInv
  <2>6. CASE PutFails(c)
    <3>1. Returns(c, Failure("cache")) /\ pc[c] # "idle"
      BY <2>6 DEF PutFails
    <3> QED BY <2>3, <2>4, <2>5, <3>1, FailureIsTrue DEF Errors
  <2>7. CASE Put(c)
    <3>1. result'[c] = Record(key[c], e, "miss_stored") /\ e \in stored'
      BY <2>7 DEF Put, Returns, CallInv
    <3>2. \A x \in Callers \ {c} : pc'[x] = pc[x] /\ result'[x] = result[x]
      BY <2>7 DEF Put, Returns, CallInv
    <3>3. e.output.value = ResultOf(key[c]) /\ e.output_sha256 = e.output
      BY <2>2 DEF Whole, Bytes
    <3>4. ServedIsResult'
      BY <2>3, <3>1, <3>2, <3>3 DEF Record, ServedIsResult
    <3>5. RecordIsProof'
      BY <2>1, <2>2, <2>3, <3>1, <3>2, <3>3 DEF Record, RecordIsProof
    <3>6. DamageIsReported'
      BY <2>1, <2>3, <3>2 DEF DamageIsReported
    <3> QED BY <2>4, <2>5, <3>4, <3>5, <3>6
  <2> QED BY <1>5, <2>6, <2>7
<1> QED BY <1>1, <1>2, <1>3, <1>4, <1>5 DEF KeySet

(* The steps of the owner and of the medium.                               *)
LEMMA OwnerStep ==
  ASSUME Inv, NEW d \in DOMAIN store, Evict(d) \/ Damage(d)
  PROVE  Inv'
<1>1. UNCHANGED <<call, got, stored>>
  BY DEF Evict, Damage, Replace, history
<1>2. CallInv' /\ ServedIsResult' /\ RecordIsProof' /\ DamageIsReported'
  BY <1>1 DEF Inv, CallInv, ServedIsResult, RecordIsProof, DamageIsReported, call
<1>3. CASE Evict(d)
  BY <1>1, <1>2, <1>3 DEF Inv, Evict, StoreInv, Restrict
<1>4. CASE Damage(d)
  <2> DEFINE e == store[d]
  <2>1. Sound(e) /\ Stems(e, stored) /\ \A s \in stored : Sound(s)
    BY DEF Inv, StoreInv
  <2>2. PICK f, g : Sound(g) /\ Stems(g, stored) /\ Replace(f, g)
    <3>1. CASE \E f \in DOMAIN store \ {d} : Replace(f, e)
      BY <2>1, <3>1
    <3>2. CASE \E s \in stored : Replace(d, [e EXCEPT !.output = s.output])
      BY <2>1, <3>2, DamageIsSound
    <3>3. CASE \/ Replace(d, [e EXCEPT !.output.encoding = "torn"])
               \/ Replace(d, [e EXCEPT !.schema = "v0"])
               \/ Replace(d, [e EXCEPT !.output.encoding = "other"])
               \/ Replace(d, [e EXCEPT !.output.encoding = "other", !.output_sha256.encoding = "other"])
      BY <2>1, <3>3, DamageIsSound
    <3> QED BY <1>4, <3>1, <3>2, <3>3 DEF Damage
  <2>3. \A x \in DOMAIN store' : Sound(store'[x]) /\ Stems(store'[x], stored')
    BY <1>1, <2>2, KeepSound DEF Replace, Inv
  <2>4. StoreInv'
    BY <1>1, <2>3 DEF Inv, StoreInv
  <2> QED BY <1>2, <2>4 DEF Inv
<1> QED BY <1>3, <1>4

LEMMA Invariance == Spec => []Inv
<1>1. Init => Inv
  BY InitInv
<1>2. Inv /\ [Next]_vars => Inv'
  <2> SUFFICES ASSUME Inv, [Next]_vars PROVE Inv'
    OBVIOUS
  <2>1. CASE Next
    BY <2>1, CallerStep, OwnerStep DEF Next
  <2>2. CASE UNCHANGED vars
    BY <2>2 DEF vars, call, history, Inv, StoreInv, CallInv, ServedIsResult,
                RecordIsProof, DamageIsReported
  <2> QED BY <2>1, <2>2
<1> QED BY <1>1, <1>2, PTL DEF Spec

(* Whatever callers race, die or edit, and however entries are damaged,    *)
(* load_or_compute returns the result of the operation it was asked for.   *)
THEOREM ServedIsResultHolds == Spec => []ServedIsResult
<1>1. Inv => ServedIsResult
  BY DEF Inv
<1> QED BY <1>1, Invariance, PTL

(* A reuse record names the key and the canonical bytes of the value; a    *)
(* hit hands out what some caller stored for that very key, and only what  *)
(* the owner did not answer is called a miss.                              *)
THEOREM RecordProves == Spec => []RecordIsProof
<1>1. Inv => RecordIsProof
  BY DEF Inv
<1> QED BY <1>1, Invariance, PTL

(* An answer of the owner that no caller stored for the key ends the call  *)
(* with a validation error; it is neither served nor computed anew.        *)
THEOREM DamageReported == Spec => []DamageIsReported
<1>1. Inv => DamageIsReported
  BY DEF Inv
<1> QED BY <1>1, Invariance, PTL
============================================================================
