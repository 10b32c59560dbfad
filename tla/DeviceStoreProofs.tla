-------------------------- MODULE DeviceStoreProofs --------------------------
(***************************************************************************)
(* Proofs about the device store, for any number of programs, Gateways and *)
(* identities.                                                             *)
(***************************************************************************)
EXTENDS DeviceStore, TLAPS

(***************************************************************************)
(* Types                                                                   *)
(***************************************************************************)

\* Past looking, a program has an identity in memory.
HasKey == \A p \in Proc : pc[p] \notin {"idle", "looking"} => key[p] \in Key

\* And while connecting, a Gateway.
Connecting == \A p \in Proc : pc[p] # "idle" => gw[p] \in Gateway

StoreInv == StoreTypeOK /\ HasKey /\ Connecting

LEMMA InitTypes == StoreInit => StoreInv
  BY StoreAssumption
     DEF StoreInit, StoreInv, StoreTypeOK, HasKey, Connecting, Where

LEMMA StepTypes ==
  ASSUME StoreInv, [StoreNext]_storeVars
  PROVE  StoreInv'
<1> USE StoreAssumption
    DEF StoreInv, StoreTypeOK, HasKey, Connecting, Where, files, memory,
        history
<1>1. CASE ClearToken
  BY <1>1 DEF ClearToken
<1>2. ASSUME NEW p \in Proc, NEW g \in Gateway, Begin(p, g)
      PROVE  StoreInv'
  BY <1>2 DEF Begin, Goes
<1>3. ASSUME NEW p \in Proc, FindIdentity(p)
      PROVE  StoreInv'
  BY <1>3 DEF FindIdentity, Goes
<1>4. ASSUME NEW p \in Proc, MakeIdentity(p)
      PROVE  StoreInv'
  <2>1. disputed' \in BOOLEAN
    BY <1>4, Zenon DEF MakeIdentity
  <2>2. QED
    BY <1>4, <2>1 DEF MakeIdentity, Goes
<1>5. ASSUME NEW p \in Proc, OpenIdentity(p)
      PROVE  StoreInv'
  BY <1>5 DEF OpenIdentity, Goes
<1>6. ASSUME NEW p \in Proc, WriteIdentity(p)
      PROVE  StoreInv'
  BY <1>6 DEF WriteIdentity, Goes
<1>7. ASSUME NEW p \in Proc, LoadToken(p)
      PROVE  StoreInv'
  BY <1>7 DEF LoadToken, Goes
<1>8. ASSUME NEW p \in Proc, Hello(p)
      PROVE  StoreInv'
  BY <1>8 DEF Hello, Goes
<1>9. ASSUME NEW p \in Proc, OpenToken(p)
      PROVE  StoreInv'
  BY <1>9 DEF OpenToken, Goes
<1>10. ASSUME NEW p \in Proc, WriteToken(p)
       PROVE  StoreInv'
  <2>1. key[p] \in Key /\ gw[p] \in Gateway
    BY <1>10 DEF WriteToken, Goes
  <2>2. tokenFile' \in Token \cup {NoToken}
    BY <1>10, <2>1 DEF WriteToken, Issued, Token
  <2>3. QED
    BY <1>10, <2>2 DEF WriteToken, Goes, Forgets
<1>11. ASSUME NEW p \in Proc, Stop(p)
       PROVE  StoreInv'
  BY <1>11 DEF Stop, Forgets
<1>12. CASE UNCHANGED storeVars
  BY <1>12 DEF storeVars
<1>13. QED
  BY <1>1, <1>2, <1>3, <1>4, <1>5, <1>6, <1>7, <1>8, <1>9, <1>10, <1>11,
     <1>12 DEF StoreNext

LEMMA AlwaysTyped == StoreSpec => []StoreInv
  BY InitTypes, StepTypes, PTL DEF StoreSpec

\* Files, programs and what they hold keep their types, through kills at any
\* step: a token goes with every connect request.
THEOREM StoreTypeCorrect == StoreSpec => []StoreTypeOK
<1>1. StoreInv => StoreTypeOK
  BY DEF StoreInv
<1>2. QED
  BY <1>1, AlwaysTyped, PTL

(***************************************************************************)
(* One identity for good: the store implements IdentityOnce                *)
(***************************************************************************)

LEMMA OnceStarts == StoreInit => Once!OnceInit
  BY DEF StoreInit, Once!OnceInit, Settled, Makers

\* A step that leaves the makers alone and the file whole.
LEMMA MakersSame ==
  ASSUME StoreInv, idFile' = idFile, Makers' = Makers
  PROVE  Settled' = Settled
  BY DEF Settled

\* A maker's steps are taken while nothing is settled.
LEMMA MakerMoves ==
  ASSUME StoreInv, StoreInv', Makers # {}
  PROVE  Settled' = Settled \/ Once!OnceNext
<1>1. Settled = NoKey
  BY DEF Settled
<1>2. Settled' \in Key \cup {NoKey}
  BY DEF Settled, StoreInv, StoreTypeOK
<1>3. QED
  BY <1>1, <1>2 DEF Once!OnceNext

\* No program but a maker can change what is settled, and a maker only what
\* is not.
LEMMA OnceSteps ==
  ASSUME StoreInv, StoreInv', [StoreNext]_storeVars
  PROVE  [Once!OnceNext]_Settled
<1> SUFFICES Settled' = Settled \/ Once!OnceNext
  OBVIOUS
<1> USE DEF StoreInv, StoreTypeOK, files
<1>1. CASE ClearToken
  <2>1. Makers' = Makers
    BY <1>1 DEF ClearToken, Makers
  <2>2. QED
    BY <1>1, <2>1, MakersSame DEF ClearToken
<1>2. ASSUME NEW p \in Proc, NEW g \in Gateway, Begin(p, g)
      PROVE  Settled' = Settled \/ Once!OnceNext
  <2>1. Makers' = Makers
    BY <1>2 DEF Begin, Goes, Makers
  <2>2. QED
    BY <1>2, <2>1, MakersSame DEF Begin
<1>3. ASSUME NEW p \in Proc, FindIdentity(p)
      PROVE  Settled' = Settled \/ Once!OnceNext
  <2>1. Makers' = Makers
    BY <1>3 DEF FindIdentity, Goes, Makers
  <2>2. QED
    BY <1>3, <2>1, MakersSame DEF FindIdentity
<1>4. ASSUME NEW p \in Proc, MakeIdentity(p)
      PROVE  Settled' = Settled \/ Once!OnceNext
  <2>1. p \in Makers'
    BY <1>4 DEF MakeIdentity, Goes, Makers
  <2>2. Settled = NoKey /\ Settled' = NoKey
    BY <1>4, <2>1 DEF MakeIdentity, Settled
  <2>3. QED
    BY <2>2
<1>5. ASSUME NEW p \in Proc, OpenIdentity(p) \/ WriteIdentity(p)
      PROVE  Settled' = Settled \/ Once!OnceNext
  <2>1. p \in Makers
    BY <1>5 DEF OpenIdentity, WriteIdentity, Goes, Makers
  <2>2. QED
    BY <2>1, MakerMoves
<1>6. ASSUME NEW p \in Proc,
             LoadToken(p) \/ Hello(p) \/ OpenToken(p) \/ WriteToken(p)
      PROVE  Settled' = Settled \/ Once!OnceNext
  <2>1. Makers' = Makers
    BY <1>6 DEF LoadToken, Hello, OpenToken, WriteToken, Goes, Makers
  <2>2. idFile' = idFile
    BY <1>6 DEF LoadToken, Hello, OpenToken, WriteToken
  <2>3. QED
    BY <2>1, <2>2, MakersSame
<1>7. ASSUME NEW p \in Proc, Stop(p)
      PROVE  Settled' = Settled \/ Once!OnceNext
  <2>1. CASE p \in Makers
    BY <2>1, MakerMoves
  <2>2. CASE p \notin Makers
    <3>1. Makers' = Makers
      BY <1>7, <2>2 DEF Stop, Makers
    <3>2. QED
      BY <1>7, <3>1, MakersSame DEF Stop
  <2>3. QED
    BY <2>1, <2>2
<1>8. CASE UNCHANGED storeVars
  <2>1. Makers' = Makers
    BY <1>8 DEF storeVars, Makers
  <2>2. QED
    BY <1>8, <2>1, MakersSame DEF storeVars
<1>9. QED
  BY <1>1, <1>2, <1>3, <1>4, <1>5, <1>6, <1>7, <1>8 DEF StoreNext

\* Once an identity is settled no program ever changes or loses it, however
\* many start together, are killed between truncating and writing, or clear
\* the token.
THEOREM IdentityIsForGoodAlways == StoreSpec => IdentityIsForGood
<1>1. StoreInit => Once!OnceInit
  BY OnceStarts
<1>2. StoreInv /\ StoreInv' /\ [StoreNext]_storeVars
      => [Once!OnceNext]_Settled
  BY OnceSteps
<1>3. QED
  BY <1>1, <1>2, AlwaysTyped, PTL
  DEF StoreSpec, IdentityIsForGood, Once!OnceSpec

(***************************************************************************)
(* What is shown to Gateways is what is on disk                            *)
(***************************************************************************)

Holds(p) == pc[p] \in {"known", "asked", "granted", "savingToken"}

\* While nothing is disputed, a maker is alone and before an empty file, and
\* everything issued or held is of the identity in the file.
Undisputed ==
  disputed \/ /\ \A p, q \in Makers : p = q
              /\ Makers # {} => idFile = NoKey
              /\ \A p \in Proc : Holds(p) => key[p] = idFile
              /\ tokenFile # NoToken => tokenFile.key = idFile

LEMMA InitUndisputed == StoreInit => Undisputed
  BY DEF StoreInit, Undisputed, Makers, Holds

\* Whatever touches neither identities nor the programs that make them.
LEMMA TokenStep ==
  ASSUME StoreInv, Undisputed, NEW p \in Proc,
         \/ ClearToken
         \/ \E g \in Gateway : Begin(p, g)
         \/ FindIdentity(p) \/ LoadToken(p) \/ Hello(p) \/ OpenToken(p)
         \/ WriteToken(p)
  PROVE  Undisputed'
<1> USE StoreAssumption DEF StoreInv, StoreTypeOK, files, memory, history
<1>1. Makers' = Makers
  BY DEF ClearToken, Begin, FindIdentity, LoadToken, Hello, OpenToken,
         WriteToken, Goes, Makers
<1>2. idFile' = idFile /\ disputed' = disputed
  BY DEF ClearToken, Begin, FindIdentity, LoadToken, Hello, OpenToken,
         WriteToken
<1>3. SUFFICES ASSUME ~disputed
               PROVE  Undisputed'
  BY <1>2 DEF Undisputed
<1>4. \A q \in Proc : Holds(q)' => key'[q] = idFile
  <2>1. CASE FindIdentity(p)
    BY <1>3, <2>1 DEF FindIdentity, Goes, Holds, Undisputed
  <2>2. CASE WriteToken(p)
    BY <1>3, <2>2 DEF WriteToken, Forgets, Goes, Holds, Undisputed
  <2>3. CASE \E g \in Gateway : Begin(p, g)
    BY <1>3, <2>3 DEF Begin, Goes, Holds, Undisputed
  <2>4. CASE ClearToken \/ LoadToken(p) \/ Hello(p) \/ OpenToken(p)
    BY <1>3, <2>4
    DEF ClearToken, LoadToken, Hello, OpenToken, Goes, Holds, Undisputed
  <2>5. QED
    BY <2>1, <2>2, <2>3, <2>4
<1>5. tokenFile' # NoToken => tokenFile'.key = idFile
  <2>1. CASE WriteToken(p)
    <3>1. key[p] = idFile
      BY <1>3, <2>1 DEF WriteToken, Goes, Holds, Undisputed
    <3>2. CASE tokenFile' = Issued(p)
      BY <3>1, <3>2 DEF Issued
    <3>3. CASE tokenFile' = tokenFile
      BY <1>3, <3>3 DEF Undisputed
    <3>4. QED
      BY <2>1, <3>2, <3>3 DEF WriteToken
  <2>2. CASE ~ WriteToken(p)
    <3>1. tokenFile' = tokenFile \/ tokenFile' = NoToken
      BY <2>2 DEF ClearToken, Begin, FindIdentity, LoadToken, Hello,
                  OpenToken
    <3>2. QED
      BY <1>3, <3>1 DEF Undisputed
  <2>3. QED
    BY <2>1, <2>2
<1>6. QED
  BY <1>1, <1>2, <1>3, <1>4, <1>5 DEF Undisputed

\* A program takes up making one: the file is empty, so that nobody holds an
\* identity and no token is there.
LEMMA MakeStep ==
  ASSUME StoreInv, Undisputed, NEW p \in Proc, MakeIdentity(p)
  PROVE  Undisputed'
<1> USE StoreAssumption DEF StoreInv, StoreTypeOK, files, history
<1>1. SUFFICES ASSUME ~disputed'
               PROVE  Undisputed'
  BY DEF Undisputed
<1>2. ~disputed /\ Makers = {}
  BY <1>1 DEF MakeIdentity
<1>3. Makers' = {p}
  BY <1>2 DEF MakeIdentity, Goes, Makers
<1>4. idFile' = idFile /\ idFile = NoKey /\ tokenFile' = tokenFile
  BY DEF MakeIdentity
<1>5. \A q \in Proc : Holds(q)' => key'[q] = idFile
  BY <1>2 DEF MakeIdentity, Goes, Holds, Undisputed
<1>6. QED
  BY <1>2, <1>3, <1>4, <1>5 DEF Undisputed

\* It saves the identity, alone.
LEMMA SaveStep ==
  ASSUME StoreInv, Undisputed, NEW p \in Proc,
         OpenIdentity(p) \/ WriteIdentity(p)
  PROVE  Undisputed'
<1> USE StoreAssumption
    DEF StoreInv, StoreTypeOK, HasKey, files, memory, history
<1>1. SUFFICES ASSUME ~disputed'
               PROVE  Undisputed'
  BY DEF Undisputed
<1>2. ~disputed
  BY <1>1 DEF OpenIdentity, WriteIdentity
<1>3. Makers = {p} /\ idFile = NoKey
  BY <1>2 DEF OpenIdentity, WriteIdentity, Goes, Makers, Undisputed
<1>4. \A q \in Proc : ~ Holds(q)
  BY <1>2, <1>3 DEF Holds, Undisputed
<1>5. tokenFile = NoToken /\ tokenFile' = tokenFile
  BY <1>2, <1>3 DEF OpenIdentity, WriteIdentity, Undisputed, Token
<1>6. CASE OpenIdentity(p)
  <2>1. Makers' = Makers
    BY <1>6 DEF OpenIdentity, Goes, Makers
  <2>2. \A q \in Proc : ~ Holds(q)'
    BY <1>4, <1>6 DEF OpenIdentity, Goes, Holds
  <2>3. QED
    BY <1>3, <1>5, <1>6, <2>1, <2>2 DEF OpenIdentity, Undisputed
<1>7. CASE WriteIdentity(p)
  <2>1. Makers' = {}
    BY <1>3, <1>7 DEF WriteIdentity, Goes, Makers
  <2>2. idFile' = key[p] /\ key' = key
    BY <1>1, <1>7 DEF WriteIdentity
  <2>3. \A q \in Proc : Holds(q)' => q = p
    BY <1>4, <1>7 DEF WriteIdentity, Goes, Holds
  <2>4. QED
    BY <1>5, <2>1, <2>2, <2>3 DEF Undisputed
<1>8. QED
  BY <1>6, <1>7

\* A program that ends is one maker or holder less.
LEMMA StopStep ==
  ASSUME StoreInv, Undisputed, NEW p \in Proc, Stop(p)
  PROVE  Undisputed'
<1> USE DEF StoreInv, StoreTypeOK, files, history
<1>1. Makers' \subseteq Makers
  BY DEF Stop, Makers
<1>2. \A q \in Proc : Holds(q)' => Holds(q) /\ key'[q] = key[q]
  BY DEF Stop, Forgets, Holds
<1>3. QED
  BY <1>1, <1>2 DEF Stop, Undisputed

LEMMA StepUndisputed ==
  ASSUME StoreInv, Undisputed, [StoreNext]_storeVars
  PROVE  Undisputed'
<1>1. CASE UNCHANGED storeVars
  BY <1>1 DEF storeVars, files, memory, history, Undisputed, Makers, Holds
<1>2. CASE ClearToken
  <2>1. CASE Proc = {}
    BY <1>2, <2>1
    DEF ClearToken, memory, history, Undisputed, Makers, Holds
  <2>2. CASE Proc # {}
    BY <1>2, <2>2, TokenStep
  <2>3. QED
    BY <2>1, <2>2
<1>3. ASSUME NEW p \in Proc,
             \/ \E g \in Gateway : Begin(p, g)
             \/ FindIdentity(p) \/ MakeIdentity(p)
             \/ OpenIdentity(p) \/ WriteIdentity(p)
             \/ LoadToken(p) \/ Hello(p) \/ OpenToken(p) \/ WriteToken(p)
             \/ Stop(p)
      PROVE  Undisputed'
  BY <1>3, TokenStep, MakeStep, SaveStep, StopStep
<1>4. QED
  BY <1>1, <1>2, <1>3 DEF StoreNext

LEMMA AlwaysUndisputed == StoreSpec => [](StoreInv /\ Undisputed)
  BY InitTypes, StepTypes, InitUndisputed, StepUndisputed, PTL
  DEF StoreSpec

\* The identity a Gateway is shown is the one the next start will show.
THEOREM PresentedIsStoredAlways == StoreSpec => []PresentedIsStored
<1>1. Undisputed => PresentedIsStored
  BY DEF Undisputed, PresentedIsStored, Presents, Holds
<1>2. QED
  BY <1>1, AlwaysUndisputed, PTL

\* The device token on disk was issued to the identity on disk.
THEOREM StoredTokenIsOursAlways == StoreSpec => []StoredTokenIsOurs
<1>1. Undisputed => StoredTokenIsOurs
  BY DEF Undisputed, StoredTokenIsOurs
<1>2. QED
  BY <1>1, AlwaysUndisputed, PTL
=============================================================================
