----------------------------- MODULE DeviceStore -----------------------------
(***************************************************************************)
(* The device store of the C++ core (device_identity.cpp): the identity    *)
(* file and the token file, shared by every program of the user that uses  *)
(* the core, and what connect() and the command line do with them.         *)
(*                                                                         *)
(* There is no lock.  secure_write() truncates a file when it opens it and *)
(* writes the text, which fits its buffer, when it closes it; a reader in  *)
(* between, or after a kill in between, finds nothing, as it does where    *)
(* there is no file.  A program may end, or be killed, at any step.        *)
(***************************************************************************)
EXTENDS Naturals

CONSTANTS Proc,        \* programs of one user
          Gateway,     \* Gateways the user connects to
          Key,         \* identities that may be generated
          NoKey,       \* nothing to be read in the identity file
          NoToken,     \* nothing to be read in the token file
          Bootstrap,   \* the token of the environment
          NoGateway

\* A device token is good for the Gateway that issued it and the identity it
\* was issued to.
Token == [gateway : Gateway, key : Key]

ASSUME StoreAssumption ==
  /\ NoKey \notin Key
  /\ NoToken \notin Token
  /\ Bootstrap \notin Token \cup {NoToken}
  /\ NoGateway \notin Gateway

VARIABLES
  idFile, tokenFile,  \* what readall() would find in them
  pc,          \* where each program is in connect()
  gw,          \* the Gateway it connects to
  key, sent,   \* its d and token
  unlinked,    \* programs whose open token file has been removed meanwhile
  \* history of the execution, read by properties only
  generated,
  disputed     \* two made identities at once, or one could not be written

files == <<idFile, tokenFile>>
memory == <<gw, key, sent>>
history == <<generated, disputed>>
storeVars == <<files, pc, memory, unlinked, history>>

Where == {"idle", "looking", "making", "savingIdentity", "known", "asked",
          "granted", "savingToken"}

\* Programs that found no identity and have not saved theirs yet.
Makers == {p \in Proc : pc[p] \in {"making", "savingIdentity"}}

StoreInit ==
  /\ idFile = NoKey
  /\ tokenFile = NoToken
  /\ pc = [p \in Proc |-> "idle"]
  /\ gw = [p \in Proc |-> NoGateway]
  /\ key = [p \in Proc |-> NoKey]
  /\ sent = [p \in Proc |-> Bootstrap]
  /\ unlinked = {}
  /\ generated = {}
  /\ disputed = FALSE

Goes(p, from, to) == pc[p] = from /\ pc' = [pc EXCEPT ![p] = to]

Forgets(p) ==
  /\ gw' = [gw EXCEPT ![p] = NoGateway]
  /\ key' = [key EXCEPT ![p] = NoKey]
  /\ sent' = [sent EXCEPT ![p] = Bootstrap]
  /\ unlinked' = unlinked \ {p}

\* A challenge has come; `identity' goes as far as "known".
Begin(p, g) ==
  /\ Goes(p, "idle", "looking")
  /\ gw' = [gw EXCEPT ![p] = g]
  /\ UNCHANGED <<files, key, sent, unlinked, history>>

(***************************************************************************)
(* load_or_create_identity()                                               *)
(***************************************************************************)

FindIdentity(p) ==
  /\ idFile # NoKey
  /\ Goes(p, "looking", "known")
  /\ key' = [key EXCEPT ![p] = idFile]
  /\ UNCHANGED <<files, gw, sent, unlinked, history>>

\* Bound: identities still to be generated.
MakeAnyway(p) ==  \* mutant: the file is not asked
  /\ Goes(p, "looking", "making")
  /\ \E k \in Key \ generated :
       /\ key' = [key EXCEPT ![p] = k]
       /\ generated' = generated \cup {k}
  /\ disputed' = (disputed \/ Makers # {})
  /\ UNCHANGED <<files, gw, sent, unlinked>>
MakeIdentity(p) ==
  /\ idFile = NoKey
  /\ Goes(p, "looking", "making")
  /\ \E k \in Key \ generated :
       /\ key' = [key EXCEPT ![p] = k]
       /\ generated' = generated \cup {k}
  /\ disputed' = (disputed \/ Makers # {})
  /\ UNCHANGED <<files, gw, sent, unlinked>>

\* secure_write()
OpenIdentity(p) ==
  /\ Goes(p, "making", "savingIdentity")
  /\ idFile' = NoKey
  /\ UNCHANGED <<tokenFile, memory, unlinked, history>>

\* Nobody asks whether the write succeeded.
WriteIdentity(p) ==
  /\ Goes(p, "savingIdentity", "known")
  /\ \/ idFile' = key[p] /\ UNCHANGED disputed
     \/ UNCHANGED idFile /\ disputed' = TRUE
  /\ UNCHANGED <<tokenFile, memory, unlinked, generated>>

(***************************************************************************)
(* load_token(), the reply of the Gateway, store_token(), clear_token()    *)
(***************************************************************************)

LoadNoBootstrap(p) ==  \* mutant: whatever the file says
  /\ Goes(p, "known", "asked")
  /\ sent' = [sent EXCEPT ![p] = tokenFile]
  /\ UNCHANGED <<files, gw, key, unlinked, history>>
LoadToken(p) ==
  /\ Goes(p, "known", "asked")
  /\ sent' = [sent EXCEPT ![p] = IF tokenFile # NoToken THEN tokenFile
                                                         ELSE Bootstrap]
  /\ UNCHANGED <<files, gw, key, unlinked, history>>

Issued(p) == [gateway |-> gw[p], key |-> key[p]]

\* Hello, with a device token; Stop is the hello without, and any refusal.
Hello(p) ==
  /\ sent[p] \in {Bootstrap, Issued(p)}
  /\ Goes(p, "asked", "granted")
  /\ UNCHANGED <<files, memory, unlinked, history>>

OpenToken(p) ==
  /\ Goes(p, "granted", "savingToken")
  /\ tokenFile' = NoToken
  /\ UNCHANGED <<idFile, memory, unlinked, history>>

\* A write to a file that has been removed is lost.
WriteToken(p) ==
  /\ Goes(p, "savingToken", "idle")
  /\ \/ p \notin unlinked /\ tokenFile' = Issued(p)
     \/ UNCHANGED tokenFile
  /\ Forgets(p)
  /\ UNCHANGED <<idFile, history>>

ClearIdentityToo ==  \* mutant: the directory is removed
  /\ tokenFile' = NoToken
  /\ idFile' = NoKey
  /\ unlinked' = {p \in Proc : pc[p] = "savingToken"}
  /\ UNCHANGED <<pc, memory, history>>

\* clear-device-token
ClearToken ==
  /\ tokenFile' = NoToken
  /\ unlinked' = {p \in Proc : pc[p] = "savingToken"}
  /\ UNCHANGED <<idFile, pc, memory, history>>

\* The end of connect(), or of the program: killed, thrown or done.
Stop(p) ==
  /\ pc[p] # "idle"
  /\ pc' = [pc EXCEPT ![p] = "idle"]
  /\ Forgets(p)
  /\ UNCHANGED <<files, history>>

StoreNext ==
  \/ ClearToken
  \/ \E p \in Proc :
       \/ \E g \in Gateway : Begin(p, g)
       \/ FindIdentity(p) \/ MakeIdentity(p)
       \/ OpenIdentity(p) \/ WriteIdentity(p)
       \/ LoadToken(p) \/ Hello(p) \/ OpenToken(p) \/ WriteToken(p)
       \/ Stop(p)

StoreSpec == StoreInit /\ [][StoreNext]_storeVars

(***************************************************************************)
(* Properties                                                              *)
(***************************************************************************)

\* Files, programs and what they hold keep their types: a token is sent with
\* every connect request.
StoreTypeOK ==
  /\ idFile \in Key \cup {NoKey}
  /\ tokenFile \in Token \cup {NoToken}
  /\ pc \in [Proc -> Where]
  /\ gw \in [Proc -> Gateway \cup {NoGateway}]
  /\ key \in [Proc -> Key \cup {NoKey}]
  /\ sent \in [Proc -> Token \cup {Bootstrap}]
  /\ unlinked \in SUBSET Proc
  /\ generated \in SUBSET Key
  /\ disputed \in BOOLEAN

\* The identity is settled when it is on disk and nobody is about to write
\* another.
Settled == IF Makers = {} THEN idFile ELSE NoKey
Once == INSTANCE IdentityOnce WITH device <- Settled

\* However many programs find no identity at once, are killed between
\* truncating and writing, or clear the token: once one identity is settled,
\* no step of any of them changes or loses it.
IdentityIsForGood == Once!OnceSpec

Presents(p) == pc[p] \in {"asked", "granted", "savingToken"}

\* The identity shown to a Gateway is the one on disk, which the next start
\* will show, unless two programs made one at once or the disk refused it.
PresentedIsStored ==
  disputed \/ \A p \in Proc : Presents(p) => key[p] = idFile

\* And the device token on disk was issued to the identity on disk.
StoredTokenIsOurs ==
  disputed \/ tokenFile = NoToken \/ tokenFile.key = idFile

\* A device token is only shown to the Gateway that issued it; any other
\* gets the bootstrap token, to pair with.
TokenIsTheGateways ==
  \A p \in Proc : sent[p] # Bootstrap => sent[p].gateway = gw[p]
=============================================================================
