------------------------------- MODULE Shell -------------------------------
(***************************************************************************)
(* The interactive shell of the command line (cli/main.cpp, "shell"): one  *)
(* thread that reads a line, makes the core client's calls for it, pumps   *)
(* events for two seconds and, if it lost any, reconnects and reloads.     *)
(*                                                                         *)
(* It chats in one session, here MainSession.  The other commands of the   *)
(* program open a client, make one call and end.                           *)
(***************************************************************************)
EXTENDS CoreClient

CONSTANT MaxAttempts  \* of reconnect(): 8

ASSUME ShellAssumption == MaxAttempts \in Nat \ {0}

VARIABLES
  at,        \* where the program is
  purpose,   \* what the connection being made is for
  attempts   \* of reconnect(), that failed

control == <<at, purpose, attempts>>
shellVars == <<control, coreVars, gatewayVars>>

Idle == UNCHANGED <<coreVars, gatewayVars>>

GoOn(next) == at' = next /\ UNCHANGED <<purpose, attempts>>
Prompt == at' = "prompt" /\ purpose' = "none" /\ attempts' = 0

\* reconnect(): the loop over its attempts.
Reconnect(why) == at' = "dialing" /\ purpose' = why /\ attempts' = 0

ForgetAttempt ==  \* mutant: the loop's counter is not advanced
  GoOn("sleeping")
FailAttempt ==
  /\ at' = "sleeping"
  /\ attempts' = attempts + 1
  /\ UNCHANGED purpose

\* The first connection fails, or an exception reaches main().
Exit == GoOn("leaving")

\* What close() does once it has nothing to wait for.
ClosedOnly ==
  /\ StreamIsDown
  /\ Close
  /\ call' = "none"
  /\ UNCHANGED <<needsRecovery, lastOuter, skipped, gateway, missed>>

ShellInit ==
  /\ CoreInit
  /\ GatewayInit
  /\ at = "dialing"
  /\ purpose = "open"
  /\ attempts = 0

(***************************************************************************)
(* open() and reconnect()                                                  *)
(***************************************************************************)

\* close() at the start of connect(), in reconnect() and in the destructor, as
\* far as it waits for the Gateway.
HangsUp ==
  /\ at \in {"dialing", "closing", "leaving"}
  /\ HangUp("close")
  /\ UNCHANGED control

Failure == IF purpose = "open" THEN Exit ELSE FailAttempt

Dials ==
  /\ at = "dialing"
  /\ \E w \in Socket : Dial(w)
  /\ GoOn("connecting")
  /\ UNCHANGED <<needsRecovery, lastOuter, skipped, gateway, missed>>

\* transport() throws: the host is unknown or refuses the connection.
NoRoute ==
  /\ at = "dialing"
  /\ ClosedOnly
  /\ Failure

AnswerChallenge ==
  /\ at = "connecting"
  /\ SendConnect
  /\ UNCHANGED control

\* The close() of a connect() that fails.
ConnectGivesUp ==
  /\ at = "connecting"
  /\ GiveUp
  /\ UNCHANGED control

\* A device to be paired ends the first connection and every reconnect().
ConnectOutcome ==
  /\ at = "connecting"
  /\ \E state \in ConnectState :
       /\ ConnectReturns(state)
       /\ CASE state = "Connected" -> GoOn("hydrating")
            [] state = "Failed" -> Failure
            [] OTHER -> IF purpose = "open" THEN Exit ELSE Prompt

StartHydrate ==
  /\ at = "hydrating"
  /\ StartCall("history", MainSession)
  /\ UNCHANGED control

Loaded == IF purpose = "send" THEN GoOn("sending") ELSE Prompt

LoadedAnyway ==  \* mutant: reconnect() swallows what hydrate() throws
  /\ at = "hydrating"
  /\ \E ok \in BOOLEAN : CallReturns(ok)
  /\ Loaded
Hydrated ==
  /\ at = "hydrating"
  /\ \E ok \in BOOLEAN :
       /\ CallReturns(ok)
       /\ IF ok THEN Loaded
          ELSE IF purpose = "open" THEN Exit ELSE GoOn("closing")

\* A connection that could not be reloaded is closed and counts as failed.
CloseFailed ==
  /\ at = "closing"
  /\ ClosedOnly
  /\ FailAttempt

\* The delay comes after the last attempt, too.
Sleeps ==
  /\ at = "sleeping"
  /\ IF attempts < MaxAttempts THEN GoOn("dialing") ELSE Prompt
  /\ Idle

(***************************************************************************)
(* The loop over the lines                                                 *)
(***************************************************************************)

\* "/pause" on a client that is not connected only prints what was thrown.
Pause ==
  /\ at = "prompt"
  /\ StartCall("abort", MainSession)
  /\ GoOn("aborting")

Aborted ==
  /\ at = "aborting"
  /\ \E ok \in BOOLEAN : CallReturns(ok)
  /\ Prompt

MessageUnasked ==  \* mutant: a message does not ask for a connection
  /\ at = "prompt"
  /\ at' = "sending" /\ purpose' = "send" /\ UNCHANGED attempts
  /\ Idle
Message ==
  /\ at = "prompt"
  /\ IF ready
       THEN at' = "sending" /\ purpose' = "send" /\ UNCHANGED attempts
       ELSE Reconnect("send")
  /\ Idle

StartSend ==
  /\ at = "sending"
  /\ StartCall("send", MainSession)
  /\ UNCHANGED control

\* Nothing catches what send_chat() throws before main() does.
Sent ==
  /\ at = "sending"
  /\ \E ok \in BOOLEAN :
       /\ CallReturns(ok)
       /\ IF ok THEN GoOn("pumping") ELSE Exit

SkipWhileCalling ==
  /\ at \in {"hydrating", "aborting", "sending"}
  /\ SkipEvent
  /\ UNCHANGED control

PumpEvent ==
  /\ at = "pumping"
  /\ PumpReads
  /\ UNCHANGED control

PumpBlocks ==
  /\ at = "pumping"
  /\ PumpWaits
  /\ UNCHANGED control

PumpBreaks ==
  /\ at = "pumping"
  /\ PumpLosesLink
  /\ GoOn("checking")

\* The deadline is looked at between two reads.
PumpEnds ==
  /\ at = "pumping"
  /\ call = "none"
  /\ GoOn("checking")
  /\ Idle

CheckConnected ==  \* mutant: connected() asked in place of recovery_needed()
  /\ at = "checking"
  /\ IF ready THEN Prompt ELSE Reconnect("recover")
  /\ Idle
Check ==
  /\ at = "checking"
  /\ IF needsRecovery THEN Reconnect("recover") ELSE Prompt
  /\ Idle

\* "/quit", or the end of the input.
Quit ==
  /\ at = "prompt"
  /\ Exit
  /\ Idle

\* The client is destroyed with the program.
Leave ==
  /\ at = "leaving"
  /\ ClosedOnly
  /\ GoOn("gone")

ShellNext ==
  \/ HangsUp \/ Dials \/ NoRoute
  \/ AnswerChallenge \/ ConnectGivesUp \/ ConnectOutcome
  \/ StartHydrate \/ Hydrated \/ CloseFailed \/ Sleeps
  \/ Aborted \/ StartSend \/ Sent \/ SkipWhileCalling
  \/ PumpEvent \/ PumpBlocks \/ PumpBreaks \/ PumpEnds
  \/ Check \/ Leave

UserNext == Pause \/ Message \/ Quit

FarEnd ==
  /\ GatewayNext \/ FarEndCloses
  /\ UNCHANGED <<control, coreVars>>

Next == ShellNext \/ UserNext \/ FarEnd

ShellSpec == ShellInit /\ [][Next]_shellVars

(***************************************************************************)
(* Properties                                                              *)
(***************************************************************************)

\* Control stays within the program's places, and the core client's types
\* hold.  The sender is past every check, and has a connection: send_chat()
\* does not throw "not connected", which would end the program.
ShellTypeOK ==
  /\ at \in {"dialing", "connecting", "hydrating", "closing", "sleeping",
             "prompt", "aborting", "sending", "pumping", "checking",
             "leaving", "gone"}
  /\ purpose \in {"open", "send", "recover", "none"}
  /\ attempts \in 0 .. MaxAttempts
  /\ at = "sending" => ready
  /\ CoreTypeOK

\* What the prompt follows is complete: events lost before the last one
\* printed have been made good by a reload, or the client is not connected
\* and the next message makes it reload.
PromptIsCurrent ==
  at = "prompt" /\ ready => \A s \in missed \cup skipped : s >= lastOuter

\* A message is only sent on a connection whose Gateway streams the session
\* to it: through every failed attempt to reconnect and to reload, the answer
\* to it will be seen.
SendsAreHeard == call = "send" => MainSession \in subscribed

\* The program runs; pump() comes to its deadline if it looks often enough;
\* the user types when it pleases, and nothing makes the Gateway answer.
ShellFairness ==
  /\ WF_shellVars(ShellNext)
  /\ SF_shellVars(PumpEnds)

FairShellSpec == ShellSpec /\ ShellFairness

\* However often the network fails, the shell comes back to its prompt or
\* ends, unless on a connection that is up the Gateway leaves a read, or a
\* close, without an answer for ever.
ShellNeverHangs ==
  <>[]FarEndIsSilent \/ []<>(at \in {"prompt", "gone"})
=============================================================================
