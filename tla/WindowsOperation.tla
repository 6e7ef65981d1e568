--------------------------- MODULE WindowsOperation ---------------------------
(***************************************************************************)
(* Operations in the guest (winboat/operation.rs, operation/runner.rs) and *)
(* the certificate of the guest's RDP server (winboat/rdp_trust.rs).  An   *)
(* operation starts a script through FreeRDP and polls the file the script *)
(* reports to; an attempt that brings no answer is followed by a second    *)
(* one, while the script of the first may go on in the guest and report to *)
(* the same file.  Operations of several processes share the trust store:  *)
(* the anchor, and the pins that older versions kept per port.             *)
(*                                                                         *)
(* A report is known by the attempt whose key authenticates it, by its     *)
(* sequence number and by the state in it.                                 *)
(***************************************************************************)
EXTENDS Naturals, Sequences, FiniteSets

CONSTANTS Calls,        \* operations
          Retained,     \* those that keep FreeRDP for a second answer: Studio launches
          Ports,        \* of the host, to which the RDP port of the guest is mapped
          Certificates, \* of what listens there
          MaxReports,   \* bound: reports of the scripts of an operation together
          Short         \* bound: operations of one attempt, whose scripts report once

NotPinned == "not pinned"
ASSUME WinAssumption ==
  /\ Ports # {} /\ Certificates # {} /\ MaxReports \in Nat \ {0}
  /\ NotPinned \notin Certificates /\ "rejected" \notin Certificates

NoReport == [by |-> 0, seq |-> 0, state |-> "none"]
Attempts == 1..2

VARIABLES
  listening,   \* what listens on each port
  anchor,      \* the certificate trusted for this VM
  pins,        \* the certificate pinned for each port
  legacy,      \* the certificates pinned when the first operation began
  call,        \* per operation its step, its attempt and what that knows
  share        \* per operation, while it lasts: its report file and its scripts in the guest

winVars == <<listening, anchor, pins, legacy, call, share>>

Pinned == Certificates \union {NotPinned}
Reports == [by : Attempts, seq : 1..MaxReports, state : {"running", "succeeded", "failed"}]
FirstPort == CHOOSE p \in Ports : TRUE
NotCalled == [at |-> "idle", try |-> 1, port |-> FirstPort, required |-> NotPinned,
              accepted |-> NotPinned, confirmed |-> FALSE, last |-> NoReport, answers |-> <<>>]
NotShared == [report |-> NoReport,
              script |-> [n \in Attempts |-> [state |-> "absent", sent |-> 0]]]

WinTypeOK ==
  /\ listening \in [Ports -> Certificates]
  /\ anchor \in Pinned /\ pins \in [Ports -> Pinned] /\ legacy \subseteq Certificates
  /\ DOMAIN call = Calls
  /\ \A c \in Calls :
       /\ call[c].at \in {"idle", "clear", "anchor", "pins", "wait", "confirm",
                          "create", "sync", "kept", "done", "failed"}
       /\ call[c].try \in Attempts /\ call[c].port \in Ports
       /\ call[c].required \in Pinned /\ call[c].accepted \in Pinned \union {"rejected"}
       /\ call[c].confirmed \in BOOLEAN /\ call[c].last \in Reports \union {NoReport}
       /\ call[c].answers \in Seq(Reports) /\ Len(call[c].answers) <= 2
  /\ share \in [Calls -> [report : Reports \union {NoReport},
                          script : [Attempts -> [state : {"absent", "running", "over"},
                                                 sent : 0..MaxReports]]]]

\* Whatever older versions have pinned.  What the certificate of the first port is called
\* makes no difference.
WinInit ==
  /\ listening \in [Ports -> Certificates]
  /\ listening[FirstPort] = CHOOSE z \in Certificates : TRUE
  /\ anchor = NotPinned /\ pins \in [Ports -> Pinned]
  /\ legacy = {pins[p] : p \in Ports} \ {NotPinned}
  /\ call = [c \in Calls |-> NotCalled]
  /\ share = [c \in Calls |-> NotShared]

trustVars == <<anchor, pins, legacy>>

-----------------------------------------------------------------------------
(* run_windows_operation *)

\* Resolves the port for this attempt: a recreation can have moved it to any of them.
Connect(c) ==
  /\ call[c].at = "idle"
  /\ \E port \in Ports : call' = [call EXCEPT ![c].at = "clear", ![c].port = port]
  /\ UNCHANGED <<listening, trustVars, share>>

\* Removes what an earlier attempt reported; the key of this attempt is new.
ClearReport(c) ==
  /\ call[c].at = "clear"
  /\ share' = [share EXCEPT ![c].report = NoReport]
  /\ call' = [call EXCEPT ![c].at = "anchor"]
  /\ UNCHANGED <<listening, trustVars>>

\* What is left of a call that ended: its answers, and over which connection they came.
CallEnded(c, at, answers) ==
  [call EXCEPT ![c] = [NotCalled EXCEPT !.at = at, !.try = call[c].try, !.answers = answers,
                       !.accepted = IF answers = <<>> THEN NotPinned ELSE call[c].accepted]]

Failed(c) == CallEnded(c, "failed", call[c].answers)

\* What is in the file when the call ends, or comes there later, is read by nobody.
Becomes(c, next) ==
  /\ call' = next
  /\ share' = IF next[c].at \in {"done", "failed"} THEN [share EXCEPT ![c] = NotShared] ELSE share

\* An error, a kill or a cancellation ends the call at any of its steps.
Abandon(c) ==
  /\ call[c].at \notin {"done", "failed"}
  /\ Becomes(c, Failed(c))
  /\ UNCHANGED <<listening, trustVars>>

\* An attempt without an answer is followed by one more.  The second answer has one.
Retrying(c) ==
  IF call[c].try = 1 /\ call[c].answers = <<>>
  THEN [call EXCEPT ![c] = [NotCalled EXCEPT !.try = 2]]
  ELSE Failed(c)

-----------------------------------------------------------------------------
(* TrustAttempt::prepare, and FreeRDP's handshake *)

Require(c, pin) == call' = [call EXCEPT ![c].at = "wait", ![c].required = pin]

ReadAnchor(c) ==
  /\ call[c].at = "anchor"
  /\ IF anchor # NotPinned THEN Require(c, anchor)
     ELSE call' = [call EXCEPT ![c].at = "pins"]
  /\ UNCHANGED <<listening, trustVars, share>>

\* Mutant: the pins of other ports are not looked at.
LegacyPinsOfPort(c) == {pins[call[c].port]} \ {NotPinned}

\* The pin of the port or, without one, the certificate all pins agree on; first use
\* without any pin.  Pins that contradict each other end the call.
LegacyPins(c) ==
  IF pins[call[c].port] # NotPinned THEN {pins[call[c].port]}
  ELSE {pins[p] : p \in Ports} \ {NotPinned}

ReadPins(c) ==
  /\ call[c].at = "pins" /\ Cardinality(LegacyPins(c)) <= 1
  /\ \E pin \in IF LegacyPins(c) = {} THEN {NotPinned} ELSE LegacyPins(c) : Require(c, pin)
  /\ UNCHANGED <<listening, trustVars, share>>

\* FreeRDP accepts the required certificate, on first use any, and starts the script.
Handshake(c) ==
  LET shown == listening[call[c].port] IN
  /\ call[c].at = "wait" /\ call[c].accepted = NotPinned
  /\ IF call[c].required \in {NotPinned, shown}
     THEN /\ call' = [call EXCEPT ![c].accepted = shown, ![c].required = NotPinned]
          /\ share' = [share EXCEPT ![c].script[call[c].try].state = "running"]
     ELSE call' = [call EXCEPT ![c].accepted = "rejected"] /\ UNCHANGED share
  /\ UNCHANGED <<listening, trustVars>>

-----------------------------------------------------------------------------
(* wait_for_windows_operation *)

\* Mutant: both attempts share their request and key.
AuthenticForCall(c, r) == r.by \in Attempts

\* authenticate_report: the request, the nonce and the key are those of one attempt.
Authentic(c, r) == r.by = call[c].try

\* ReportSequenceTracker::accept
Accepts(c, r) == call[c].last = NoReport \/ r.seq > call[c].last.seq
Replays(c, r) == call[c].last # NoReport /\ r.seq <= call[c].last.seq /\ r # call[c].last

\* What a new report, its certificate confirmed, means for the call.  Its success ends the
\* call or, once, leaves FreeRDP running.
Settled(c, r) ==
  CASE r.state = "failed" -> Failed(c)
    [] r.state = "running" -> [call EXCEPT ![c].at = "wait", ![c].last = r, ![c].confirmed = TRUE]
    [] r.state = "succeeded" ->
         IF c \in Retained /\ call[c].answers = <<>>
         THEN [call EXCEPT ![c].at = "kept", ![c].last = r, ![c].confirmed = TRUE,
                           ![c].answers = <<r>>]
         ELSE CallEnded(c, "done", Append(call[c].answers, r))

\* A report that is not this attempt's, or out of sequence, ends the call.
ReadReport(c) ==
  LET r == share[c].report IN
  /\ call[c].at = "wait" /\ call[c].accepted # "rejected" /\ r # NoReport
  /\ \/ /\ ~Authentic(c, r) \/ Replays(c, r)
        /\ Becomes(c, Failed(c))
     \/ /\ Authentic(c, r) /\ Accepts(c, r)
        /\ Becomes(c, IF call[c].confirmed THEN Settled(c, r)
                      ELSE [call EXCEPT ![c].at = "confirm", ![c].last = r])
  /\ UNCHANGED <<listening, trustVars>>

\* The certificate is rejected, the time is up, or FreeRDP ended without a live report.
GiveUp(c) ==
  /\ call[c].at = "wait" /\ c \notin Short
  /\ Becomes(c, Retrying(c))
  /\ UNCHANGED <<listening, trustVars>>

-----------------------------------------------------------------------------
(* TrustAttempt::confirm *)

\* An anchor that another operation brought meanwhile must be the certificate accepted.
Compared(c) ==
  IF anchor = call[c].accepted THEN [call EXCEPT ![c].at = "sync"] ELSE Failed(c)

Confirm(c) ==
  /\ call[c].at = "confirm"
  /\ Becomes(c, IF anchor # NotPinned THEN Compared(c) ELSE [call EXCEPT ![c].at = "create"])
  /\ UNCHANGED <<listening, trustVars>>

\* Mutant: the anchor is written like a pin, over what is there.
CreateAnchorOver(c) ==
  /\ call[c].at = "create"
  /\ anchor' = call[c].accepted
  /\ Becomes(c, [call EXCEPT ![c].at = "sync"])
  /\ UNCHANGED <<listening, pins, legacy>>

CreateAnchor(c) ==
  /\ call[c].at = "create"
  /\ \/ /\ anchor = NotPinned
        /\ anchor' = call[c].accepted
        /\ Becomes(c, [call EXCEPT ![c].at = "sync"])
     \/ /\ anchor # NotPinned
        /\ Becomes(c, Compared(c))
        /\ UNCHANGED anchor
  /\ UNCHANGED <<listening, pins, legacy>>

SyncPortPin(c) ==
  /\ call[c].at = "sync"
  /\ pins' = [pins EXCEPT ![call[c].port] = call[c].accepted]
  /\ Becomes(c, Settled(c, call[c].last))
  /\ UNCHANGED <<listening, anchor, legacy>>

-----------------------------------------------------------------------------
(* wait_for_followup_windows_operation, after the report that answered the call *)

\* Mutant: the second wait does not know the report that answered the first.
FollowUpAfresh(c) ==
  /\ call[c].at = "kept"
  /\ call' = [call EXCEPT ![c].at = "wait", ![c].last = NoReport]
  /\ UNCHANGED <<listening, trustVars, share>>

FollowUp(c) ==
  /\ call[c].at = "kept"
  /\ call' = [call EXCEPT ![c].at = "wait"]
  /\ UNCHANGED <<listening, trustVars, share>>

-----------------------------------------------------------------------------
(* Outside: Write-MendimaruReport of a script, which goes on in the guest  *)
(* when its attempt is given up                                            *)

WriteReport(c, n) ==
  LET s == share[c].script[n] IN
  /\ s.state = "running"
  /\ share[c].script[1].sent + share[c].script[2].sent < IF c \in Short THEN 1 ELSE MaxReports
  /\ \E state \in {"running", "succeeded", "failed"} :
       share' = [share EXCEPT
         ![c].report = [by |-> n, seq |-> s.sent + 1, state |-> state],
         ![c].script[n].sent = s.sent + 1,
         ![c].script[n].state = IF state = "running" \/ (state = "succeeded" /\ c \in Retained)
                                THEN "running" ELSE "over"]
  /\ UNCHANGED <<listening, trustVars, call>>

WinNext ==
  \E c \in Calls :
    \/ Connect(c) \/ ClearReport(c) \/ Abandon(c)
    \/ ReadAnchor(c) \/ ReadPins(c) \/ Handshake(c) \/ ReadReport(c) \/ GiveUp(c)
    \/ Confirm(c) \/ CreateAnchor(c) \/ SyncPortPin(c) \/ FollowUp(c)
    \/ \E n \in Attempts : WriteReport(c, n)

WinSpec == WinInit /\ [][WinNext]_winVars

-----------------------------------------------------------------------------
(* Properties *)

\* An answer of Windows is the report of the attempt that waits for it, never one of the
\* attempt before, and the second answer, which confirms that Studio closed, is a later
\* report than the first; it came over a connection to the one server that is trusted for
\* this VM, also when several operations met it first at the same time, and to none that
\* the pins of an older version speak against.
AnswersAreTrusted ==
  /\ anchor = NotPinned \/ legacy = {} \/ anchor \in legacy
  /\ \A c \in Calls, k \in 1..2 :
       k <= Len(call[c].answers) =>
         /\ call[c].answers[k].by = call[c].try
         /\ call[c].accepted = anchor
         /\ k = 2 => call[c].answers[1].seq < call[c].answers[2].seq
=============================================================================
