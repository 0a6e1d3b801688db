----------------------------- MODULE Enrolment -----------------------------
(***************************************************************************)
(* One person's way in: the invitation, the emailed codes, the enrolment   *)
(* session a right code opens, and the passkeys registered and removed     *)
(* (identity/invitation_logic.py, code_logic.py, passkey_logic.py).        *)
(*                                                                         *)
(* A request is one transaction; a wrong code is an answer and commits its *)
(* attempt.  An UPDATE that has touched a code's row holds it until then,  *)
(* and a removal holds the passkeys it counted.  Nothing locks the         *)
(* invitation.                                                             *)
(***************************************************************************)
EXTENDS Integers, FiniteSets, FiniteSetsExt

CONSTANTS Passkeys,
          Codes,       \* numbers, in the order they are issued
          Calls,       \* requests under way that send or verify a code or remove a passkey
          MaxAttempts, \* ENROLMENT_CODE_MAX_ATTEMPTS
          MaxInvites,  \* bound: invitations to this person
          Full         \* a session that can sign in, beside those codes opened

ASSUME EnrolmentAssumption ==
  MaxAttempts \in Nat \ {0} /\ MaxInvites \in Nat /\ Codes \subseteq Nat /\ Full \notin Codes

VARIABLES invite,    \* the newest invitation: its number, whether it is open, and whether
                     \* one was accepted, which is what makes a member
          status,    \* the account: invited or active
          passkey,   \* each credential row
          code,      \* each code: its state and its counted attempts
          sessions,   \* the enrolment session of each code, and the full one
          call,      \* what each running request has read and holds
          ceremony,  \* and the registration under way in each session
          judged, opened  \* history: of each code, guesses answered and sessions opened

enrolVars == <<invite, status, passkey, code, sessions, call, ceremony, judged, opened>>

NoEntry == [at |-> "idle"]
NoCeremony == [on |-> FALSE, invite |-> 0]

EnrolInit ==
  /\ invite = [no |-> 1, open |-> TRUE, member |-> FALSE] /\ status = "invited"
  /\ passkey = [p \in Passkeys |-> "none"]
  /\ code = [c \in Codes |-> [state |-> "none", attempts |-> 0]]
  /\ sessions = [s \in Codes \cup {Full} |-> FALSE]
  /\ call = [q \in Calls |-> NoEntry]
  /\ ceremony = [s \in Codes \cup {Full} |-> NoCeremony]
  /\ judged = [c \in Codes |-> 0] /\ opened = [c \in Codes |-> 0]

Live == {p \in Passkeys : passkey[p] = "live"}   \* has_live_passkey
OpenCodes == {c \in Codes : code[c].state = "open"}

-----------------------------------------------------------------------------
(* Codes. *)
BeginCall(q, read) ==
  /\ call[q] = NoEntry
  /\ call' = [call EXCEPT ![q] = read]
  /\ UNCHANGED <<invite, status, passkey, code, sessions, ceremony, judged, opened>>

CodeHeld(c) == \E q \in Calls : call[q].at = "claimed" /\ call[q].code = c

\* request_code and open_invitation; the latter does not ask for a live passkey
BeginIssue(q) ==
  /\ invite.open
  /\ BeginCall(q, [at |-> "issuing", saw |-> OpenCodes])

\* issue_code: the codes there were are consumed, one sent at the same time is not
IssueCode(q) ==
  LET unused == {c \in Codes : code[c].state = "none"}
  IN  /\ call[q].at = "issuing" /\ unused # {} /\ \A c \in call[q].saw : ~CodeHeld(c)
      /\ code' = [c \in Codes |->
           IF c = Min(unused) THEN [code[c] EXCEPT !.state = "open"]
           ELSE IF c \in call[q].saw THEN [code[c] EXCEPT !.state = "consumed"] ELSE code[c]]
      /\ call' = [call EXCEPT ![q] = NoEntry]
      /\ UNCHANGED <<invite, status, passkey, sessions, ceremony, judged, opened>>

\* _verify: the newest open code, and whether an invitation is open
BeginGuess(q, right) ==
  /\ OpenCodes # {}
  /\ LET c == Max(OpenCodes)
     IN  /\ code[c].attempts < MaxAttempts
         /\ BeginCall(q, [at |-> "read", code |-> c, right |-> right,
                      saw |-> code[c].attempts, invited |-> invite.open])

\* mutant: one more than the attempts it read
CountedFromRead(q) == call[q].saw + 1
Counted(q) == code[call[q].code].attempts + 1

\* _claim_attempt: one conditional UPDATE
ClaimAttempt(q) ==
  LET c == call[q].code
  IN  /\ call[q].at = "read" /\ ~CodeHeld(c)
      /\ IF code[c].state = "open" /\ Counted(q) <= MaxAttempts
         THEN /\ code' = [code EXCEPT ![c].attempts = Counted(q)]
              /\ call' = [call EXCEPT ![q].at = "claimed"]
         ELSE /\ call' = [call EXCEPT ![q] = NoEntry] /\ UNCHANGED code
      /\ UNCHANGED <<invite, status, passkey, sessions, ceremony, judged, opened>>

\* The rest of _verify and the commit.  A right code is used up, the door open or closed.
AnswerGuess(q) ==
  LET c == call[q].code
      opens == call[q].right /\ call[q].invited /\ Live = {}
  IN  /\ call[q].at = "claimed"
      /\ code' = IF call[q].right THEN [code EXCEPT ![c].state = "consumed"] ELSE code
      /\ sessions' = [sessions EXCEPT ![c] = @ \/ opens]
      /\ opened' = IF opens THEN [opened EXCEPT ![c] = @ + 1] ELSE opened
      /\ judged' = [judged EXCEPT ![c] = @ + 1]
      /\ call' = [call EXCEPT ![q] = NoEntry]
      /\ UNCHANGED <<invite, status, passkey, ceremony>>

-----------------------------------------------------------------------------
(* Passkeys. *)
\* verify_registration, from an enrolment session or a full one
BeginCeremony(s) ==
  /\ sessions[s] /\ ceremony[s] = NoCeremony
  /\ ceremony' = [ceremony EXCEPT ![s] =
       [on |-> TRUE, invite |-> IF s # Full /\ invite.open THEN invite.no ELSE 0]]
  /\ UNCHANGED <<invite, status, passkey, code, sessions, call, judged, opened>>

\* The credential; from an enrolment session also accept_invitation for the invitation
\* that was open, an active account and a full session in place of this one
RegisterPasskey(s, p) ==
  /\ ceremony[s].on /\ passkey[p] = "none"
  /\ passkey' = [passkey EXCEPT ![p] = "live"]
  /\ ceremony' = [ceremony EXCEPT ![s] = NoCeremony]
  /\ IF s = Full THEN UNCHANGED <<invite, status, sessions>>
     ELSE /\ invite' = [invite EXCEPT !.open = @ /\ ceremony[s].invite # invite.no,
                                      !.member = @ \/ ceremony[s].invite # 0]
          /\ status' = "active"
          /\ sessions' = [sessions EXCEPT ![s] = FALSE, ![Full] = TRUE]
  /\ UNCHANGED <<code, call, judged, opened>>

BeginRemoval(q, p) ==
  /\ sessions[Full] /\ p \in Live
  /\ BeginCall(q, [at |-> "counting", of |-> p, saw |-> Live])

\* mutant: the passkeys are counted without locking them
PasskeysSeen(q) == TRUE
PasskeysFree(q) == \A r \in Calls : call[r].at = "counted" => call[r].saw \cap call[q].saw = {}

\* remove_passkey: the passkeys it found, those retired while it waited left out; the one
\* to remove must be among them and not the last
CountPasskeys(q) ==
  LET seen == call[q].saw \cap Live
  IN  /\ call[q].at = "counting" /\ PasskeysFree(q)
      /\ call' = [call EXCEPT ![q] =
           IF call[q].of \in Live /\ seen # {call[q].of}
           THEN [@ EXCEPT !.at = "counted", !.saw = seen] ELSE NoEntry]
      /\ UNCHANGED <<invite, status, passkey, code, sessions, ceremony, judged, opened>>

RemovePasskey(q) ==
  /\ call[q].at = "counted"
  /\ passkey' = [passkey EXCEPT ![call[q].of] = "retired"]
  /\ call' = [call EXCEPT ![q] = NoEntry]
  /\ UNCHANGED <<invite, status, code, sessions, ceremony, judged, opened>>

-----------------------------------------------------------------------------
(* Invitations. *)
\* reissue_enrolment, of a member whatever the account's status: sessions revoked, passkeys
\* retired, invited again
ReissueEnrolment ==
  /\ invite.member /\ invite.no < MaxInvites
  /\ \A q \in Calls : call[q].at # "counted"
  /\ sessions' = [s \in DOMAIN sessions |-> FALSE]
  /\ passkey' = [p \in Passkeys |-> IF p \in Live THEN "retired" ELSE passkey[p]]
  /\ status' = "invited"
  /\ invite' = [invite EXCEPT !.no = @ + 1, !.open = TRUE]
  /\ UNCHANGED <<code, call, ceremony, judged, opened>>

\* revoke_invitation, or its hours run out
CloseInvitation ==
  /\ invite.open
  /\ invite' = [invite EXCEPT !.open = FALSE]
  /\ UNCHANGED <<status, passkey, code, sessions, call, ceremony, judged, opened>>

EnrolNext ==
  \/ \E q \in Calls :
       \/ BeginIssue(q) \/ IssueCode(q)
       \/ \E right \in BOOLEAN : BeginGuess(q, right)
       \/ ClaimAttempt(q) \/ AnswerGuess(q)
       \/ \E p \in Passkeys : BeginRemoval(q, p)
       \/ CountPasskeys(q) \/ RemovePasskey(q)
  \/ \E s \in Codes \cup {Full} :
       BeginCeremony(s) \/ \E p \in Passkeys : RegisterPasskey(s, p)
  \/ ReissueEnrolment \/ CloseInvitation

EnrolSpec == EnrolInit /\ [][EnrolNext]_enrolVars
-----------------------------------------------------------------------------
\* "Which only re-enrolment may do" (remove_passkey): a person who has a passkey is left
\* with none by a re-enrolment alone, however removals, registrations and it overlap.
LastPasskeyStays ==
  [][Live # {} /\ Live' = {} => invite'.no > invite.no /\ status' = "invited"]_enrolVars

\* "Concurrent guesses at the same code serialise on the row and can never exceed
\* max_attempts together" (_claim_attempt), and "two right answers in flight yield one
\* enrolment session, not two" (_verify).
CodeIsGuessedInBounds ==
  \A c \in Codes : judged[c] <= MaxAttempts /\ opened[c] <= 1
=============================================================================
