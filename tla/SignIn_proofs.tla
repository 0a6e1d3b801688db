---------------------------- MODULE SignIn_proofs ----------------------------
(***************************************************************************)
(* Coming in, staying in and leaving, proved: the session its tabs keep    *)
(* alive, the codes and passkeys that open one, and the members of a bank  *)
(* with the work they own, for every number of tabs, codes, passkeys,      *)
(* people, items and requests at once, and for every bound.                *)
(***************************************************************************)
EXTENDS Members, RefreshSession, Enrolment, FiniteSetTheorems, TLAPS

-----------------------------------------------------------------------------
(* The session.  Nothing locks its row: what holds is what each tab read.  *)

\* A revocation is never undone, though a refresh that read the session before
\* it writes after it: the rotation saves the hashes and nothing else of the
\* row (session_logic.refresh).
THEOREM RevocationIsForGood == RefreshSpec => RevokedStaysRevoked
<1>1. [RefreshNext]_refreshVars => (revoked => revoked')
  BY DEF RefreshNext, refreshVars, session, Send, Read, Answer, Receive, RevokeAll, GraceRunsOut,
         Expire, SessionRunsOut, AnswerReplay, RevokeReplay, RefuseUnknown, RevokeEnded, Rotate, SignOut
<1> QED
  BY <1>1, PTL DEF RefreshSpec, RevokedStaysRevoked

Rows == Nat \X Nat \X BOOLEAN
Stages == {"idle", "refresh", "sign_out", "refreshing", "leaving", "answered",
           "shut", "refused", "left"}
TabRecords == [at : Stages, sent : Nat, row : Rows, new : Nat]
Tab(t) == tab[t] \in TabRecords

\* The row's secret is the newest drawn, and the one before it is next to it
\* as long as no two rotations started from one secret.
SecretsInOrder ==
  /\ issued \in Nat /\ issued >= 1 /\ cookie \in 0 .. issued
  /\ current = issued /\ previous \in Nat
  /\ inGrace \in BOOLEAN /\ revoked \in BOOLEAN /\ expired \in BOOLEAN /\ forked \in BOOLEAN
  /\ ~forked => previous = current - 1

\* A tab sends a secret the session has drawn, and reads a row at least as new.
TabReads(t) ==
  /\ tab[t].new <= issued
  /\ tab[t].at # "idle" => tab[t].sent \in 1 .. issued
  /\ tab[t].at \in {"refreshing", "leaving"} =>
       /\ tab[t].sent <= tab[t].row[1]
       /\ ~forked => tab[t].row[2] = tab[t].row[1] - 1

\* Who is turned away at the read found no live session; who is refused by one that lives
\* sent a secret older than both.
TabIsRefused(t) ==
  /\ tab[t].at = "shut" => revoked \/ expired
  /\ tab[t].at = "refused" => /\ IsPrevious(t) => revoked
                              /\ ~forked /\ ~revoked => tab[t].sent < tab[t].row[2]

SessionInv ==
  /\ tab = [t \in Tabs |-> tab[t]] /\ \A t \in Tabs : Tab(t)
  /\ SecretsInOrder
  /\ \A t \in Tabs : TabReads(t) /\ TabIsRefused(t)

\* What a step leaves the other tabs to stand on.
Later ==
  /\ issued' \in Nat /\ issued' >= issued
  /\ (revoked => revoked') /\ (expired => expired') /\ (forked => forked')
  /\ SecretsInOrder'

LEMMA IdleIsEmpty == Idle \in TabRecords /\ Idle.at = "idle" /\ Idle.new = 0
<1>1. Idle = [at |-> "idle", sent |-> 0, row |-> <<0, 0, FALSE>>, new |-> 0]
  BY DEF Idle, None
<1>2. <<0, 0, FALSE>> \in Rows /\ "idle" \in Stages
  BY DEF Rows, Stages
<1> QED
  BY <1>1, <1>2 DEF TabRecords

\* One tab's request moves on, the session's row aside.
LEMMA OneTabMoves ==
  ASSUME SessionInv, NEW t \in Tabs, NEW u, tab' = [tab EXCEPT ![t] = u]
  PROVE  /\ tab' = [s \in Tabs |-> tab'[s]] /\ tab'[t] = u
         /\ \A s \in Tabs \ {t} : tab'[s] = tab[s]
  BY DEF SessionInv

\* What holds of a tab survives whatever the others do to the session.
LEMMA OtherTabsStand ==
  ASSUME SessionInv, NEW s \in Tabs, tab'[s] = tab[s], Later
  PROVE  Tab(s)' /\ TabReads(s)' /\ TabIsRefused(s)'
<1> USE DEF Later
<1>1. Tab(s) /\ TabReads(s) /\ TabIsRefused(s) /\ SecretsInOrder
  BY DEF SessionInv
<1>2. Tab(s)'
  BY <1>1 DEF Tab
<1>3. TabReads(s)'
  BY <1>1 DEF Tab, TabRecords, Rows, TabReads, SecretsInOrder
<1>4. TabIsRefused(s)'
  BY <1>1 DEF TabIsRefused, IsPrevious, SecretsInOrder
<1> QED
  BY <1>2, <1>3, <1>4

LEMMA SessionInvKept == SessionInv /\ [RefreshNext]_refreshVars => SessionInv'
<1> SUFFICES ASSUME SessionInv, [RefreshNext]_refreshVars PROVE SessionInv'
  OBVIOUS
<1>0. SecretsInOrder /\ \A t \in Tabs : Tab(t) /\ TabReads(t) /\ TabIsRefused(t)
  BY DEF SessionInv
<1> USE DEF session
<1>row. ASSUME tab' = tab, Later
        PROVE  SessionInv'
  <2>1. \A t \in Tabs : Tab(t)' /\ TabReads(t)' /\ TabIsRefused(t)'
    BY <1>row, OtherTabsStand
  <2>2. tab' = [t \in Tabs |-> tab'[t]]
    BY <1>row DEF SessionInv
  <2> QED
    BY <1>row, <2>1, <2>2 DEF SessionInv, Later
<1>tab. ASSUME NEW t \in Tabs, NEW u, tab' = [tab EXCEPT ![t] = u], Later,
               tab'[t] = u => Tab(t)' /\ TabReads(t)' /\ TabIsRefused(t)'
        PROVE  SessionInv'
  <2>1. /\ tab' = [s \in Tabs |-> tab'[s]] /\ tab'[t] = u
        /\ \A s \in Tabs \ {t} : tab'[s] = tab[s]
    BY <1>tab, OneTabMoves
  <2>2. \A s \in Tabs \ {t} : Tab(s)' /\ TabReads(s)' /\ TabIsRefused(s)'
    BY <1>tab, <2>1, OtherTabsStand
  <2> QED
    BY <1>tab, <2>1, <2>2 DEF SessionInv, Later
<1>same. UNCHANGED <<session, cookie, issued, forked>> => Later
  BY <1>0 DEF SecretsInOrder, Later
<1>1. ASSUME NEW t \in Tabs, NEW kind \in {"refresh", "sign_out"}, Send(t, kind) PROVE SessionInv'
  <2> DEFINE u == [[tab[t] EXCEPT !.at = kind] EXCEPT !.sent = cookie]
  <2>1. tab' = [tab EXCEPT ![t] = u] /\ UNCHANGED <<session, cookie, issued, forked>>
    BY <1>0, <1>1 DEF Send, SessionInv
  <2>2. tab'[t] = u => Tab(t)' /\ TabReads(t)' /\ TabIsRefused(t)'
    <3>1. kind \in Stages /\ kind \notin {"refreshing", "leaving", "shut", "refused"}
      BY DEF Stages
    <3>2. cookie \in 1 .. issued /\ cookie \in Nat /\ tab[t].new <= issued
      BY <1>0, <1>1 DEF Send, SecretsInOrder, TabReads, None
    <3> DEFINE w == [tab[t] EXCEPT !.at = kind]
    <3>v. w \in TabRecords /\ w.at = kind /\ w.new = tab[t].new
      BY <1>0, <3>1 DEF Tab, TabRecords
    <3>u. u = [w EXCEPT !.sent = cookie]
      OBVIOUS
    <3> HIDE DEF u, w
    <3>3. /\ u \in TabRecords /\ u.at = kind /\ u.sent = cookie
          /\ u.new = tab[t].new
      BY <3>2, <3>u, <3>v DEF TabRecords
    <3> QED
      BY <2>1, <3>1, <3>2, <3>3 DEF Tab, TabReads, TabIsRefused
  <2> HIDE DEF u
  <2> QED
    BY <1>same, <1>tab, <2>1, <2>2
<1>2. ASSUME NEW t \in Tabs, Read(t) PROVE SessionInv'
  <2> DEFINE next == IF tab[t].at = "refresh" THEN (IF SessionLive THEN "refreshing" ELSE "shut")
                     ELSE IF revoked THEN "left" ELSE "leaving"
             u == [[tab[t] EXCEPT !.at = next] EXCEPT !.row = <<current, previous, inGrace>>]
  <2>1. tab' = [tab EXCEPT ![t] = u] /\ UNCHANGED <<session, cookie, issued, forked>>
    BY <1>0, <1>2 DEF Read, SessionInv
  <2>2. tab'[t] = u => Tab(t)' /\ TabReads(t)' /\ TabIsRefused(t)'
    <3>1. /\ next \in Stages /\ next \notin {"idle", "refused"}
          /\ (next = "shut" => revoked \/ expired)
          /\ tab[t].at # "idle"
      BY <1>2 DEF Read, Stages, SessionLive
    <3>2. <<current, previous, inGrace>> \in Rows
      BY <1>0 DEF Rows, SecretsInOrder
    <3> HIDE DEF next
    <3> DEFINE w == [tab[t] EXCEPT !.at = next]
    <3>v. w \in TabRecords /\ w.at = next /\ w.sent = tab[t].sent /\ w.new = tab[t].new
      BY <1>0, <3>1 DEF Tab, TabRecords
    <3>u. u = [w EXCEPT !.row = <<current, previous, inGrace>>]
      OBVIOUS
    <3> HIDE DEF u, w
    <3>3. /\ u \in TabRecords /\ u.at = next /\ u.row = <<current, previous, inGrace>>
          /\ u.sent = tab[t].sent /\ u.new = tab[t].new
      BY <3>2, <3>u, <3>v DEF TabRecords
    <3>4. /\ tab[t].new <= issued /\ tab[t].sent \in 1 .. issued /\ current = issued
          /\ issued \in Nat /\ (~forked => previous = current - 1)
      BY <1>0, <3>1 DEF SecretsInOrder, TabReads
    <3>5. tab'[t] = u => Tab(t)' /\ TabReads(t)'
      BY <2>1, <3>1, <3>3, <3>4 DEF Tab, TabReads
    <3>6. tab'[t] = u => TabIsRefused(t)'
      BY <2>1, <3>1, <3>3 DEF TabIsRefused
    <3> QED
      BY <3>5, <3>6
  <2> HIDE DEF u
  <2> QED
    BY <1>same, <1>tab, <2>1, <2>2
<1>3. ASSUME NEW t \in Tabs, AnswerReplay(t) PROVE SessionInv'
  <2> DEFINE u == [tab[t] EXCEPT !.at = "answered"]
  <2>1. tab' = [tab EXCEPT ![t] = u] /\ UNCHANGED <<session, cookie, issued, forked>>
    BY <1>0, <1>3 DEF AnswerReplay, SessionInv
  <2>2. tab'[t] = u => Tab(t)' /\ TabReads(t)' /\ TabIsRefused(t)'
    BY <1>0, <1>3, <2>1 DEF AnswerReplay, Tab, TabRecords, Stages, TabReads, TabIsRefused
  <2> HIDE DEF u
  <2> QED
    BY <1>same, <1>tab, <2>1, <2>2
<1>4. ASSUME NEW t \in Tabs, RevokeReplay(t) \/ RevokeEnded(t) PROVE SessionInv'
  <2> DEFINE u == [tab[t] EXCEPT !.at = "refused"]
  <2>1. /\ tab' = [tab EXCEPT ![t] = u] /\ tab[t].at = "refreshing" /\ revoked' = TRUE
        /\ UNCHANGED <<current, previous, inGrace, expired, cookie, issued, forked>>
    BY <1>4 DEF RevokeReplay, RevokeEnded
  <2>2. tab'[t] = u => Tab(t)' /\ TabReads(t)' /\ TabIsRefused(t)'
    BY <1>0, <2>1 DEF Tab, TabRecords, Stages, TabReads, TabIsRefused
  <2>3. Later
    BY <1>0, <2>1 DEF SecretsInOrder, Later
  <2> HIDE DEF u
  <2> QED
    BY <1>tab, <2>1, <2>2, <2>3
<1>5. ASSUME NEW t \in Tabs, RefuseUnknown(t) PROVE SessionInv'
  <2> DEFINE u == [tab[t] EXCEPT !.at = "refused"]
  <2>1. tab' = [tab EXCEPT ![t] = u] /\ UNCHANGED <<session, cookie, issued, forked>>
    BY <1>5 DEF RefuseUnknown
  <2>2. /\ tab[t].at = "refreshing" /\ tab[t].sent # tab[t].row[1]
        /\ tab[t].row[2] # None => tab[t].sent # tab[t].row[2]
    BY <1>5 DEF RefuseUnknown, IsCurrent, IsPrevious
  <2>3. ~forked => tab[t].sent < tab[t].row[2] /\ tab[t].sent # tab[t].row[2]
    BY <1>0, <2>2 DEF TabReads, Tab, TabRecords, Stages, Rows, None, SecretsInOrder
  <2>4. tab'[t] = u => Tab(t)' /\ TabReads(t)'
    BY <1>0, <2>1, <2>2 DEF Tab, TabRecords, Stages, TabReads
  <2>5. tab'[t] = u => TabIsRefused(t)'
    BY <1>0, <2>1, <2>2, <2>3 DEF Tab, TabRecords, Stages, TabIsRefused, IsPrevious
  <2> HIDE DEF u
  <2> QED
    BY <1>same, <1>tab, <2>1, <2>4, <2>5
<1>6. ASSUME NEW t \in Tabs, Rotate(t) PROVE SessionInv'
  <2> DEFINE u == [[tab[t] EXCEPT !.at = "answered"] EXCEPT !.new = issued + 1]
  <2>1. /\ tab' = [tab EXCEPT ![t] = u]
        /\ tab[t].at = "refreshing" /\ issued' = issued + 1
        /\ UNCHANGED <<revoked, expired, cookie>>
    BY <1>0, <1>6 DEF Rotate, SessionInv
  <2>2. /\ current' = issued + 1 /\ previous' = tab[t].row[1] /\ inGrace' = TRUE
        /\ forked' = (forked \/ tab[t].row[1] # current)
    BY <1>6 DEF Rotate
  <2>3. Later
    <3>1. /\ tab[t].row[1] \in Nat /\ issued \in Nat /\ issued >= 1 /\ cookie \in 0 .. issued
          /\ current = issued /\ revoked \in BOOLEAN /\ expired \in BOOLEAN
      BY <1>0 DEF SecretsInOrder, Tab, TabRecords, Rows
    <3>2. forked' \in BOOLEAN /\ (forked => forked') /\ (~forked' => tab[t].row[1] = current)
      BY <2>2
    <3>3. ~forked' => previous' = current' - 1
      BY <2>2, <3>1, <3>2
    <3>4. issued' \in Nat /\ issued' >= issued /\ issued' >= 1 /\ cookie' \in 0 .. issued'
      BY <2>1, <3>1
    <3> QED
      BY <2>1, <2>2, <3>1, <3>2, <3>3, <3>4 DEF SecretsInOrder, Later
  <2>4. tab'[t] = u => Tab(t)' /\ TabReads(t)' /\ TabIsRefused(t)'
    <3>1. issued + 1 \in Nat /\ "answered" \in Stages
      BY <1>0 DEF SecretsInOrder, Stages
    <3> DEFINE w == [tab[t] EXCEPT !.at = "answered"]
    <3>v. w \in TabRecords /\ w.at = "answered" /\ w.sent = tab[t].sent
      BY <1>0, <3>1 DEF Tab, TabRecords
    <3>u. u = [w EXCEPT !.new = issued + 1]
      OBVIOUS
    <3> HIDE DEF u, w
    <3>2. /\ u \in TabRecords /\ u.at = "answered" /\ u.new = issued + 1
          /\ u.sent = tab[t].sent
      BY <3>1, <3>u, <3>v DEF TabRecords
    <3>3. tab[t].sent \in 1 .. issued /\ issued \in Nat
      BY <1>0, <2>1 DEF TabReads, SecretsInOrder
    <3> QED
      BY <2>1, <3>2, <3>3 DEF Tab, TabReads, TabIsRefused
  <2> HIDE DEF u
  <2> QED
    BY <1>tab, <2>1, <2>2, <2>3, <2>4
<1>7. ASSUME NEW t \in Tabs, SignOut(t) PROVE SessionInv'
  <2> DEFINE u == [tab[t] EXCEPT !.at = "left"]
  <2>1. /\ tab' = [tab EXCEPT ![t] = u] /\ tab[t].at = "leaving" /\ (revoked => revoked')
        /\ UNCHANGED <<current, previous, inGrace, cookie, issued, forked>>
    BY <1>7 DEF SignOut
  <2>2. tab'[t] = u => Tab(t)' /\ TabReads(t)' /\ TabIsRefused(t)'
    BY <1>0, <2>1 DEF Tab, TabRecords, Stages, TabReads, TabIsRefused
  <2>3. Later
    BY <1>0, <1>7, <2>1 DEF SecretsInOrder, Later, SignOut, IsCurrent, IsPrevious, Tab, TabRecords, Stages, Rows
  <2> HIDE DEF u
  <2> QED
    BY <1>tab, <2>1, <2>2, <2>3
<1>8. ASSUME NEW t \in Tabs, Receive(t) PROVE SessionInv'
  <2>1. tab' = [tab EXCEPT ![t] = Idle] /\ UNCHANGED <<session, issued, forked>>
    BY <1>8 DEF Receive
  <2>2. tab'[t] = Idle => Tab(t)' /\ TabReads(t)' /\ TabIsRefused(t)'
    BY <1>0, <2>1, IdleIsEmpty DEF Tab, TabReads, TabIsRefused, SecretsInOrder
  <2>3. cookie' \in {None, tab[t].new, cookie}
    BY <1>8 DEF Receive
  <2>4. Later
    BY <1>0, <2>1, <2>3 DEF SecretsInOrder, Later, Tab, TabRecords, Stages, TabReads, None
  <2> QED
    BY <1>tab, <2>1, <2>2, <2>4
<1>9. ASSUME RevokeAll \/ GraceRunsOut \/ Expire \/ SessionRunsOut \/ UNCHANGED refreshVars
      PROVE  SessionInv'
  <2>1. /\ UNCHANGED <<current, previous, cookie, issued, tab, forked>>
        /\ (revoked => revoked') /\ revoked' \in BOOLEAN /\ inGrace' \in BOOLEAN
        /\ (expired => expired') /\ expired' \in BOOLEAN
    BY <1>0, <1>9 DEF RevokeAll, GraceRunsOut, Expire, SessionRunsOut, refreshVars, SecretsInOrder
  <2>2. Later
    BY <1>0, <2>1 DEF SecretsInOrder, Later
  <2> QED
    BY <1>row, <2>1, <2>2
<1> QED
  BY <1>1, <1>2, <1>3, <1>4, <1>5, <1>6, <1>7, <1>8, <1>9 DEF RefreshNext, Answer

\* However late the answers arrive and in whatever order, the session's secrets
\* are drawn one after the other and every tab sent one of them
\* (session_logic.refresh).
THEOREM SessionInvariant == RefreshSpec => []SessionInv
<1>1. RefreshInit => SessionInv
  <2> SUFFICES ASSUME RefreshInit PROVE SessionInv
    OBVIOUS
  <2> USE DEF RefreshInit
  <2>2. \A t \in Tabs : tab[t] = Idle
    OBVIOUS
  <2>3. \A t \in Tabs : Tab(t) /\ TabReads(t) /\ TabIsRefused(t)
    BY <2>2, IdleIsEmpty DEF Tab, TabReads, TabIsRefused
  <2>4. issued = 1 /\ cookie = 1 /\ current = 1 /\ previous = 0
    BY DEF None
  <2>5. inGrace \in BOOLEAN /\ revoked \in BOOLEAN /\ expired \in BOOLEAN /\ forked \in BOOLEAN
    OBVIOUS
  <2> HIDE DEF RefreshInit
  <2>6. SecretsInOrder
    BY <2>4, <2>5 DEF SecretsInOrder
  <2> QED
    BY <2>3, <2>6 DEF SessionInv, RefreshInit
<1> QED
  BY <1>1, SessionInvKept, PTL DEF RefreshSpec

\* While no two rotations start from one secret, no tab is turned away from a
\* live session for the secret it had or the one before; and whoever found it live and
\* is refused for the one before has ended it (REFRESH_REPLAY_GRACE_SECONDS).
THEOREM TabsKeepTheirSession == RefreshSpec => []GraceWindowHolds
<1>1. SessionInv => GraceWindowHolds
  <2> SUFFICES ASSUME SessionInv, NEW t \in Tabs
               PROVE  /\ ~forked => ~WronglyRefused(t)
                      /\ tab[t].at = "refused" /\ IsPrevious(t) => revoked
    BY DEF GraceWindowHolds
  <2>1. Tab(t) /\ TabIsRefused(t)
    BY DEF SessionInv
  <2>2. tab[t].sent \in Nat /\ tab[t].row[2] \in Nat
    BY <2>1 DEF Tab, TabRecords, Rows
  <2> QED
    BY <2>1, <2>2 DEF TabIsRefused, WronglyRefused, SessionLive
<1> QED
  BY <1>1, SessionInvariant, PTL

-----------------------------------------------------------------------------
(* The way in.  A code's row is locked while its guess is answered, the    *)
(* passkeys while one of them is removed.                                  *)

EnrolCalls ==
  {NoEntry}
  \cup [at : {"issuing"}, saw : SUBSET Codes]
  \cup [at : {"read", "claimed"}, code : Codes, right : BOOLEAN, saw : Nat, invited : BOOLEAN]
  \cup [at : {"counting", "counted"}, of : Passkeys, saw : SUBSET Passkeys]

CodeRows == [state : {"none", "open", "consumed"}, attempts : Nat]

EnrolTypeOK ==
  /\ invite \in [no : Nat, open : BOOLEAN, member : BOOLEAN]
  /\ passkey \in [Passkeys -> {"none", "live", "retired"}]
  /\ code \in [Codes -> CodeRows] /\ IsFiniteSet(OpenCodes)
  /\ call \in [Calls -> EnrolCalls]
  /\ judged \in [Codes -> Nat] /\ opened \in [Codes -> Nat]

\* Every guess answered was counted first, and the one being answered too.
GuessesAreCounted ==
  \A c \in Codes :
    /\ judged[c] <= code[c].attempts /\ code[c].attempts <= MaxAttempts
    /\ CodeHeld(c) => judged[c] < code[c].attempts

\* A code being answered is open and nobody else answers it; one that has
\* opened a session is used up.
OneAnswerAtATime ==
  /\ \A q \in Calls : call[q].at = "claimed" => code[call[q].code].state = "open"
  /\ \A q, r \in Calls :
       call[q].at = "claimed" /\ call[r].at = "claimed" /\ call[q].code = call[r].code => q = r
  /\ \A c \in Codes : opened[c] = 0 \/ (opened[c] = 1 /\ code[c].state = "consumed")

CodesInv == EnrolTypeOK /\ GuessesAreCounted /\ OneAnswerAtATime

\* A removal holds another passkey beside the one it removes, and what it
\* holds no other removal does.
Keeps(q) ==
  /\ call[q].at = "counting" => call[q].of \in call[q].saw
  /\ call[q].at = "counted" =>
       call[q].of \in call[q].saw /\ call[q].saw # {call[q].of} /\ call[q].saw \subseteq Live

PasskeysInv ==
  /\ \A q \in Calls : Keeps(q)
  /\ \A q, r \in Calls :
       call[q].at = "counted" /\ call[r].at = "counted" /\ q # r => call[q].saw \cap call[r].saw = {}

\* The codes have a first unused and a newest open one, whichever those are.
LEMMA LeastIsIn ==
  ASSUME NEW S \in SUBSET Nat, S # {}
  PROVE  Min(S) \in S
<1> DEFINE Below == {0 .. n : n \in S}
<1>1. ASSUME NEW n \in S PROVE 0 .. n \in FiniteSubsetsOf(Nat)
  BY FS_Interval DEF FiniteSubsetsOf
<1>2. Below \subseteq FiniteSubsetsOf(Nat) /\ Below # {}
  BY <1>1
<1>3. PICK B \in Below : \A C \in Below : ~ (<<C, B>> \in StrictSubsetOrdering(Nat))
  <2> HIDE DEF Below
  <2> QED
    BY <1>2, FS_StrictSubsetOrderingWellFounded, WFMin
<1>4. PICK m \in S : B = 0 .. m
  OBVIOUS
<1>5. ASSUME NEW n \in S, n < m PROVE FALSE
  <2>1. 0 .. n \in Below /\ 0 .. n \subseteq 0 .. m /\ m \in 0 .. m /\ m \notin 0 .. n
    BY <1>5
  <2>2. <<0 .. n, 0 .. m>> \in StrictSubsetOrdering(Nat)
    BY <2>1 DEF StrictSubsetOrdering
  <2> QED
    BY <2>1, <2>2, <1>3, <1>4
<1>6. \A n \in S : m <= n
  BY <1>5
<1> QED
  BY <1>6 DEF Min

LEMMA GreatestIsIn ==
  ASSUME NEW S \in SUBSET Nat, S # {}, IsFiniteSet(S)
  PROVE  Max(S) \in S
<1> DEFINE Above(n) == {k \in S : k > n}
           Sets == {Above(n) : n \in S}
<1>1. ASSUME NEW n \in S PROVE Above(n) \in FiniteSubsetsOf(Nat)
  BY FS_Subset DEF FiniteSubsetsOf
<1>2. Sets \subseteq FiniteSubsetsOf(Nat) /\ Sets # {}
  <2> HIDE DEF Above
  <2> QED
    BY <1>1
<1>3. PICK A \in Sets : \A C \in Sets : ~ (<<C, A>> \in StrictSubsetOrdering(Nat))
  <2> HIDE DEF Sets
  <2> QED
    BY <1>2, FS_StrictSubsetOrderingWellFounded, WFMin
<1>4. PICK m \in S : A = Above(m)
  OBVIOUS
<1>5. ASSUME NEW n \in S, n > m PROVE FALSE
  <2>1. Above(n) \subseteq Above(m) /\ n \in Above(m) /\ n \notin Above(n) /\ Above(m) \subseteq Nat
    <3>1. n \in Nat /\ m \in Nat /\ \A k \in S : k \in Nat /\ (k > n => k > m)
      BY <1>5
    <3>2. n \in Above(m)
      BY <1>5
    <3>3. n \notin Above(n)
      BY <3>1
    <3>4. Above(n) \subseteq Above(m) /\ Above(m) \subseteq Nat
      BY <3>1
    <3> QED
      BY <3>2, <3>3, <3>4
  <2> HIDE DEF Above
  <2>2. Above(n) \in Sets
    OBVIOUS
  <2> HIDE DEF Sets
  <2>3. <<Above(n), Above(m)>> \in StrictSubsetOrdering(Nat)
    BY <2>1 DEF StrictSubsetOrdering
  <2> QED
    BY <2>2, <2>3, <1>3, <1>4
<1>6. \A n \in S : m >= n
  BY <1>5
<1> QED
  BY <1>6 DEF Max

\* What a running request has read, by where it stands.
LEMMA CallHas ==
  ASSUME EnrolTypeOK, NEW q \in Calls
  PROVE  /\ call[q].at \in {"idle", "issuing", "read", "claimed", "counting", "counted"}
         /\ call[q].at = "issuing" => call[q].saw \subseteq Codes
         /\ call[q].at \in {"read", "claimed"} =>
              call[q] \in [at : {"read", "claimed"}, code : Codes, right : BOOLEAN, saw : Nat, invited : BOOLEAN]
         /\ call[q].at \in {"counting", "counted"} =>
              call[q] \in [at : {"counting", "counted"}, of : Passkeys, saw : SUBSET Passkeys]
<1>1. call[q] \in EnrolCalls
  BY DEF EnrolTypeOK
<1>2. CASE call[q] = NoEntry
  BY <1>2 DEF NoEntry
<1>3. CASE call[q] \in [at : {"issuing"}, saw : SUBSET Codes]
  BY <1>3
<1>4. CASE call[q] \in [at : {"read", "claimed"}, code : Codes, right : BOOLEAN, saw : Nat, invited : BOOLEAN]
  BY <1>4
<1>5. CASE call[q] \in [at : {"counting", "counted"}, of : Passkeys, saw : SUBSET Passkeys]
  BY <1>5
<1> QED
  BY <1>1, <1>2, <1>3, <1>4, <1>5 DEF EnrolCalls

LEMMA OneCallMoves ==
  ASSUME EnrolTypeOK, NEW q \in Calls, NEW u \in EnrolCalls, call' = [call EXCEPT ![q] = u]
  PROVE  /\ call' \in [Calls -> EnrolCalls] /\ call'[q] = u
         /\ \A r \in Calls \ {q} : call'[r] = call[r]
  BY DEF EnrolTypeOK

LEMMA NoEntryIsIdle == NoEntry \in EnrolCalls /\ NoEntry.at = "idle"
  BY DEF NoEntry, EnrolCalls

\* A step that touches no code and begins no answer leaves them as they were.
LEMMA CodesRest ==
  ASSUME CodesInv, UNCHANGED <<code, judged, opened>>,
         invite' \in [no : Nat, open : BOOLEAN, member : BOOLEAN],
         passkey' \in [Passkeys -> {"none", "live", "retired"}], call' \in [Calls -> EnrolCalls],
         \A r \in Calls : call'[r].at = "claimed" => call'[r] = call[r]
  PROVE  CodesInv'
<1>1. EnrolTypeOK /\ GuessesAreCounted /\ OneAnswerAtATime
  BY DEF CodesInv
<1>2. EnrolTypeOK'
  BY <1>1 DEF EnrolTypeOK, OpenCodes
<1>3. \A c \in Codes : CodeHeld(c)' => CodeHeld(c)
  BY DEF CodeHeld
<1>4. GuessesAreCounted'
  BY <1>1, <1>3 DEF GuessesAreCounted
<1>5. OneAnswerAtATime'
  BY <1>1 DEF OneAnswerAtATime
<1> QED
  BY <1>2, <1>4, <1>5 DEF CodesInv

LEMMA CodeIsIssued ==
  ASSUME CodesInv, NEW q \in Calls, IssueCode(q)
  PROVE  CodesInv'
<1> DEFINE unused == {c \in Codes : code[c].state = "none"}
<1>0. EnrolTypeOK /\ GuessesAreCounted /\ OneAnswerAtATime
  BY DEF CodesInv
<1>1. PICK n \in Codes : n = Min(unused) /\ code[n].state = "none"
  BY LeastIsIn, EnrolmentAssumption DEF IssueCode
<1> DEFINE row(c) == IF c = n THEN [code[c] EXCEPT !.state = "open"]
                     ELSE IF c \in call[q].saw THEN [code[c] EXCEPT !.state = "consumed"] ELSE code[c]
<1>2. code' = [c \in Codes |-> row(c)]
  BY <1>1 DEF IssueCode
<1>3. ASSUME NEW c \in Codes
      PROVE  /\ row(c) \in CodeRows /\ row(c).attempts = code[c].attempts
             /\ c = n => row(c).state = "open"
             /\ c # n => row(c).state \in {code[c].state, "consumed"}
             /\ c # n /\ CodeHeld(c) => row(c) = code[c]
  <2>1. code[c] \in CodeRows
    BY <1>0 DEF EnrolTypeOK
  <2>2. CodeHeld(c) => c \notin call[q].saw
    BY DEF IssueCode
  <2> QED
    BY <2>1, <2>2 DEF CodeRows
<1> HIDE DEF row
<1>4. \A c \in Codes :
        /\ code'[c] \in CodeRows /\ code'[c].attempts = code[c].attempts
        /\ c = n => code'[c].state = "open"
        /\ c # n => code'[c].state \in {code[c].state, "consumed"}
        /\ c # n /\ CodeHeld(c) => code'[c] = code[c]
  BY <1>2, <1>3
<1>5. UNCHANGED <<invite, passkey, judged, opened>> /\ call' = [call EXCEPT ![q] = NoEntry]
  BY DEF IssueCode
<1>6. /\ call' \in [Calls -> EnrolCalls] /\ call'[q].at = "idle"
      /\ \A r \in Calls \ {q} : call'[r] = call[r]
  BY <1>0, <1>5, OneCallMoves, NoEntryIsIdle
<1>7. EnrolTypeOK'
  <2>1. OpenCodes' \subseteq OpenCodes \cup {n}
    BY <1>4 DEF OpenCodes
  <2>2. IsFiniteSet(OpenCodes \cup {n})
    BY <1>0, FS_AddElement DEF EnrolTypeOK
  <2>3. IsFiniteSet(OpenCodes')
    BY <2>1, <2>2, FS_Subset
  <2>4. code' \in [Codes -> CodeRows]
    BY <1>2, <1>3
  <2> QED
    BY <1>0, <1>5, <1>6, <2>3, <2>4 DEF EnrolTypeOK
<1>8. \A r \in Calls : call'[r].at = "claimed" => r # q /\ call'[r] = call[r]
  BY <1>6
<1>9. \A r \in Calls : call[r].at = "claimed" => call[r].code \in Codes \ {n}
  BY <1>0, <1>1, CallHas DEF OneAnswerAtATime
<1>10. GuessesAreCounted'
  <2>1. \A c \in Codes : CodeHeld(c)' => CodeHeld(c)
    BY <1>8 DEF CodeHeld
  <2> QED
    BY <1>0, <1>4, <1>5, <2>1 DEF GuessesAreCounted
<1>11. OneAnswerAtATime'
  <2>1. ASSUME NEW r \in Calls, call'[r].at = "claimed" PROVE code'[call'[r].code].state = "open"
    <3>1. CodeHeld(call[r].code)
      BY <1>8, <2>1 DEF CodeHeld
    <3> QED
      BY <1>0, <1>4, <1>8, <1>9, <2>1, <3>1 DEF OneAnswerAtATime
  <2>2. \A c \in Codes : opened'[c] = 0 \/ (opened'[c] = 1 /\ code'[c].state = "consumed")
    BY <1>0, <1>1, <1>4, <1>5 DEF OneAnswerAtATime
  <2>3. \A r, s \in Calls :
          call'[r].at = "claimed" /\ call'[s].at = "claimed" /\ call'[r].code = call'[s].code => r = s
    BY <1>0, <1>8 DEF OneAnswerAtATime
  <2> QED
    BY <2>1, <2>2, <2>3 DEF OneAnswerAtATime
<1> QED
  BY <1>7, <1>10, <1>11 DEF CodesInv

LEMMA AttemptIsClaimed ==
  ASSUME CodesInv, NEW q \in Calls, ClaimAttempt(q)
  PROVE  CodesInv'
<1>0. EnrolTypeOK /\ GuessesAreCounted /\ OneAnswerAtATime
  BY DEF CodesInv
<1>1. /\ call[q] \in [at : {"read", "claimed"}, code : Codes, right : BOOLEAN, saw : Nat, invited : BOOLEAN]
      /\ UNCHANGED <<invite, passkey, judged, opened>>
  BY <1>0, CallHas DEF ClaimAttempt
<1>2. PICK c \in Codes : c = call[q].code
  BY <1>1
<1>3. ~CodeHeld(c)
  BY <1>2 DEF ClaimAttempt
<1>4. CASE code[c].state = "open" /\ Counted(q) <= MaxAttempts
  <2> DEFINE u == [call[q] EXCEPT !.at = "claimed"]
             rec == [code[c] EXCEPT !.attempts = code[c].attempts + 1]
  <2>1. call' = [call EXCEPT ![q] = u] /\ code' = [code EXCEPT ![c] = rec]
    BY <1>2, <1>4 DEF ClaimAttempt, Counted
  <2>2. u \in EnrolCalls /\ u.at = "claimed" /\ u.code = c
    BY <1>1, <1>2 DEF EnrolCalls
  <2>3. /\ code[c] \in CodeRows /\ rec \in CodeRows /\ rec.state = "open"
        /\ rec.attempts = code[c].attempts + 1 /\ rec.attempts <= MaxAttempts
    BY <1>0, <1>2, <1>4 DEF EnrolTypeOK, CodeRows, Counted
  <2> HIDE DEF u, rec
  <2>4. /\ call' \in [Calls -> EnrolCalls] /\ call'[q] = u
        /\ \A r \in Calls \ {q} : call'[r] = call[r]
    BY <1>0, <2>1, <2>2, OneCallMoves
  <2>5. code' \in [Codes -> CodeRows] /\ code'[c] = rec /\ \A d \in Codes \ {c} : code'[d] = code[d]
    BY <1>0, <2>1, <2>3 DEF EnrolTypeOK
  <2>6. OpenCodes' = OpenCodes
    BY <1>4, <2>3, <2>5 DEF OpenCodes
  <2>7. EnrolTypeOK'
    BY <1>0, <1>1, <2>4, <2>5, <2>6 DEF EnrolTypeOK
  <2>8. \A r \in Calls : call[r].at = "claimed" => call[r].code # c /\ call[r].code \in Codes
    BY <1>0, <1>3, CallHas DEF CodeHeld
  <2>9. \A d \in Codes \ {c} : CodeHeld(d)' => CodeHeld(d)
    BY <2>2, <2>4 DEF CodeHeld
  <2>10. judged'[c] <= code[c].attempts /\ judged[c] \in Nat /\ code[c].attempts \in Nat
    BY <1>0, <1>1, <2>3 DEF GuessesAreCounted, EnrolTypeOK, CodeRows
  <2>11. judged'[c] <= rec.attempts /\ judged'[c] < rec.attempts
    BY <1>1, <2>3, <2>10
  <2>12. GuessesAreCounted'
    <3>1. ASSUME NEW d \in Codes, d # c
          PROVE  /\ judged'[d] <= code'[d].attempts /\ code'[d].attempts <= MaxAttempts
                 /\ CodeHeld(d)' => judged'[d] < code'[d].attempts
      BY <1>0, <1>1, <2>5, <2>9, <3>1 DEF GuessesAreCounted
    <3>2. judged'[c] <= code'[c].attempts /\ code'[c].attempts <= MaxAttempts /\ judged'[c] < code'[c].attempts
      BY <2>3, <2>5, <2>11
    <3> QED
      BY <3>1, <3>2 DEF GuessesAreCounted
  <2>13. OneAnswerAtATime'
    <3>1. \A r \in Calls : call'[r].at = "claimed" => code'[call'[r].code].state = "open"
      BY <1>0, <2>2, <2>3, <2>4, <2>5, <2>8 DEF OneAnswerAtATime
    <3>2. \A r, s \in Calls :
            call'[r].at = "claimed" /\ call'[s].at = "claimed" /\ call'[r].code = call'[s].code => r = s
      BY <1>0, <2>2, <2>4, <2>8 DEF OneAnswerAtATime
    <3>3. \A d \in Codes : opened'[d] = 0 \/ (opened'[d] = 1 /\ code'[d].state = "consumed")
      BY <1>0, <1>1, <1>4, <2>5 DEF OneAnswerAtATime
    <3> QED
      BY <3>1, <3>2, <3>3 DEF OneAnswerAtATime
  <2> QED
    BY <2>7, <2>12, <2>13 DEF CodesInv
<1>5. CASE ~(code[c].state = "open" /\ Counted(q) <= MaxAttempts)
  <2>1. call' = [call EXCEPT ![q] = NoEntry] /\ UNCHANGED code
    BY <1>2, <1>5 DEF ClaimAttempt
  <2>2. /\ call' \in [Calls -> EnrolCalls] /\ call'[q].at = "idle"
        /\ \A r \in Calls \ {q} : call'[r] = call[r]
    BY <1>0, <2>1, OneCallMoves, NoEntryIsIdle
  <2> QED
    BY <1>0, <1>1, <2>1, <2>2, CodesRest DEF EnrolTypeOK
<1> QED
  BY <1>4, <1>5

LEMMA GuessIsAnswered ==
  ASSUME CodesInv, NEW q \in Calls, AnswerGuess(q)
  PROVE  CodesInv'
<1>0. EnrolTypeOK /\ GuessesAreCounted /\ OneAnswerAtATime
  BY DEF CodesInv
<1>1. /\ call[q] \in [at : {"read", "claimed"}, code : Codes, right : BOOLEAN, saw : Nat, invited : BOOLEAN]
      /\ call[q].at = "claimed" /\ UNCHANGED <<invite, passkey>>
      /\ call' = [call EXCEPT ![q] = NoEntry]
  BY <1>0, CallHas DEF AnswerGuess
<1>2. PICK c \in Codes : c = call[q].code
  BY <1>1
<1>3. /\ call' \in [Calls -> EnrolCalls] /\ call'[q].at = "idle"
      /\ \A r \in Calls \ {q} : call'[r] = call[r]
  BY <1>0, <1>1, OneCallMoves, NoEntryIsIdle
<1>4. code[c].state = "open" /\ opened[c] = 0 /\ code[c] \in CodeRows /\ CodeHeld(c)
  BY <1>0, <1>1, <1>2 DEF OneAnswerAtATime, EnrolTypeOK, CodeHeld
<1> DEFINE rec == IF call[q].right THEN [code[c] EXCEPT !.state = "consumed"] ELSE code[c]
           opens == call[q].right /\ call[q].invited /\ Live = {}
<1>5. /\ rec \in CodeRows /\ rec.attempts = code[c].attempts
      /\ rec.state \in {"open", "consumed"} /\ (opens => rec.state = "consumed")
  BY <1>4 DEF CodeRows
<1>6. code' \in [Codes -> CodeRows] /\ code'[c] = rec /\ \A d \in Codes \ {c} : code'[d] = code[d]
  <2>1. CASE call[q].right
    <3>1. code' = [code EXCEPT ![c] = rec]
      BY <1>2, <2>1 DEF AnswerGuess
    <3> QED
      BY <1>0, <1>5, <3>1 DEF EnrolTypeOK
  <2>2. CASE ~call[q].right
    <3>1. code' = code
      BY <2>2 DEF AnswerGuess
    <3> QED
      BY <1>0, <2>2, <3>1 DEF EnrolTypeOK
  <2> QED
    BY <2>1, <2>2
<1>7. /\ judged' \in [Codes -> Nat] /\ judged'[c] = judged[c] + 1
      /\ \A d \in Codes \ {c} : judged'[d] = judged[d]
  BY <1>0, <1>2 DEF AnswerGuess, EnrolTypeOK
<1>8. /\ opened' \in [Codes -> Nat]
      /\ opened'[c] = 0 \/ (opened'[c] = 1 /\ opens)
      /\ \A d \in Codes \ {c} : opened'[d] = opened[d]
  <2>1. opened' = IF opens THEN [opened EXCEPT ![c] = opened[c] + 1] ELSE opened
    BY <1>2 DEF AnswerGuess
  <2> HIDE DEF opens
  <2> QED
    BY <1>0, <1>4, <2>1 DEF EnrolTypeOK
<1> HIDE DEF rec, opens
<1>9. EnrolTypeOK'
  <2>1. OpenCodes' \subseteq OpenCodes
    BY <1>4, <1>6 DEF OpenCodes
  <2>2. IsFiniteSet(OpenCodes')
    BY <1>0, <2>1, FS_Subset DEF EnrolTypeOK
  <2> QED
    BY <1>0, <1>1, <1>3, <1>6, <1>7, <1>8, <2>2 DEF EnrolTypeOK
<1>10. \A r \in Calls : call'[r].at = "claimed" =>
         r # q /\ call'[r] = call[r] /\ call[r].code \in Codes \ {c}
  <2>1. ASSUME NEW r \in Calls, r # q, call[r].at = "claimed" PROVE call[r].code \in Codes \ {c}
    BY <1>0, <1>1, <1>2, <2>1, CallHas DEF OneAnswerAtATime
  <2> QED
    BY <1>3, <2>1
<1>11. ~CodeHeld(c)' /\ \A d \in Codes : CodeHeld(d)' => CodeHeld(d)
  BY <1>10 DEF CodeHeld
<1>12. GuessesAreCounted'
  <2>1. /\ judged[c] < code[c].attempts /\ code[c].attempts <= MaxAttempts
        /\ judged[c] \in Nat /\ code[c].attempts \in Nat
    BY <1>0, <1>4 DEF GuessesAreCounted, EnrolTypeOK, CodeRows
  <2>2. judged'[c] <= code'[c].attempts /\ code'[c].attempts <= MaxAttempts
    BY <1>5, <1>6, <1>7, <2>1
  <2> QED
    BY <1>0, <1>6, <1>7, <1>11, <2>2 DEF GuessesAreCounted
<1>13. OneAnswerAtATime'
  <2>1. \A r \in Calls : call'[r].at = "claimed" => code'[call'[r].code].state = "open"
    BY <1>0, <1>6, <1>10 DEF OneAnswerAtATime
  <2>2. \A r, s \in Calls :
          call'[r].at = "claimed" /\ call'[s].at = "claimed" /\ call'[r].code = call'[s].code => r = s
    BY <1>0, <1>10 DEF OneAnswerAtATime
  <2>3. \A d \in Codes : opened'[d] = 0 \/ (opened'[d] = 1 /\ code'[d].state = "consumed")
    BY <1>0, <1>5, <1>6, <1>8 DEF OneAnswerAtATime
  <2> QED
    BY <2>1, <2>2, <2>3 DEF OneAnswerAtATime
<1> QED
  BY <1>9, <1>12, <1>13 DEF CodesInv

\* Nobody gets more guesses at a code than it allows, however many are sent at
\* once, and one right answer opens one session (_claim_attempt, _verify).
THEOREM CodesInvariant == EnrolSpec => []CodesInv
<1>1. EnrolInit => CodesInv
  <2> SUFFICES ASSUME EnrolInit PROVE CodesInv
    OBVIOUS
  <2> USE DEF EnrolInit
  <2>1. NoEntry \in EnrolCalls /\ \A q \in Calls : call[q].at = "idle"
    BY NoEntryIsIdle
  <2>2. OpenCodes = {} /\ IsFiniteSet({})
    BY FS_EmptySet DEF OpenCodes
  <2>3. EnrolTypeOK
    BY <2>1, <2>2 DEF EnrolTypeOK, CodeRows
  <2>4. \A c \in Codes : ~CodeHeld(c)
    BY <2>1 DEF CodeHeld
  <2>5. GuessesAreCounted
    BY <2>4, EnrolmentAssumption DEF GuessesAreCounted
  <2>6. OneAnswerAtATime
    BY <2>1 DEF OneAnswerAtATime
  <2> QED
    BY <2>3, <2>5, <2>6 DEF CodesInv
<1>2. ASSUME CodesInv, [EnrolNext]_enrolVars PROVE CodesInv'
  <2>0. EnrolTypeOK
    BY <1>2 DEF CodesInv
  <2>begin. ASSUME NEW q \in Calls, NEW u \in EnrolCalls, u.at # "claimed", BeginCall(q, u)
            PROVE  CodesInv'
    <3>1. /\ call' \in [Calls -> EnrolCalls] /\ call'[q] = u
          /\ \A r \in Calls \ {q} : call'[r] = call[r]
          /\ UNCHANGED <<code, judged, opened, invite, passkey>>
      BY <2>0, <2>begin, OneCallMoves DEF BeginCall
    <3> QED
      BY <1>2, <2>0, <2>begin, <3>1, CodesRest DEF EnrolTypeOK
  <2>1. ASSUME NEW q \in Calls, BeginIssue(q) PROVE CodesInv'
    <3> DEFINE u == [at |-> "issuing", saw |-> OpenCodes]
    <3>1. u \in EnrolCalls /\ u.at = "issuing" /\ BeginCall(q, u)
      BY <2>1 DEF BeginIssue, EnrolCalls, OpenCodes
    <3> HIDE DEF u
    <3> QED
      BY <2>begin, <3>1
  <2>2. ASSUME NEW q \in Calls, NEW right \in BOOLEAN, BeginGuess(q, right) PROVE CodesInv'
    <3>1. PICK c \in Codes : c = Max(OpenCodes)
      BY <2>0, <2>2, EnrolmentAssumption, GreatestIsIn DEF BeginGuess, OpenCodes, EnrolTypeOK
    <3> DEFINE u == [at |-> "read", code |-> c, right |-> right,
                     saw |-> code[c].attempts, invited |-> invite.open]
    <3>2. code[c].attempts \in Nat /\ invite.open \in BOOLEAN
      BY <2>0 DEF EnrolTypeOK, CodeRows
    <3>3. u \in EnrolCalls /\ u.at = "read"
      BY <3>2 DEF EnrolCalls
    <3>4. BeginCall(q, u)
      BY <2>2, <3>1 DEF BeginGuess
    <3> HIDE DEF u
    <3> QED
      BY <2>begin, <3>3, <3>4
  <2>3. ASSUME NEW q \in Calls, NEW p \in Passkeys, BeginRemoval(q, p) PROVE CodesInv'
    <3> DEFINE u == [at |-> "counting", of |-> p, saw |-> Live]
    <3>1. u \in EnrolCalls /\ u.at = "counting" /\ BeginCall(q, u)
      BY <2>3 DEF BeginRemoval, EnrolCalls, Live
    <3> HIDE DEF u
    <3> QED
      BY <2>begin, <3>1
  <2>4. ASSUME NEW q \in Calls, CountPasskeys(q) \/ RemovePasskey(q) PROVE CodesInv'
    <3>1. PICK u \in EnrolCalls : call' = [call EXCEPT ![q] = u] /\ u.at # "claimed"
      <4>1. CASE RemovePasskey(q)
        BY <4>1, NoEntryIsIdle DEF RemovePasskey
      <4>2. CASE CountPasskeys(q)
        <5> DEFINE seen == call[q].saw \cap Live
                   w == [call[q] EXCEPT !.at = "counted"]
                   u == [w EXCEPT !.saw = seen]
        <5>1. call[q] \in [at : {"counting", "counted"}, of : Passkeys, saw : SUBSET Passkeys]
          BY <2>0, <4>2, CallHas DEF CountPasskeys
        <5>2. w \in [at : {"counting", "counted"}, of : Passkeys, saw : SUBSET Passkeys] /\ w.at = "counted"
          BY <5>1
        <5>3. seen \in SUBSET Passkeys
          BY DEF Live
        <5> HIDE DEF seen, w
        <5>4. u \in [at : {"counting", "counted"}, of : Passkeys, saw : SUBSET Passkeys] /\ u.at = "counted"
          BY <5>2, <5>3
        <5> HIDE DEF u
        <5>5. u \in EnrolCalls /\ u.at # "claimed"
          BY <5>4 DEF EnrolCalls
        <5>6. call' = [call EXCEPT ![q] = u] \/ call' = [call EXCEPT ![q] = NoEntry]
          BY <2>0, <4>2 DEF CountPasskeys, EnrolTypeOK, seen, w, u
        <5> QED
          BY <5>5, <5>6, NoEntryIsIdle
      <4> QED
        BY <2>4, <4>1, <4>2
    <3>2. passkey' \in [Passkeys -> {"none", "live", "retired"}]
      BY <2>0, <2>4 DEF CountPasskeys, RemovePasskey, EnrolTypeOK
    <3>3. UNCHANGED <<code, judged, opened, invite>>
      BY <2>4 DEF CountPasskeys, RemovePasskey
    <3>4. /\ call' \in [Calls -> EnrolCalls] /\ call'[q] = u
          /\ \A r \in Calls \ {q} : call'[r] = call[r]
      BY <2>0, <3>1, OneCallMoves
    <3> QED
      BY <1>2, <2>0, <3>1, <3>2, <3>3, <3>4, CodesRest DEF EnrolTypeOK
  <2>5. ASSUME UNCHANGED <<code, judged, opened, call>>,
               invite' \in [no : Nat, open : BOOLEAN, member : BOOLEAN],
               passkey' \in [Passkeys -> {"none", "live", "retired"}]
        PROVE  CodesInv'
    BY <1>2, <2>0, <2>5, CodesRest DEF EnrolTypeOK
  <2>6. ASSUME NEW s \in Codes \cup {Full}, NEW p \in Passkeys, RegisterPasskey(s, p) PROVE CodesInv'
    <3>1. /\ UNCHANGED <<code, judged, opened, call>> /\ passkey' = [passkey EXCEPT ![p] = "live"]
      BY <2>6 DEF RegisterPasskey
    <3>2. invite' \in [no : Nat, open : BOOLEAN, member : BOOLEAN]
      BY <2>0, <2>6 DEF RegisterPasskey, EnrolTypeOK
    <3> QED
      BY <2>0, <2>5, <3>1, <3>2 DEF EnrolTypeOK
  <2>7. ASSUME ReissueEnrolment \/ CloseInvitation PROVE CodesInv'
    <3>1. UNCHANGED <<code, judged, opened, call>>
      BY <2>7 DEF ReissueEnrolment, CloseInvitation
    <3>2. invite' \in [no : Nat, open : BOOLEAN, member : BOOLEAN] /\ passkey' \in [Passkeys -> {"none", "live", "retired"}]
      <4>1. CASE ReissueEnrolment
        <5>0. invite \in [no : Nat, open : BOOLEAN, member : BOOLEAN] /\ invite.no + 1 \in Nat
          BY <2>0 DEF EnrolTypeOK
        <5>1. invite' \in [no : Nat, open : BOOLEAN, member : BOOLEAN]
          BY <4>1, <5>0 DEF ReissueEnrolment
        <5>2. passkey' = [p \in Passkeys |-> IF p \in Live THEN "retired" ELSE passkey[p]]
          BY <4>1 DEF ReissueEnrolment
        <5> QED
          BY <2>0, <5>1, <5>2 DEF EnrolTypeOK
      <4>2. CASE CloseInvitation
        BY <2>0, <4>2 DEF CloseInvitation, EnrolTypeOK
      <4> QED
        BY <2>7, <4>1, <4>2
    <3> QED
      BY <2>5, <3>1, <3>2
  <2>8. ASSUME NEW s \in Codes \cup {Full}, BeginCeremony(s) PROVE CodesInv'
    BY <2>0, <2>5, <2>8 DEF BeginCeremony, EnrolTypeOK
  <2>9. CASE UNCHANGED enrolVars
    BY <2>0, <2>5, <2>9 DEF enrolVars, EnrolTypeOK
  <2>10. ASSUME NEW q \in Calls, IssueCode(q) \/ ClaimAttempt(q) \/ AnswerGuess(q) PROVE CodesInv'
    BY <1>2, <2>10, CodeIsIssued, AttemptIsClaimed, GuessIsAnswered
  <2> QED
    BY <1>2, <2>1, <2>2, <2>3, <2>4, <2>6, <2>7, <2>8, <2>9, <2>10 DEF EnrolNext
<1> QED
  BY <1>1, <1>2, PTL DEF EnrolSpec

\* "Concurrent guesses at the same code ... can never exceed max_attempts
\* together", and two right answers open one session (code_logic).
THEOREM GuessesAreBounded == EnrolSpec => []CodeIsGuessedInBounds
<1>1. CodesInv => CodeIsGuessedInBounds
  <2> SUFFICES ASSUME CodesInv, NEW c \in Codes PROVE judged[c] <= MaxAttempts /\ opened[c] <= 1
    BY DEF CodeIsGuessedInBounds
  <2>1. judged[c] \in Nat /\ code[c].attempts \in Nat /\ MaxAttempts \in Nat
    BY EnrolmentAssumption DEF CodesInv, EnrolTypeOK, CodeRows
  <2>2. judged[c] <= code[c].attempts /\ code[c].attempts <= MaxAttempts /\ opened[c] \in {0, 1}
    BY DEF CodesInv, GuessesAreCounted, OneAnswerAtATime
  <2> QED
    BY <2>1, <2>2
<1> QED
  BY <1>1, CodesInvariant, PTL

\* What a removal holds stays as it was while no passkey is retired.
LEMMA HeldPasskeysRest ==
  ASSUME PasskeysInv, Live \subseteq Live',
         \A r \in Calls : call'[r].at \in {"counting", "counted"} => call'[r] = call[r]
  PROVE  PasskeysInv'
<1>1. ASSUME NEW r \in Calls PROVE Keeps(r)'
  <2>1. Keeps(r)
    BY DEF PasskeysInv
  <2> QED
    BY <2>1 DEF Keeps
<1>2. \A q, r \in Calls :
        call'[q].at = "counted" /\ call'[r].at = "counted" /\ q # r => call'[q].saw \cap call'[r].saw = {}
  BY DEF PasskeysInv
<1> QED
  BY <1>1, <1>2 DEF PasskeysInv

LEMMA RemovalIsCounted ==
  ASSUME EnrolTypeOK, PasskeysInv, NEW q \in Calls, CountPasskeys(q)
  PROVE  PasskeysInv'
<1> DEFINE seen == call[q].saw \cap Live
           w == [call[q] EXCEPT !.at = "counted"]
           u == [w EXCEPT !.saw = seen]
<1>1. call[q] \in [at : {"counting", "counted"}, of : Passkeys, saw : SUBSET Passkeys]
  BY CallHas DEF CountPasskeys
<1>2. /\ w \in [at : {"counting", "counted"}, of : Passkeys, saw : SUBSET Passkeys]
      /\ w.at = "counted" /\ w.of = call[q].of
  BY <1>1
<1>3. seen \in SUBSET Passkeys /\ seen \subseteq Live /\ seen \subseteq call[q].saw
  BY DEF Live
<1>4. /\ UNCHANGED passkey /\ PasskeysFree(q) /\ call[q].at = "counting"
      /\ call' = [call EXCEPT ![q] = IF call[q].of \in Live /\ seen # {call[q].of} THEN u ELSE NoEntry]
  BY DEF CountPasskeys, EnrolTypeOK
<1>5. call[q].of \in call[q].saw
  BY <1>4 DEF PasskeysInv, Keeps
<1>6. call[q].of \in Live => call[q].of \in seen
  BY <1>5
<1> HIDE DEF seen, w
<1>7. /\ u \in [at : {"counting", "counted"}, of : Passkeys, saw : SUBSET Passkeys]
      /\ u.at = "counted" /\ u.of = call[q].of /\ u.saw = seen
  BY <1>2, <1>3
<1> HIDE DEF u
<1>8. u \in EnrolCalls /\ Live' = Live
  BY <1>4, <1>7 DEF EnrolCalls, Live
<1>9. CASE call[q].of \in Live /\ seen # {call[q].of}
  <2>1. /\ call'[q] = u /\ \A r \in Calls \ {q} : call'[r] = call[r]
    BY <1>4, <1>8, <1>9, OneCallMoves
  <2>2. Keeps(q)'
    BY <1>3, <1>6, <1>7, <1>8, <1>9, <2>1 DEF Keeps
  <2>3. ASSUME NEW r \in Calls, r # q PROVE Keeps(r)'
    <3>1. Keeps(r) /\ call'[r] = call[r]
      BY <2>1, <2>3 DEF PasskeysInv
    <3> QED
      BY <1>8, <3>1 DEF Keeps
  <2>4. \A r \in Calls \ {q} : call'[r].at = "counted" =>
          call'[r].saw \cap call'[q].saw = {} /\ call'[q].saw \cap call'[r].saw = {}
    BY <1>3, <1>4, <1>7, <2>1 DEF PasskeysFree
  <2>5. \A r, s \in Calls :
          call'[r].at = "counted" /\ call'[s].at = "counted" /\ r # s => call'[r].saw \cap call'[s].saw = {}
    BY <2>1, <2>4 DEF PasskeysInv
  <2> QED
    BY <2>2, <2>3, <2>5 DEF PasskeysInv
<1>10. CASE ~(call[q].of \in Live /\ seen # {call[q].of})
  <2>1. call'[q].at = "idle" /\ \A r \in Calls \ {q} : call'[r] = call[r]
    BY <1>4, <1>10, OneCallMoves, NoEntryIsIdle
  <2> QED
    BY <1>8, <2>1, HeldPasskeysRest
<1> QED
  BY <1>9, <1>10

LEMMA RemovalIsMade ==
  ASSUME EnrolTypeOK, PasskeysInv, NEW q \in Calls, RemovePasskey(q)
  PROVE  PasskeysInv' /\ Live' # {}
<1>1. call[q] \in [at : {"counting", "counted"}, of : Passkeys, saw : SUBSET Passkeys]
  BY CallHas DEF RemovePasskey
<1>2. PICK p \in Passkeys : p = call[q].of
  BY <1>1
<1>3. /\ call[q].at = "counted" /\ passkey' = [passkey EXCEPT ![p] = "retired"]
      /\ call' = [call EXCEPT ![q] = NoEntry]
  BY <1>2 DEF RemovePasskey
<1>4. Live' = Live \ {p}
  BY <1>3 DEF Live, EnrolTypeOK
<1>5. p \in call[q].saw /\ call[q].saw # {p} /\ call[q].saw \subseteq Live
  BY <1>2, <1>3 DEF PasskeysInv, Keeps
<1>6. call'[q].at = "idle" /\ \A r \in Calls \ {q} : call'[r] = call[r]
  BY <1>3, OneCallMoves, NoEntryIsIdle
<1>7. ASSUME NEW r \in Calls PROVE Keeps(r)'
  <2>1. CASE r = q
    BY <1>6, <2>1 DEF Keeps
  <2>2. CASE r # q
    <3>1. Keeps(r) /\ call'[r] = call[r]
      BY <1>6, <2>2 DEF PasskeysInv
    <3>2. call[r].at = "counted" => call[q].saw \cap call[r].saw = {}
      BY <1>3, <2>2 DEF PasskeysInv
    <3> QED
      BY <1>4, <1>5, <3>1, <3>2 DEF Keeps
  <2> QED
    BY <2>1, <2>2
<1>8. \A r, s \in Calls :
        call'[r].at = "counted" /\ call'[s].at = "counted" /\ r # s => call'[r].saw \cap call'[s].saw = {}
  BY <1>6 DEF PasskeysInv
<1>9. Live' # {}
  BY <1>4, <1>5
<1> QED
  BY <1>7, <1>8, <1>9 DEF PasskeysInv

LEMMA EnrolTypesKept == CodesInv => EnrolTypeOK
  BY DEF CodesInv

\* A removal that is about to be made holds a passkey it leaves, and no other
\* removal holds that one (passkey_logic.remove_passkey).
THEOREM PasskeysInvariant == EnrolSpec => []PasskeysInv
<1>1. EnrolInit => PasskeysInv
  BY NoEntryIsIdle DEF EnrolInit, PasskeysInv, Keeps
<1>2. ASSUME EnrolTypeOK, PasskeysInv, [EnrolNext]_enrolVars PROVE PasskeysInv'
  <2>1. ASSUME NEW q \in Calls, NEW p \in Passkeys, BeginRemoval(q, p) PROVE PasskeysInv'
    <3> DEFINE u == [at |-> "counting", of |-> p, saw |-> Live]
    <3>1. /\ u \in EnrolCalls /\ u.at = "counting" /\ u.of = p /\ u.saw = Live /\ p \in Live
          /\ UNCHANGED passkey /\ call' = [call EXCEPT ![q] = u]
      BY <2>1 DEF BeginRemoval, BeginCall, EnrolCalls, Live
    <3> HIDE DEF u
    <3>2. call'[q] = u /\ \A r \in Calls \ {q} : call'[r] = call[r]
      BY <1>2, <3>1, OneCallMoves
    <3>3. Keeps(q)'
      BY <3>1, <3>2 DEF Keeps
    <3>4. Live' = Live
      BY <3>1 DEF Live
    <3>5. ASSUME NEW r \in Calls, r # q PROVE Keeps(r)'
      <4>1. Keeps(r) /\ call'[r] = call[r]
        BY <1>2, <3>2, <3>5 DEF PasskeysInv
      <4> QED
        BY <3>4, <4>1 DEF Keeps
    <3>6. \A r, s \in Calls :
            call'[r].at = "counted" /\ call'[s].at = "counted" /\ r # s => call'[r].saw \cap call'[s].saw = {}
      BY <1>2, <3>1, <3>2 DEF PasskeysInv
    <3> QED
      BY <3>3, <3>5, <3>6 DEF PasskeysInv
  <2>begin. ASSUME NEW q \in Calls, NEW u, u.at \notin {"counting", "counted"},
                   call' = [call EXCEPT ![q] = u], UNCHANGED passkey
            PROVE  PasskeysInv'
    <3>1. call'[q] = u /\ \A r \in Calls \ {q} : call'[r] = call[r]
      BY <1>2, <2>begin DEF EnrolTypeOK
    <3>2. Live' = Live
      BY <2>begin DEF Live
    <3> QED
      BY <1>2, <2>begin, <3>1, <3>2, HeldPasskeysRest
  <2>2. ASSUME NEW q \in Calls, BeginIssue(q) PROVE PasskeysInv'
    <3>1. [at |-> "issuing", saw |-> OpenCodes].at \notin {"counting", "counted"}
      OBVIOUS
    <3> QED
      BY <2>begin, <2>2, <3>1 DEF BeginIssue, BeginCall
  <2>3. ASSUME NEW q \in Calls, NEW right \in BOOLEAN, BeginGuess(q, right) PROVE PasskeysInv'
    <3>1. ASSUME NEW c, NEW n, NEW b
          PROVE  [at |-> "read", code |-> c, right |-> right, saw |-> n, invited |-> b].at
                   \notin {"counting", "counted"}
      OBVIOUS
    <3> QED
      BY <2>begin, <2>3, <3>1 DEF BeginGuess, BeginCall
  <2>4. ASSUME NEW q \in Calls, IssueCode(q) \/ AnswerGuess(q) PROVE PasskeysInv'
    BY <2>begin, <2>4, NoEntryIsIdle DEF IssueCode, AnswerGuess
  <2>5. ASSUME NEW q \in Calls, ClaimAttempt(q) PROVE PasskeysInv'
    <3>1. call[q] \in [at : {"read", "claimed"}, code : Codes, right : BOOLEAN, saw : Nat, invited : BOOLEAN]
      BY <1>2, <2>5, CallHas DEF ClaimAttempt
    <3> DEFINE u == [call[q] EXCEPT !.at = "claimed"]
    <3>2. u.at = "claimed"
      BY <3>1
    <3>3. call' = [call EXCEPT ![q] = u] \/ call' = [call EXCEPT ![q] = NoEntry]
      BY <2>5 DEF ClaimAttempt
    <3> HIDE DEF u
    <3>4. UNCHANGED passkey
      BY <2>5 DEF ClaimAttempt
    <3> QED
      BY <2>begin, <3>2, <3>3, <3>4, NoEntryIsIdle
  <2>6. ASSUME UNCHANGED call, Live \subseteq Live' PROVE PasskeysInv'
    BY <1>2, <2>6, HeldPasskeysRest
  <2>7. ASSUME NEW s \in Codes \cup {Full}, NEW p \in Passkeys, RegisterPasskey(s, p) PROVE PasskeysInv'
    <3>1. passkey' = [passkey EXCEPT ![p] = "live"] /\ UNCHANGED call
      BY <2>7 DEF RegisterPasskey
    <3>2. Live \subseteq Live'
      BY <1>2, <3>1 DEF EnrolTypeOK, Live
    <3> QED
      BY <2>6, <3>1, <3>2
  <2>8. ASSUME ReissueEnrolment PROVE PasskeysInv'
    <3>1. UNCHANGED call /\ \A r \in Calls : call[r].at # "counted"
      BY <2>8 DEF ReissueEnrolment
    <3>2. \A r \in Calls : Keeps(r)
      BY <1>2 DEF PasskeysInv
    <3>3. \A r \in Calls : Keeps(r)'
      BY <3>1, <3>2 DEF Keeps
    <3> QED
      BY <3>1, <3>3 DEF PasskeysInv
  <2>9. ASSUME CloseInvitation \/ (\E s \in Codes \cup {Full} : BeginCeremony(s)) \/ UNCHANGED enrolVars
        PROVE  PasskeysInv'
    <3>1. UNCHANGED <<call, passkey>>
      BY <2>9 DEF CloseInvitation, BeginCeremony, enrolVars
    <3> QED
      BY <2>6, <3>1 DEF Live
  <2>10. ASSUME NEW q \in Calls, CountPasskeys(q) \/ RemovePasskey(q) PROVE PasskeysInv'
    BY <1>2, <2>10, RemovalIsCounted, RemovalIsMade
  <2> QED
    BY <1>2, <2>1, <2>2, <2>3, <2>4, <2>5, <2>7, <2>8, <2>9, <2>10 DEF EnrolNext
<1> QED
  BY <1>1, <1>2, EnrolTypesKept, CodesInvariant, PTL DEF EnrolSpec

\* "Which only re-enrolment may do": no removal, and no number of removals at
\* once, leaves a person who has a passkey without one (remove_passkey).
THEOREM LastPasskeyIsKept == EnrolSpec => LastPasskeyStays
<1>1. ASSUME EnrolTypeOK, PasskeysInv, [EnrolNext]_enrolVars, Live # {}, Live' = {}
      PROVE  invite'.no > invite.no /\ status' = "invited"
  <2>1. ASSUME ReissueEnrolment PROVE invite'.no > invite.no /\ status' = "invited"
    <3>1. invite.no \in Nat /\ invite' = [invite EXCEPT !.no = @ + 1, !.open = TRUE] /\ status' = "invited"
      BY <1>1, <2>1 DEF ReissueEnrolment, EnrolTypeOK
    <3> QED
      BY <3>1
  <2>2. ASSUME NEW q \in Calls, RemovePasskey(q) PROVE FALSE
    BY <1>1, <2>2, RemovalIsMade
  <2>3. ASSUME NEW s \in Codes \cup {Full}, NEW p \in Passkeys, RegisterPasskey(s, p) PROVE FALSE
    <3>1. passkey' = [passkey EXCEPT ![p] = "live"]
      BY <2>3 DEF RegisterPasskey
    <3> QED
      BY <1>1, <3>1 DEF EnrolTypeOK, Live
  <2>4. ASSUME UNCHANGED passkey PROVE FALSE
    BY <1>1, <2>4 DEF Live
  <2>5. ASSUME NEW q \in Calls, NEW right \in BOOLEAN, NEW p \in Passkeys,
               \/ BeginIssue(q) \/ IssueCode(q) \/ BeginGuess(q, right) \/ ClaimAttempt(q)
               \/ AnswerGuess(q) \/ BeginRemoval(q, p) \/ CountPasskeys(q)
        PROVE  UNCHANGED passkey
    BY <2>5 DEF BeginIssue, IssueCode, BeginGuess, ClaimAttempt, AnswerGuess, BeginRemoval,
                CountPasskeys, BeginCall
  <2>6. ASSUME CloseInvitation \/ (\E s \in Codes \cup {Full} : BeginCeremony(s)) \/ UNCHANGED enrolVars
        PROVE  UNCHANGED passkey
    BY <2>6 DEF CloseInvitation, BeginCeremony, enrolVars
  <2>7. PICK p \in Passkeys : p \in Live
    BY <1>1 DEF Live
  <2> QED
    BY <1>1, <2>1, <2>2, <2>3, <2>4, <2>5, <2>6, <2>7 DEF EnrolNext
<1>2. EnrolTypeOK /\ PasskeysInv /\ [EnrolNext]_enrolVars =>
        (Live # {} /\ Live' = {} => invite'.no > invite.no /\ status' = "invited")
  BY <1>1
<1> QED
  BY <1>2, EnrolTypesKept, CodesInvariant, PasskeysInvariant, PTL DEF EnrolSpec, LastPasskeyStays

-----------------------------------------------------------------------------
(* The members.  A request's locks keep what it holds as it read it; what  *)
(* it only read is as it was until somebody commits.                       *)

Moves(r) == request[r].kind = "remove"
Holding(r) == request[r].kind \in {"assign", "remove"}

\* The items a removal has locked are its person's open ones.
ItemsAreTheirs(r) ==
  Moves(r) =>
    /\ request[r].who # request[r].to
    /\ ~request[r].moved => request[r].items = {}
    /\ \A i \in request[r].items : owner[i] = request[r].who /\ open[i]

ItemsAreHeld ==
  /\ \A r \in Requests : ItemsAreTheirs(r)
  /\ \A r, q \in Requests :
       Holding(r) /\ Holding(q) /\ r # q => request[r].items \cap request[q].items = {}

\* A request whose reads are the latest has found what its commit relies on.
ReadsHold(r) ==
  request[r] # NoRequest => request[r].since <= commits
CheckHolds(r) ==
  request[r] # NoRequest /\ request[r].since = commits =>
    /\ request[r].kind = "roles" => NotLastAdmin(request[r].who, Grants(request[r].set, customManages))
    /\ request[r].kind = "deactivate" =>
         OwnedWork(request[r].who) = {} /\ NotLastAdmin(request[r].who, FALSE)
    /\ Moves(r) /\ request[r].moved =>
         request[r].items = OwnedWork(request[r].who) /\ NotLastAdmin(request[r].who, FALSE)

MembersInv ==
  /\ TypeOK /\ ItemsAreHeld
  /\ \A r \in Requests : ReadsHold(r) /\ CheckHolds(r)

\* What a running request has read, by its kind.
LEMMA RequestHas ==
  ASSUME TypeOK, NEW r \in Requests
  PROVE  /\ request[r].kind \in {"none", "assign", "roles", "deactivate", "remove"}
         /\ request[r].kind = "none" <=> request[r] = NoRequest
         /\ request[r].kind # "none" => request[r].since \in 0 .. MaxCommits /\ request[r].who \in People
         /\ request[r].kind = "assign" =>
              request[r] \in [kind : {"assign"}, since : 0..MaxCommits, items : SUBSET Items, who : People]
         /\ request[r].kind = "roles" =>
              request[r] \in [kind : {"roles"}, since : 0..MaxCommits, who : People, set : SUBSET AdminRoles]
         /\ request[r].kind = "remove" =>
              request[r] \in [kind : {"remove"}, since : 0..MaxCommits, who : People, to : People,
                              items : SUBSET Items, moved : BOOLEAN]
<1>1. request[r] \in Reads
  BY DEF TypeOK
<1>2. CASE request[r] = NoRequest
  BY <1>2 DEF NoRequest
<1>3. CASE request[r] \in [kind : {"assign"}, since : 0..MaxCommits, items : SUBSET Items, who : People]
  <2>1. request[r].kind = "assign"
    BY <1>3
  <2>2. request[r] # NoRequest
    BY <2>1 DEF NoRequest
  <2> QED
    BY <1>3, <2>1, <2>2
<1>4. CASE request[r] \in [kind : {"roles"}, since : 0..MaxCommits, who : People, set : SUBSET AdminRoles]
  <2>1. request[r].kind = "roles"
    BY <1>4
  <2>2. request[r] # NoRequest
    BY <2>1 DEF NoRequest
  <2> QED
    BY <1>4, <2>1, <2>2
<1>5. CASE request[r] \in [kind : {"deactivate"}, since : 0..MaxCommits, who : People]
  <2>1. request[r].kind = "deactivate"
    BY <1>5
  <2>2. request[r] # NoRequest
    BY <2>1 DEF NoRequest
  <2> QED
    BY <1>5, <2>1, <2>2
<1>6. CASE request[r] \in [kind : {"remove"}, since : 0..MaxCommits, who : People, to : People,
                           items : SUBSET Items, moved : BOOLEAN]
  <2>1. request[r].kind = "remove"
    BY <1>6
  <2>2. request[r] # NoRequest
    BY <2>1 DEF NoRequest
  <2> QED
    BY <1>6, <2>1, <2>2
<1> QED
  BY <1>1, <1>2, <1>3, <1>4, <1>5, <1>6 DEF Reads

LEMMA NoRequestIsNone == NoRequest \in Reads /\ NoRequest.kind = "none"
  BY DEF NoRequest, Reads

LEMMA OneRequestMoves ==
  ASSUME TypeOK, NEW r \in Requests, NEW u \in Reads, request' = [request EXCEPT ![r] = u]
  PROVE  /\ request' \in [Requests -> Reads] /\ request'[r] = u
         /\ \A q \in Requests \ {r} : request'[q] = request[q]
  BY DEF TypeOK

LEMMA CommitIsOnesOwn ==
  ASSUME TypeOK, NEW r \in Requests, Commit(r)
  PROVE  /\ request' \in [Requests -> Reads] /\ request'[r] = NoRequest /\ request'[r].kind = "none"
         /\ \A q \in Requests \ {r} : request'[q] = request[q]
         /\ commits \in Nat /\ commits' = commits + 1 /\ commits' \in 0 .. MaxCommits
<1>1. request' = [request EXCEPT ![r] = NoRequest] /\ commits < MaxCommits /\ commits' = commits + 1
  BY DEF Commit
<1>2. commits \in 0 .. MaxCommits /\ MaxCommits \in Nat
  BY MembersAssumption DEF TypeOK
<1>3. commits \in Nat /\ commits' = commits + 1 /\ commits' \in 0 .. MaxCommits
  BY <1>1, <1>2
<1>4. /\ request' \in [Requests -> Reads] /\ request'[r] = NoRequest
      /\ \A q \in Requests \ {r} : request'[q] = request[q]
  BY <1>1, NoRequestIsNone, OneRequestMoves
<1> QED
  BY <1>3, <1>4, NoRequestIsNone

\* What a request's reads rested on is the bank; it stands while the bank does.
LEMMA ChecksRest ==
  ASSUME UNCHANGED bank, NEW r, request'[r] = request[r], commits' = commits, CheckHolds(r), ReadsHold(r)
  PROVE  CheckHolds(r)' /\ ReadsHold(r)'
<1>1. UNCHANGED <<active, roles, customManages, owner, open>>
  BY DEF bank
<1>2. Admins' = Admins
  BY <1>1 DEF Admins
<1>3. CheckHolds(r)'
  BY <1>1, <1>2 DEF CheckHolds, Moves, NotLastAdmin, OwnedWork
<1> QED
  BY <1>3 DEF ReadsHold

\* After a commit, what the others have read is no longer the latest.
LEMMA ChecksLapse ==
  ASSUME TypeOK, NEW r \in Requests, NEW q \in Requests, Commit(r), CheckHolds(q), ReadsHold(q)
  PROVE  CheckHolds(q)' /\ ReadsHold(q)'
<1>1. /\ request'[r] = NoRequest /\ \A p \in Requests \ {r} : request'[p] = request[p]
      /\ commits \in Nat /\ commits' = commits + 1
  BY CommitIsOnesOwn
<1>2. CASE q = r
  BY <1>1, <1>2 DEF CheckHolds, ReadsHold
<1>3. CASE q # r /\ request[q] # NoRequest
  <2>1. request[q].since \in Nat /\ request[q].since <= commits
    BY <1>3, RequestHas, MembersAssumption DEF ReadsHold
  <2>2. request'[q] = request[q]
    BY <1>1, <1>3
  <2>3. request'[q].since <= commits' /\ request'[q].since # commits'
    BY <1>1, <2>1, <2>2
  <2> QED
    BY <2>3 DEF CheckHolds, ReadsHold
<1>4. CASE q # r /\ request[q] = NoRequest
  BY <1>1, <1>4 DEF CheckHolds, ReadsHold
<1> QED
  BY <1>2, <1>3, <1>4

\* A request that is answered without a commit, or begins, leaves the others
\* and the bank as they were.
LEMMA OthersCheck ==
  ASSUME MembersInv, NEW r \in Requests, NEW u \in Reads, request' = [request EXCEPT ![r] = u],
         UNCHANGED <<bank, commits>>, u # NoRequest => u.since <= commits,
         request'[r] = u => CheckHolds(r)'
  PROVE  \A q \in Requests : ReadsHold(q)' /\ CheckHolds(q)'
<1>1. TypeOK /\ \A q \in Requests : ReadsHold(q) /\ CheckHolds(q)
  BY DEF MembersInv
<1>2. request'[r] = u /\ \A q \in Requests \ {r} : request'[q] = request[q]
  BY <1>1, OneRequestMoves
<1>3. \A q \in Requests \ {r} : ReadsHold(q)' /\ CheckHolds(q)'
  BY <1>1, <1>2, ChecksRest
<1>4. ReadsHold(r)'
  BY <1>2 DEF ReadsHold
<1> QED
  BY <1>2, <1>3, <1>4

LEMMA RemovalsAreApart ==
  ASSUME TypeOK, NEW r \in Requests, NEW q \in Requests, r # q,
         request[r].kind = "remove", request[q].kind = "remove"
  PROVE  request[r].who # request[q].who
  BY DEF TypeOK

\* A request that begins, goes on or ends, the bank as it was.
LEMMA TypesRest ==
  ASSUME TypeOK, NEW r \in Requests, NEW u \in Reads, request' = [request EXCEPT ![r] = u],
         UNCHANGED <<bank, commits>>,
         u.kind = "remove" => \A q \in Requests \ {r} : request[q].kind = "remove" => request[q].who # u.who
  PROVE  TypeOK'
<1>1. /\ request' \in [Requests -> Reads] /\ request'[r] = u
      /\ \A q \in Requests \ {r} : request'[q] = request[q]
  BY OneRequestMoves
<1>2. \A p, q \in Requests :
        p # q /\ request'[p].kind = "remove" /\ request'[q].kind = "remove" => request'[p].who # request'[q].who
  BY <1>1, RemovalsAreApart
<1> QED
  BY <1>1, <1>2 DEF TypeOK, bank

LEMMA TypesCommit ==
  ASSUME TypeOK, NEW r \in Requests, Commit(r),
         active' \subseteq People, roles' \in [People -> SUBSET AdminRoles], customManages' \in BOOLEAN,
         owner' \in [Items -> People], open' \in [Items -> BOOLEAN]
  PROVE  TypeOK'
<1>1. /\ request' \in [Requests -> Reads] /\ request'[r].kind = "none"
      /\ \A q \in Requests \ {r} : request'[q] = request[q]
      /\ commits' \in 0 .. MaxCommits
  BY CommitIsOnesOwn
<1>2. \A p, q \in Requests :
        p # q /\ request'[p].kind = "remove" /\ request'[q].kind = "remove" => request'[p].who # request'[q].who
  BY <1>1, RemovalsAreApart
<1> QED
  BY <1>1, <1>2 DEF TypeOK

\* Rows that are locked stay as whoever locked them found them.
LEMMA ItemsRest ==
  ASSUME MembersInv, NEW r \in Requests, \A q \in Requests \ {r} : request'[q] = request[q],
         request'[r].kind \notin {"assign", "remove"},
         \A q \in Requests \ {r} : Holding(q) => \A i \in request[q].items :
           owner'[i] = owner[i] /\ (open[i] => open'[i])
  PROVE  ItemsAreHeld'
<1>0. ItemsAreHeld
  BY DEF MembersInv
<1>1. ASSUME NEW q \in Requests PROVE ItemsAreTheirs(q)'
  <2>1. CASE q = r
    BY <2>1 DEF ItemsAreTheirs, Moves
  <2>2. CASE q # r
    <3>1. ItemsAreTheirs(q) /\ request'[q] = request[q]
      BY <1>0, <2>2 DEF ItemsAreHeld
    <3>2. Moves(q) => \A i \in request[q].items : owner'[i] = owner[i] /\ (open[i] => open'[i])
      BY <2>2 DEF Moves, Holding
    <3> QED
      BY <3>1, <3>2 DEF ItemsAreTheirs, Moves
  <2> QED
    BY <2>1, <2>2
<1>2. ASSUME NEW p \in Requests, NEW q \in Requests, Holding(p)', Holding(q)', p # q
      PROVE  request'[p].items \cap request'[q].items = {}
  <2>1. p # r /\ q # r
    BY <1>2 DEF Holding
  <2>2. Holding(p) /\ Holding(q) /\ request'[p] = request[p] /\ request'[q] = request[q]
    BY <1>2, <2>1 DEF Holding
  <2> QED
    BY <1>0, <1>2, <2>2 DEF ItemsAreHeld
<1> QED
  BY <1>1, <1>2 DEF ItemsAreHeld

\* A request locks what nobody holds.
LEMMA ItemsAreLocked ==
  ASSUME MembersInv, NEW r \in Requests, NEW u \in Reads, request' = [request EXCEPT ![r] = u],
         UNCHANGED bank, u.kind \in {"assign", "remove"},
         \A q \in Requests \ {r} : Holding(q) => request[q].items \cap u.items = {},
         u.kind = "remove" => /\ u.who # u.to /\ (~u.moved => u.items = {})
                              /\ \A i \in u.items : owner[i] = u.who /\ open[i]
  PROVE  ItemsAreHeld'
<1>0. TypeOK /\ ItemsAreHeld /\ UNCHANGED <<owner, open>>
  BY DEF MembersInv, bank
<1>1. request'[r] = u /\ \A q \in Requests \ {r} : request'[q] = request[q]
  BY <1>0, OneRequestMoves
<1>2. ASSUME NEW q \in Requests PROVE ItemsAreTheirs(q)'
  <2>1. CASE q = r
    BY <1>0, <1>1, <2>1 DEF ItemsAreTheirs, Moves
  <2>2. CASE q # r
    <3>1. ItemsAreTheirs(q) /\ request'[q] = request[q]
      BY <1>0, <1>1, <2>2 DEF ItemsAreHeld
    <3> QED
      BY <1>0, <3>1 DEF ItemsAreTheirs, Moves
  <2> QED
    BY <2>1, <2>2
<1>3. \A p, q \in Requests :
        Holding(p)' /\ Holding(q)' /\ p # q => request'[p].items \cap request'[q].items = {}
  <2>1. ASSUME NEW q \in Requests \ {r}, Holding(q)'
        PROVE  request'[r].items \cap request'[q].items = {} /\ request'[q].items \cap request'[r].items = {}
    BY <1>1, <2>1 DEF Holding
  <2>2. ASSUME NEW p \in Requests \ {r}, NEW q \in Requests \ {r}, Holding(p)', Holding(q)', p # q
        PROVE  request'[p].items \cap request'[q].items = {}
    <3>1. Holding(p) /\ Holding(q) /\ request'[p] = request[p] /\ request'[q] = request[q]
      BY <1>1, <2>2 DEF Holding
    <3> QED
      BY <1>0, <2>2, <3>1 DEF ItemsAreHeld
  <2> QED
    BY <2>1, <2>2
<1> QED
  BY <1>2, <1>3 DEF ItemsAreHeld

LEMMA HeldIsHeld ==
  ASSUME NEW r \in Requests
  PROVE  /\ Holding(r) => request[r].items \subseteq HeldItems
         /\ Moves(r) => request[r].who \in HeldMemberships
  BY DEF Holding, Moves, HeldItems, HeldMemberships

\* One lemma for each way a request goes: it begins, moves its work, is refused,
\* or commits.
LEMMA BeginsKeep ==
  ASSUME MembersInv, NEW r \in Requests, NEW u \in Reads, Begin(r, u), u # NoRequest, u.since = commits,
         \/ u.kind \in {"roles", "deactivate"}
         \/ u.kind = "assign" /\ u.items \cap HeldItems = {}
         \/ u.kind = "remove" /\ u.items = {} /\ u.who \notin HeldMemberships /\ u.who # u.to /\ ~u.moved,
         u.kind = "roles" => NotLastAdmin(u.who, Grants(u.set, customManages)),
         u.kind = "deactivate" => OwnedWork(u.who) = {} /\ NotLastAdmin(u.who, FALSE)
  PROVE  MembersInv'
<1>0. TypeOK /\ commits \in Nat
  BY MembersAssumption DEF MembersInv, TypeOK
<1>1. request' = [request EXCEPT ![r] = u] /\ UNCHANGED <<bank, commits>>
  BY DEF Begin
<1>2. request'[r] = u /\ \A q \in Requests \ {r} : request'[q] = request[q]
  BY <1>0, <1>1, OneRequestMoves
<1>3. UNCHANGED <<active, roles, customManages, owner, open>>
  BY <1>1 DEF bank
<1>4. TypeOK'
  <2>1. u.kind = "remove" => \A q \in Requests \ {r} : request[q].kind = "remove" => request[q].who # u.who
    BY HeldIsHeld DEF Moves
  <2> QED
    BY <1>0, <1>1, <2>1, TypesRest
<1>5. \A q \in Requests : ReadsHold(q)' /\ CheckHolds(q)'
  <2>1. Admins' = Admins
    BY <1>3 DEF Admins
  <2>2. CheckHolds(r)'
    BY <1>2, <1>3, <2>1 DEF CheckHolds, Moves, NotLastAdmin, OwnedWork
  <2>3. u.since <= commits
    BY <1>0
  <2> QED
    BY <1>1, <2>2, <2>3, OthersCheck
<1>6. ItemsAreHeld'
  <2>1. CASE u.kind \in {"roles", "deactivate"}
    BY <1>2, <1>3, <2>1, ItemsRest
  <2>2. CASE u.kind \in {"assign", "remove"}
    BY ZenonT(60), <1>1, <2>2, HeldIsHeld, ItemsAreLocked
  <2> QED
    BY <2>1, <2>2
<1> QED
  BY <1>4, <1>5, <1>6 DEF MembersInv

LEMMA MovesKeep ==
  ASSUME MembersInv, NEW r \in Requests, MoveWork(r)
  PROVE  MembersInv'
<1>0. TypeOK /\ ItemsAreHeld /\ \A q \in Requests : ReadsHold(q)
  BY DEF MembersInv
<1>1. /\ request[r] \in [kind : {"remove"}, since : 0..MaxCommits, who : People, to : People,
                         items : SUBSET Items, moved : BOOLEAN]
      /\ ~request[r].moved /\ UNCHANGED <<bank, commits>>
  BY <1>0, RequestHas DEF MoveWork
<1> DEFINE mine == OwnedWork(request[r].who)
           w == [request[r] EXCEPT !.items = mine]
           u == [w EXCEPT !.moved = TRUE]
<1>2. mine \in SUBSET Items /\ \A i \in mine : owner[i] = request[r].who /\ open[i]
  BY DEF OwnedWork
<1>3. mine \cap HeldItems = {} /\ NotLastAdmin(request[r].who, FALSE)
  BY DEF MoveWork
<1>4. request' = [request EXCEPT ![r] = u]
  BY <1>0 DEF MoveWork, TypeOK
<1> HIDE DEF mine
<1>5. /\ w \in [kind : {"remove"}, since : 0..MaxCommits, who : People, to : People,
                items : SUBSET Items, moved : BOOLEAN]
      /\ w.since = request[r].since /\ w.who = request[r].who /\ w.to = request[r].to /\ w.items = mine
  BY <1>1, <1>2
<1> HIDE DEF w
<1>6. /\ u \in [kind : {"remove"}, since : 0..MaxCommits, who : People, to : People,
                items : SUBSET Items, moved : BOOLEAN]
      /\ u.since = request[r].since /\ u.who = request[r].who /\ u.to = request[r].to /\ u.items = mine
      /\ u.moved = TRUE /\ u.kind = "remove"
  BY <1>5
<1> HIDE DEF u
<1>7. u \in Reads
  BY <1>6 DEF Reads
<1>8. request[r].who # request[r].to /\ request[r].kind = "remove" /\ request[r] # NoRequest
  BY <1>0, <1>1, RequestHas DEF ItemsAreHeld, ItemsAreTheirs, Moves
<1>9. TypeOK'
  <2>1. \A q \in Requests \ {r} : request[q].kind = "remove" => request[q].who # u.who
    BY <1>0, <1>6, <1>8, RemovalsAreApart
  <2> QED
    BY <1>0, <1>1, <1>4, <1>7, <2>1, TypesRest
<1>10. \A q \in Requests : ReadsHold(q)' /\ CheckHolds(q)'
  <2>1. u.since <= commits
    BY <1>0, <1>6, <1>8 DEF ReadsHold
  <2>2. UNCHANGED <<active, roles, customManages, owner, open>>
    BY <1>1 DEF bank
  <2>3. Admins' = Admins
    BY <2>2 DEF Admins
  <2>4. mine = OwnedWork(u.who)
    BY <1>6 DEF mine
  <2>5. request'[r] = u => CheckHolds(r)'
    BY <1>3, <1>6, <2>2, <2>3, <2>4 DEF CheckHolds, Moves, NotLastAdmin, OwnedWork
  <2> QED
    BY <1>1, <1>4, <1>7, <2>1, <2>5, OthersCheck
<1>11. ItemsAreHeld'
  <2>1. \A q \in Requests \ {r} : Holding(q) => request[q].items \cap u.items = {}
    BY <1>3, <1>6, HeldIsHeld
  <2>2. /\ u.who # u.to /\ (~u.moved => u.items = {})
        /\ \A i \in u.items : owner[i] = u.who /\ open[i]
    BY <1>2, <1>6, <1>8
  <2> QED
    BY <1>1, <1>4, <1>6, <1>7, <2>1, <2>2, ItemsAreLocked
<1> QED
  BY <1>9, <1>10, <1>11 DEF MembersInv

LEMMA RefusalsKeep ==
  ASSUME MembersInv, NEW r \in Requests, Refuse(r)
  PROVE  MembersInv'
<1>0. TypeOK
  BY DEF MembersInv
<1>1. request' = [request EXCEPT ![r] = NoRequest] /\ UNCHANGED <<bank, commits>>
  BY DEF Refuse
<1>2. request'[r] = NoRequest /\ \A q \in Requests \ {r} : request'[q] = request[q]
  BY <1>0, <1>1, NoRequestIsNone, OneRequestMoves
<1>3. TypeOK'
  BY <1>0, <1>1, NoRequestIsNone, TypesRest
<1>4. \A q \in Requests : ReadsHold(q)' /\ CheckHolds(q)'
  <2>1. request'[r] = NoRequest => CheckHolds(r)'
    BY DEF CheckHolds
  <2> QED
    BY <1>1, <2>1, NoRequestIsNone, OthersCheck
<1>5. ItemsAreHeld'
  BY <1>1, <1>2, NoRequestIsNone, ItemsRest DEF bank
<1> QED
  BY <1>3, <1>4, <1>5 DEF MembersInv

LEMMA CommitsKeep ==
  ASSUME MembersInv, NEW r \in Requests, Commit(r),
         active' \subseteq People, roles' \in [People -> SUBSET AdminRoles], customManages' \in BOOLEAN,
         owner' \in [Items -> People], open' \in [Items -> BOOLEAN],
         \A q \in Requests \ {r} : Holding(q) => \A i \in request[q].items :
           owner'[i] = owner[i] /\ (open[i] => open'[i])
  PROVE  MembersInv'
<1>0. TypeOK /\ \A q \in Requests : ReadsHold(q) /\ CheckHolds(q)
  BY DEF MembersInv
<1>1. request'[r].kind = "none" /\ \A q \in Requests \ {r} : request'[q] = request[q]
  BY <1>0, CommitIsOnesOwn
<1>2. TypeOK'
  BY <1>0, TypesCommit
<1>3. \A q \in Requests : ReadsHold(q)' /\ CheckHolds(q)'
  BY <1>0, ChecksLapse
<1>4. ItemsAreHeld'
  BY <1>1, ItemsRest
<1> QED
  BY <1>2, <1>3, <1>4 DEF MembersInv

LEMMA MembersInvKept == MembersInv /\ [Next]_vars => MembersInv'
<1> SUFFICES ASSUME MembersInv, [Next]_vars PROVE MembersInv'
  OBVIOUS
<1>0. TypeOK /\ ItemsAreHeld /\ commits \in 0 .. MaxCommits
  BY DEF MembersInv, TypeOK
<1>types. /\ active \subseteq People /\ roles \in [People -> SUBSET AdminRoles]
          /\ customManages \in BOOLEAN /\ owner \in [Items -> People] /\ open \in [Items -> BOOLEAN]
  BY <1>0 DEF TypeOK
<1>1. ASSUME NEW r \in Requests, NEW i \in Items, NEW u \in People, BeginAssign(r, i, u) PROVE MembersInv'
  <2> DEFINE read == [kind |-> "assign", since |-> commits, items |-> {i}, who |-> u]
  <2>1. read \in Reads /\ read.kind = "assign" /\ read.since = commits /\ read.items = {i}
    BY <1>0 DEF Reads
  <2>2. Begin(r, read) /\ i \notin HeldItems
    BY <1>1 DEF BeginAssign
  <2> HIDE DEF read
  <2>3. read # NoRequest
    BY <2>1, NoRequestIsNone
  <2> QED
    BY <2>1, <2>2, <2>3, BeginsKeep
<1>2. ASSUME NEW r \in Requests, NEW u \in People, NEW rs \in SUBSET AdminRoles, BeginRoles(r, u, rs)
      PROVE  MembersInv'
  <2> DEFINE read == [kind |-> "roles", since |-> commits, who |-> u, set |-> rs]
  <2>1. read \in Reads /\ read.kind = "roles" /\ read.since = commits /\ read.who = u /\ read.set = rs
    BY <1>0 DEF Reads
  <2>2. Begin(r, read) /\ NotLastAdmin(u, Grants(rs, customManages))
    BY <1>2 DEF BeginRoles
  <2> HIDE DEF read
  <2>3. read # NoRequest
    BY <2>1, NoRequestIsNone
  <2>4. NotLastAdmin(read.who, Grants(read.set, customManages))
    BY <2>1, <2>2
  <2> QED
    BY <2>1, <2>2, <2>3, <2>4, BeginsKeep
<1>3. ASSUME NEW r \in Requests, NEW u \in People, BeginDeactivate(r, u) PROVE MembersInv'
  <2> DEFINE read == [kind |-> "deactivate", since |-> commits, who |-> u]
  <2>1. read \in Reads /\ read.kind = "deactivate" /\ read.since = commits /\ read.who = u
    BY <1>0 DEF Reads
  <2>2. Begin(r, read) /\ OwnedWork(u) = {} /\ NotLastAdmin(u, FALSE)
    BY <1>3 DEF BeginDeactivate
  <2> HIDE DEF read
  <2>3. read # NoRequest
    BY <2>1, NoRequestIsNone
  <2>4. OwnedWork(read.who) = {} /\ NotLastAdmin(read.who, FALSE)
    BY <2>1, <2>2
  <2> QED
    BY <2>1, <2>2, <2>3, <2>4, BeginsKeep
<1>4. ASSUME NEW r \in Requests, NEW u \in People, NEW v \in People, BeginRemove(r, u, v) PROVE MembersInv'
  <2> DEFINE read == [kind |-> "remove", since |-> commits, who |-> u, to |-> v, items |-> {}, moved |-> FALSE]
  <2>1. /\ read \in Reads /\ read.kind = "remove" /\ read.since = commits
        /\ read.who = u /\ read.to = v /\ read.items = {} /\ ~read.moved
    BY <1>0 DEF Reads
  <2>2. Begin(r, read) /\ u \notin HeldMemberships /\ u # v
    BY <1>4 DEF BeginRemove
  <2> HIDE DEF read
  <2>3. read # NoRequest
    BY <2>1, NoRequestIsNone
  <2> QED
    BY <2>1, <2>2, <2>3, BeginsKeep
<1>5. ASSUME NEW r \in Requests, Assign(r) PROVE MembersInv'
  <2>1. request[r] \in [kind : {"assign"}, since : 0..MaxCommits, items : SUBSET Items, who : People]
    BY <1>0, <1>5, RequestHas DEF Assign
  <2>2. /\ owner' = [i \in Items |-> IF i \in request[r].items THEN request[r].who ELSE owner[i]]
        /\ open' = [i \in Items |-> i \in request[r].items \/ open[i]]
        /\ Commit(r) /\ UNCHANGED <<active, roles, customManages>>
    BY <1>5 DEF Assign
  <2>3. owner' \in [Items -> People] /\ open' \in [Items -> BOOLEAN]
    BY <1>types, <2>1, <2>2
  <2>4. ASSUME NEW q \in Requests \ {r}, Holding(q), NEW i \in request[q].items
        PROVE  owner'[i] = owner[i] /\ (open[i] => open'[i])
    <3>1. i \notin request[r].items
      BY <1>0, <2>1, <2>4 DEF ItemsAreHeld, Holding
    <3>2. i \in Items
      BY <1>0, <2>4, RequestHas DEF Holding
    <3> QED
      BY <2>2, <3>1, <3>2
  <2> QED
    BY <1>types, <2>2, <2>3, <2>4, CommitsKeep
<1>6. ASSUME NEW r \in Requests, NEW i \in Items, Finish(r, i) \/ Reopen(r, i) PROVE MembersInv'
  <2>1. /\ Commit(r) /\ i \notin HeldItems /\ UNCHANGED <<active, roles, customManages, owner>>
        /\ open' = [open EXCEPT ![i] = FALSE] \/ open' = [open EXCEPT ![i] = TRUE]
    BY <1>6 DEF Finish, Reopen
  <2>2. open' \in [Items -> BOOLEAN] /\ \A j \in Items \ {i} : open'[j] = open[j]
    BY <1>types, <2>1
  <2>3. ASSUME NEW q \in Requests \ {r}, Holding(q), NEW j \in request[q].items
        PROVE  owner'[j] = owner[j] /\ (open[j] => open'[j])
    <3>1. j # i
      BY <2>1, <2>3, HeldIsHeld
    <3>2. j \in Items
      BY <1>0, <2>3, RequestHas DEF Holding
    <3> QED
      BY <2>1, <2>2, <3>1, <3>2
  <2> QED
    BY <1>types, <2>1, <2>2, <2>3, CommitsKeep
<1>7. ASSUME NEW r \in Requests, Remove(r) PROVE MembersInv'
  <2>1. request[r] \in [kind : {"remove"}, since : 0..MaxCommits, who : People, to : People,
                        items : SUBSET Items, moved : BOOLEAN]
    BY <1>0, <1>7, RequestHas DEF Remove
  <2>2. /\ owner' = [i \in Items |-> IF i \in request[r].items THEN request[r].to ELSE owner[i]]
        /\ active' = active \ {request[r].who}
        /\ Commit(r) /\ UNCHANGED <<roles, customManages, open>>
    BY <1>7 DEF Remove
  <2>3. owner' \in [Items -> People] /\ active' \subseteq People
    BY <1>types, <2>1, <2>2
  <2>4. ASSUME NEW q \in Requests \ {r}, Holding(q), NEW i \in request[q].items
        PROVE  owner'[i] = owner[i] /\ (open[i] => open'[i])
    <3>1. i \notin request[r].items
      BY <1>0, <2>1, <2>4 DEF ItemsAreHeld, Holding
    <3>2. i \in Items
      BY <1>0, <2>4, RequestHas DEF Holding
    <3> QED
      BY <2>2, <3>1, <3>2
  <2> QED
    BY <1>types, <2>2, <2>3, <2>4, CommitsKeep
<1>8. ASSUME NEW r \in Requests, Commit(r), UNCHANGED <<owner, open>>,
             active' \subseteq People, roles' \in [People -> SUBSET AdminRoles], customManages' \in BOOLEAN
      PROVE  MembersInv'
  BY <1>8, <1>types, CommitsKeep
<1>9. ASSUME NEW r \in Requests, ChangeRoles(r) PROVE MembersInv'
  <2>1. request[r] \in [kind : {"roles"}, since : 0..MaxCommits, who : People, set : SUBSET AdminRoles]
    BY <1>0, <1>9, RequestHas DEF ChangeRoles
  <2>2. roles' \in [People -> SUBSET AdminRoles]
    BY <1>types, <1>9, <2>1 DEF ChangeRoles
  <2> QED
    BY <1>8, <1>9, <1>types, <2>2 DEF ChangeRoles
<1>10. ASSUME NEW r \in Requests, NEW manages \in BOOLEAN, UpdateRole(r, manages) PROVE MembersInv'
  BY <1>8, <1>10, <1>types DEF UpdateRole
<1>11. ASSUME NEW r \in Requests, Deactivate(r) PROVE MembersInv'
  BY <1>8, <1>11, <1>types DEF Deactivate
<1>12. ASSUME NEW r \in Requests, NEW u \in People, NEW rs \in SUBSET AdminRoles, Rejoin(r, u, rs)
       PROVE  MembersInv'
  <2>1. active' \subseteq People /\ roles' \in [People -> SUBSET AdminRoles]
    BY <1>types, <1>12 DEF Rejoin
  <2> QED
    BY <1>8, <1>12, <1>types, <2>1 DEF Rejoin
<1>13. ASSUME NEW r \in Requests, MoveWork(r) \/ Refuse(r) PROVE MembersInv'
  BY <1>13, MovesKeep, RefusalsKeep
<1>14. CASE UNCHANGED vars
  <2>1. UNCHANGED <<active, roles, customManages, owner, open, request, commits>> /\ UNCHANGED bank
    BY <1>14 DEF vars, bank
  <2>2. TypeOK'
    BY <1>0, <2>1 DEF TypeOK
  <2>3. ItemsAreHeld'
    BY <1>0, <2>1 DEF ItemsAreHeld, ItemsAreTheirs, Moves, Holding
  <2>4. \A r \in Requests : ReadsHold(r)' /\ CheckHolds(r)'
    BY <2>1, ChecksRest DEF MembersInv
  <2> QED
    BY <2>2, <2>3, <2>4 DEF MembersInv
<1> QED
  BY <1>1, <1>2, <1>3, <1>4, <1>5, <1>6, <1>7, <1>9, <1>10, <1>11, <1>12, <1>13, <1>14 DEF Next

\* A running request has found what its commit relies on, for as long as nobody
\* has committed since it read, and what it has locked nobody changes
\* (members_logic, reassignment).
THEOREM MembersInvariant == Spec => []MembersInv
<1>1. Init => MembersInv
  <2> SUFFICES ASSUME Init PROVE MembersInv
    OBVIOUS
  <2> USE DEF Init
  <2>1. \A r \in Requests : request[r] = NoRequest /\ request[r].kind = "none"
    BY NoRequestIsNone
  <2>2. TypeOK
    BY <2>1, NoRequestIsNone, MembersAssumption DEF TypeOK
  <2>3. ItemsAreHeld
    BY <2>1 DEF ItemsAreHeld, ItemsAreTheirs, Moves, Holding
  <2>4. \A r \in Requests : ReadsHold(r) /\ CheckHolds(r)
    BY <2>1 DEF ReadsHold, CheckHolds
  <2> QED
    BY <2>2, <2>3, <2>4 DEF MembersInv
<1> QED
  BY <1>1, MembersInvKept, PTL DEF Spec

\* Who stops being a member was deactivated or removed by the request that says so.
LEMMA WhoLeaves ==
  ASSUME [Next]_vars, NEW u \in active \ active'
  PROVE  \E r \in Requests : (Deactivate(r) \/ Remove(r)) /\ u = request[r].who
<1>1. ASSUME NEW r \in Requests, Deactivate(r) \/ Remove(r) PROVE u = request[r].who
  BY <1>1 DEF Deactivate, Remove
<1>2. ~UNCHANGED vars
  BY DEF vars, bank
<1>3. PICK r \in Requests :
        \/ \E i \in Items, v \in People : BeginAssign(r, i, v)
        \/ Assign(r)
        \/ \E i \in Items : Finish(r, i) \/ Reopen(r, i)
        \/ \E v \in People, rs \in SUBSET AdminRoles : BeginRoles(r, v, rs) \/ Rejoin(r, v, rs)
        \/ ChangeRoles(r)
        \/ \E manages \in BOOLEAN : UpdateRole(r, manages)
        \/ \E v \in People : BeginDeactivate(r, v)
        \/ Deactivate(r)
        \/ \E v, w \in People : BeginRemove(r, v, w)
        \/ MoveWork(r) \/ Remove(r) \/ Refuse(r)
  BY <1>2 DEF Next
<1>4. Deactivate(r) \/ Remove(r)
  BY <1>3 DEF BeginAssign, Assign, Finish, Reopen, BeginRoles, Rejoin, ChangeRoles, UpdateRole,
              BeginDeactivate, BeginRemove, MoveWork, Refuse, Begin, bank
<1> QED
  BY <1>1, <1>4

\* What a removal has locked is its person's, open, until it commits, and it all
\* reaches the person named (reassignment.transfer_open_work).
THEOREM RemovalsHandOverWhatTheyLocked == Spec => HandsOverWhatItLocked
<1> DEFINE HandsOver(r) ==
      request[r].kind = "remove" /\ request[r].who \in active \ active' =>
        \A i \in request[r].items :
          /\ owner[i] = request[r].who /\ open[i]
          /\ owner'[i] = request[r].to /\ open'[i]
<1>1. ASSUME MembersInv, [Next]_vars, NEW r \in Requests PROVE HandsOver(r)
  <2> SUFFICES ASSUME request[r].kind = "remove", request[r].who \in active \ active',
                      NEW i \in request[r].items
               PROVE  /\ owner[i] = request[r].who /\ open[i]
                      /\ owner'[i] = request[r].to /\ open'[i]
    OBVIOUS
  <2>0. TypeOK /\ ItemsAreTheirs(r)
    BY <1>1 DEF MembersInv, ItemsAreHeld
  <2>1. PICK q \in Requests : (Deactivate(q) \/ Remove(q)) /\ request[r].who = request[q].who
    BY <1>1, WhoLeaves
  <2>2. request[r].who \in HeldMemberships
    BY HeldIsHeld DEF Moves
  <2>3. Remove(q)
    BY <2>1, <2>2 DEF Deactivate
  <2>4. q = r
    BY <2>0, <2>1, <2>3, RemovalsAreApart DEF Remove
  <2>5. i \in Items
    BY <2>0, RequestHas
  <2>6. owner'[i] = request[r].to /\ open'[i] = open[i]
    BY <2>3, <2>4, <2>5 DEF Remove
  <2> QED
    BY <2>0, <2>6 DEF ItemsAreTheirs, Moves
<1>2. MembersInv /\ [Next]_vars => \A r \in Requests : HandsOver(r)
  BY <1>1
<1> QED
  BY <1>2, MembersInvariant, PTL DEF Spec, HandsOverWhatItLocked

\* A change of roles, a deactivation or a removal that its check would still let
\* through when it commits leaves an administrator (assert_not_last_admin).
LEMMA CheckedChangesKeepAnAdmin ==
  ASSUME TypeOK, NEW r \in Requests, Admins # {},
         \/ ChangeRoles(r) /\ NotLastAdmin(request[r].who, Grants(request[r].set, customManages))
         \/ (Deactivate(r) \/ Remove(r)) /\ NotLastAdmin(request[r].who, FALSE)
  PROVE  Admins' # {}
<1>1. CASE ChangeRoles(r) /\ NotLastAdmin(request[r].who, Grants(request[r].set, customManages))
  <2>1. request[r] \in [kind : {"roles"}, since : 0..MaxCommits, who : People, set : SUBSET AdminRoles]
    BY <1>1, RequestHas DEF ChangeRoles
  <2>2. /\ UNCHANGED <<active, customManages>>
        /\ roles' = [roles EXCEPT ![request[r].who] = request[r].set]
    BY <1>1 DEF ChangeRoles
  <2>3. /\ roles'[request[r].who] = request[r].set
        /\ \A u \in People \ {request[r].who} : roles'[u] = roles[u]
    BY <2>1, <2>2 DEF TypeOK
  <2>4. \A u \in Admins : u # request[r].who => u \in Admins'
    BY <2>2, <2>3 DEF TypeOK, Admins
  <2>5. request[r].who \in Admins /\ Grants(request[r].set, customManages) => request[r].who \in Admins'
    BY <2>2, <2>3 DEF Admins
  <2> QED
    BY <1>1, <2>4, <2>5 DEF NotLastAdmin
<1>2. CASE (Deactivate(r) \/ Remove(r)) /\ NotLastAdmin(request[r].who, FALSE)
  <2>1. active' = active \ {request[r].who} /\ UNCHANGED <<roles, customManages>>
    BY <1>2 DEF Deactivate, Remove
  <2>2. Admins' = Admins \ {request[r].who}
    BY <2>1 DEF Admins
  <2> QED
    BY <1>2, <2>2 DEF NotLastAdmin
<1> QED
  BY <1>1, <1>2

\* Whoever commits on reads nobody has overtaken leaves the bank an administrator
\* if it had one, and nobody who leaves it an open item ("No plain removal
\* leaves an owner who cannot sign in", deactivate_member; ID-S19).
THEOREM AloneTheBankIsKept == Spec => AloneKeepsTheBank
<1> DEFINE Keeping(r) ==
      ReadsAreCurrent(r) => /\ Admins # {} => Admins' # {}
                            /\ \A u \in active \ active', i \in Items : ~(owner'[i] = u /\ open'[i])
<1>1. ASSUME MembersInv, [Next]_vars, NEW r \in Requests PROVE Keeping(r)
  <2> SUFFICES ASSUME ReadsAreCurrent(r)
               PROVE  /\ Admins # {} => Admins' # {}
                      /\ \A u \in active \ active', i \in Items : ~(owner'[i] = u /\ open'[i])
    OBVIOUS
  <2>0. TypeOK /\ ItemsAreTheirs(r) /\ CheckHolds(r)
    BY <1>1 DEF MembersInv, ItemsAreHeld
  <2>1. request[r] # NoRequest /\ request'[r] = NoRequest /\ commits' # commits /\ request[r].since = commits
    BY DEF ReadsAreCurrent
  <2>2. PICK q \in Requests : Commit(q) /\
          \/ Assign(q) \/ ChangeRoles(q) \/ Deactivate(q) \/ Remove(q)
          \/ request[q] = NoRequest
    <3>1. UNCHANGED vars => commits' = commits
      BY DEF vars
    <3>2. PICK q \in Requests :
            \/ \E i \in Items, u \in People : BeginAssign(q, i, u)
            \/ Assign(q)
            \/ \E i \in Items : Finish(q, i) \/ Reopen(q, i)
            \/ \E u \in People, rs \in SUBSET AdminRoles : BeginRoles(q, u, rs) \/ Rejoin(q, u, rs)
            \/ ChangeRoles(q)
            \/ \E manages \in BOOLEAN : UpdateRole(q, manages)
            \/ \E u \in People : BeginDeactivate(q, u)
            \/ Deactivate(q)
            \/ \E u, v \in People : BeginRemove(q, u, v)
            \/ MoveWork(q) \/ Remove(q) \/ Refuse(q)
      BY <1>1, <2>1, <3>1 DEF Next
    <3>3. /\ \A i \in Items, u \in People : BeginAssign(q, i, u) => commits' = commits
          /\ \A u \in People, rs \in SUBSET AdminRoles : BeginRoles(q, u, rs) => commits' = commits
          /\ \A u \in People : BeginDeactivate(q, u) => commits' = commits
          /\ \A u, v \in People : BeginRemove(q, u, v) => commits' = commits
          /\ MoveWork(q) \/ Refuse(q) => commits' = commits
      BY DEF BeginAssign, BeginRoles, BeginDeactivate, BeginRemove, Begin, MoveWork, Refuse
    <3>4. /\ \A i \in Items : Finish(q, i) \/ Reopen(q, i) => Commit(q) /\ request[q] = NoRequest
          /\ \A u \in People, rs \in SUBSET AdminRoles :
               Rejoin(q, u, rs) => Commit(q) /\ request[q] = NoRequest
          /\ \A manages \in BOOLEAN : UpdateRole(q, manages) => Commit(q) /\ request[q] = NoRequest
      BY DEF Finish, Reopen, Rejoin, UpdateRole
    <3>5. Assign(q) \/ ChangeRoles(q) \/ Deactivate(q) \/ Remove(q) => Commit(q)
      BY DEF Assign, ChangeRoles, Deactivate, Remove
    <3> QED
      BY <2>1, <3>2, <3>3, <3>4, <3>5
  <2>3. q = r
    BY <2>0, <2>1, <2>2, CommitIsOnesOwn
  <2>4. Assign(r) \/ ChangeRoles(r) \/ Deactivate(r) \/ Remove(r)
    BY <2>1, <2>2, <2>3
  <2>5. CASE Assign(r)
    <3>1. UNCHANGED <<active, roles, customManages>>
      BY <2>5 DEF Assign
    <3> QED
      BY <3>1 DEF Admins
  <2>6. CASE ChangeRoles(r)
    <3>1. UNCHANGED active /\ NotLastAdmin(request[r].who, Grants(request[r].set, customManages))
      BY <2>0, <2>1, <2>6 DEF ChangeRoles, CheckHolds
    <3> QED
      BY <2>0, <2>6, <3>1, CheckedChangesKeepAnAdmin
  <2>7. CASE Deactivate(r)
    <3>1. /\ active' = active \ {request[r].who} /\ UNCHANGED <<owner, open>>
          /\ NotLastAdmin(request[r].who, FALSE) /\ OwnedWork(request[r].who) = {}
      BY <2>0, <2>1, <2>7 DEF Deactivate, CheckHolds
    <3>2. \A u \in active \ active', i \in Items : ~(owner'[i] = u /\ open'[i])
      BY <3>1 DEF OwnedWork
    <3> QED
      BY <2>0, <2>7, <3>1, <3>2, CheckedChangesKeepAnAdmin
  <2>8. CASE Remove(r)
    <3>1. /\ active' = active \ {request[r].who} /\ UNCHANGED open
          /\ NotLastAdmin(request[r].who, FALSE) /\ request[r].items = OwnedWork(request[r].who)
          /\ owner' = [i \in Items |-> IF i \in request[r].items THEN request[r].to ELSE owner[i]]
          /\ request[r].who # request[r].to
      BY <2>0, <2>1, <2>8 DEF Remove, CheckHolds, ItemsAreTheirs, Moves
    <3>2. ASSUME NEW i \in Items PROVE ~(owner'[i] = request[r].who /\ open'[i])
      BY <3>1 DEF OwnedWork
    <3> QED
      BY <2>0, <2>8, <3>1, <3>2, CheckedChangesKeepAnAdmin
  <2> QED
    BY <2>4, <2>5, <2>6, <2>7, <2>8
<1>2. MembersInv /\ [Next]_vars => \A r \in Requests : Keeping(r)
  BY <1>1
<1> QED
  BY <1>2, MembersInvariant, PTL DEF Spec, AloneKeepsTheBank

-----------------------------------------------------------------------------
(* One change of the administrators at a time.  Nothing in the code makes  *)
(* it so: the check reads without a lock, and two requests that pass it    *)
(* side by side can empty the bank (KeepsOneAdmin is violated).  What one  *)
(* lock would buy is everything, whatever else commits meanwhile.          *)
ChecksAdmins(r) == request[r].kind \in {"roles", "deactivate", "remove"}

OneAtATime == \A r, q \in Requests : ChecksAdmins(r) /\ ChecksAdmins(q) => r = q

\* The check a running request made would pass again.
StillAllowed(r) ==
  /\ request[r].kind = "roles" => NotLastAdmin(request[r].who, Grants(request[r].set, customManages))
  /\ request[r].kind = "deactivate" \/ (Moves(r) /\ request[r].moved) => NotLastAdmin(request[r].who, FALSE)

AdminInv == KeepsOneAdmin /\ \A r \in Requests : StillAllowed(r)

\* A check stands while nobody stops being an administrator.
LEMMA ChecksStand ==
  ASSUME KeepsOneAdmin, NEW r, StillAllowed(r), request'[r] = request[r],
         Admins \subseteq Admins', customManages' = customManages
  PROVE  StillAllowed(r)'
<1>1. \A u : (u \in Admins => Admins \ {u} # {}) => (u \in Admins' => Admins' \ {u} # {})
  BY DEF KeepsOneAdmin
<1>2. Grants(request[r].set, customManages)' <=> Grants(request[r].set, customManages)
  BY DEF Grants
<1>3. ASSUME request[r].kind = "roles"
      PROVE  NotLastAdmin(request[r].who, Grants(request[r].set, customManages))'
  <2>1. CASE Grants(request[r].set, customManages)
    BY <1>2, <2>1 DEF NotLastAdmin
  <2>2. CASE ~Grants(request[r].set, customManages)
    BY <1>1, <1>2, <1>3, <2>2 DEF StillAllowed, NotLastAdmin
  <2> QED
    BY <2>1, <2>2
<1>4. ASSUME request[r].kind = "deactivate" \/ (Moves(r) /\ request[r].moved)
      PROVE  NotLastAdmin(request[r].who, FALSE)'
  BY <1>1, <1>4 DEF StillAllowed, NotLastAdmin
<1> QED
  BY <1>3, <1>4 DEF StillAllowed, Moves, NotLastAdmin, Grants

\* A request that begins, goes on or ends, the bank as it was.
LEMMA RequestsKeepTheirChecks ==
  ASSUME TypeOK, AdminInv, NEW r \in Requests, NEW u \in Reads, request' = [request EXCEPT ![r] = u],
         UNCHANGED bank,
         u.kind = "roles" => NotLastAdmin(u.who, Grants(u.set, customManages)),
         u.kind = "deactivate" \/ (u.kind = "remove" /\ u.moved) => NotLastAdmin(u.who, FALSE)
  PROVE  AdminInv'
<1>1. request'[r] = u /\ \A q \in Requests \ {r} : request'[q] = request[q]
  BY OneRequestMoves
<1>2. UNCHANGED <<active, roles, customManages>>
  BY DEF bank
<1>3. Admins' = Admins
  BY <1>2 DEF Admins
<1>4. \A q \in Requests \ {r} : StillAllowed(q)'
  BY <1>1, <1>2, <1>3, ChecksStand DEF AdminInv
<1>5. StillAllowed(r)'
  BY <1>1, <1>2, <1>3 DEF StillAllowed, Moves, NotLastAdmin
<1> QED
  BY <1>3, <1>4, <1>5 DEF AdminInv, KeepsOneAdmin

\* A commit that takes nobody's permission.
LEMMA CommitsKeepTheChecks ==
  ASSUME TypeOK, AdminInv, NEW r \in Requests, Commit(r), Admins \subseteq Admins', UNCHANGED customManages
  PROVE  AdminInv'
<1>1. request'[r].kind = "none" /\ \A q \in Requests \ {r} : request'[q] = request[q]
  BY CommitIsOnesOwn
<1>2. \A q \in Requests \ {r} : StillAllowed(q)'
  BY <1>1, ChecksStand DEF AdminInv
<1>3. StillAllowed(r)'
  BY <1>1 DEF StillAllowed, Moves
<1> QED
  BY <1>2, <1>3 DEF AdminInv, KeepsOneAdmin

\* A commit that may: the only request that had made the check was its own.
LEMMA ChangesKeepTheChecks ==
  ASSUME TypeOK, AdminInv, OneAtATime, NEW r \in Requests, ChangeRoles(r) \/ Deactivate(r) \/ Remove(r)
  PROVE  AdminInv'
<1>1. Commit(r) /\ ChecksAdmins(r)
  BY DEF ChangeRoles, Deactivate, Remove, ChecksAdmins
<1>2. request'[r].kind = "none" /\ \A q \in Requests \ {r} : request'[q] = request[q]
  BY <1>1, CommitIsOnesOwn
<1>3. \A q \in Requests : StillAllowed(q)'
  <2>1. \A q \in Requests \ {r} : ~ChecksAdmins(q)
    BY <1>1 DEF OneAtATime
  <2>2. \A q \in Requests : request'[q].kind \notin {"roles", "deactivate", "remove"}
    BY <1>2, <2>1 DEF ChecksAdmins
  <2> QED
    BY <2>2 DEF StillAllowed, Moves
<1>4. Admins' # {}
  <2>1. CASE ChangeRoles(r)
    <3>1. NotLastAdmin(request[r].who, Grants(request[r].set, customManages))
      BY <2>1 DEF ChangeRoles, AdminInv, StillAllowed
    <3> QED
      BY <2>1, <3>1, CheckedChangesKeepAnAdmin DEF AdminInv, KeepsOneAdmin
  <2>2. CASE Deactivate(r) \/ Remove(r)
    <3>1. NotLastAdmin(request[r].who, FALSE)
      BY <2>2 DEF Deactivate, Remove, AdminInv, StillAllowed, Moves
    <3> QED
      BY <2>2, <3>1, CheckedChangesKeepAnAdmin DEF AdminInv, KeepsOneAdmin
  <2> QED
    BY <2>1, <2>2
<1> QED
  BY <1>3, <1>4 DEF AdminInv, KeepsOneAdmin

LEMMA AdminInvKept ==
  ASSUME TypeOK, AdminInv, OneAtATime, ~RoleEdits, [Next]_vars
  PROVE  AdminInv'
<1>0. commits \in 0 .. MaxCommits
  BY DEF TypeOK
<1>1. ASSUME NEW r \in Requests, NEW i \in Items, NEW u \in People, BeginAssign(r, i, u) PROVE AdminInv'
  <2> DEFINE read == [kind |-> "assign", since |-> commits, items |-> {i}, who |-> u]
  <2>1. read \in Reads /\ read.kind = "assign"
    BY <1>0 DEF Reads
  <2>2. request' = [request EXCEPT ![r] = read] /\ UNCHANGED bank
    BY <1>1 DEF BeginAssign, Begin
  <2> HIDE DEF read
  <2> QED
    BY <2>1, <2>2, RequestsKeepTheirChecks
<1>2. ASSUME NEW r \in Requests, NEW u \in People, NEW rs \in SUBSET AdminRoles, BeginRoles(r, u, rs)
      PROVE  AdminInv'
  <2> DEFINE read == [kind |-> "roles", since |-> commits, who |-> u, set |-> rs]
  <2>1. read \in Reads /\ read.kind = "roles" /\ read.who = u /\ read.set = rs
    BY <1>0 DEF Reads
  <2>2. /\ request' = [request EXCEPT ![r] = read] /\ UNCHANGED bank
        /\ NotLastAdmin(u, Grants(rs, customManages))
    BY <1>2 DEF BeginRoles, Begin
  <2> HIDE DEF read
  <2>3. NotLastAdmin(read.who, Grants(read.set, customManages))
    BY <2>1, <2>2
  <2> QED
    BY <2>1, <2>2, <2>3, RequestsKeepTheirChecks
<1>3. ASSUME NEW r \in Requests, NEW u \in People, BeginDeactivate(r, u) PROVE AdminInv'
  <2> DEFINE read == [kind |-> "deactivate", since |-> commits, who |-> u]
  <2>1. read \in Reads /\ read.kind = "deactivate" /\ read.who = u
    BY <1>0 DEF Reads
  <2>2. request' = [request EXCEPT ![r] = read] /\ UNCHANGED bank /\ NotLastAdmin(u, FALSE)
    BY <1>3 DEF BeginDeactivate, Begin
  <2> HIDE DEF read
  <2>3. NotLastAdmin(read.who, FALSE)
    BY <2>1, <2>2
  <2> QED
    BY <2>1, <2>2, <2>3, RequestsKeepTheirChecks
<1>4. ASSUME NEW r \in Requests, NEW u \in People, NEW v \in People, BeginRemove(r, u, v) PROVE AdminInv'
  <2> DEFINE read == [kind |-> "remove", since |-> commits, who |-> u, to |-> v, items |-> {}, moved |-> FALSE]
  <2>1. read \in Reads /\ read.kind = "remove" /\ ~read.moved
    BY <1>0 DEF Reads
  <2>2. request' = [request EXCEPT ![r] = read] /\ UNCHANGED bank
    BY <1>4 DEF BeginRemove, Begin
  <2> HIDE DEF read
  <2> QED
    BY <2>1, <2>2, RequestsKeepTheirChecks
<1>5. ASSUME NEW r \in Requests, MoveWork(r) PROVE AdminInv'
  <2>1. /\ \A q \in Requests \ {r} : request'[q] = request[q]
        /\ request'[r].kind = "remove" /\ request'[r].who = request[r].who
    BY <1>5 DEF MoveWork, TypeOK
  <2>2. UNCHANGED <<active, roles, customManages>> /\ NotLastAdmin(request[r].who, FALSE)
    BY <1>5 DEF MoveWork, bank
  <2>3. Admins' = Admins
    BY <2>2 DEF Admins
  <2>4. \A q \in Requests \ {r} : StillAllowed(q)'
    BY <2>1, <2>2, <2>3, ChecksStand DEF AdminInv
  <2>5. StillAllowed(r)'
    BY <2>1, <2>2, <2>3 DEF StillAllowed, NotLastAdmin
  <2> QED
    BY <2>3, <2>4, <2>5 DEF AdminInv, KeepsOneAdmin
<1>6. ASSUME NEW r \in Requests, Refuse(r) PROVE AdminInv'
  <2>1. request' = [request EXCEPT ![r] = NoRequest] /\ UNCHANGED bank
    BY <1>6 DEF Refuse
  <2> QED
    BY <2>1, NoRequestIsNone, RequestsKeepTheirChecks
<1>7. ASSUME NEW r \in Requests, Commit(r), UNCHANGED <<active, roles, customManages>> PROVE AdminInv'
  BY <1>7, CommitsKeepTheChecks DEF Admins
<1>8. ASSUME NEW r \in Requests, Assign(r) \/ \E i \in Items : Finish(r, i) \/ Reopen(r, i)
      PROVE  AdminInv'
  BY <1>7, <1>8 DEF Assign, Finish, Reopen
<1>9. ASSUME NEW r \in Requests, NEW u \in People, NEW rs \in SUBSET AdminRoles, Rejoin(r, u, rs)
      PROVE  AdminInv'
  <2>1. /\ Commit(r) /\ UNCHANGED customManages /\ u \notin active
        /\ active' = active \cup {u} /\ roles' = [roles EXCEPT ![u] = rs]
    BY <1>9 DEF Rejoin
  <2>2. \A v \in active : v \in active' /\ roles'[v] = roles[v]
    BY <2>1 DEF TypeOK
  <2>3. Admins \subseteq Admins'
    BY <2>1, <2>2 DEF Admins
  <2> QED
    BY <2>1, <2>3, CommitsKeepTheChecks
<1>10. CASE UNCHANGED vars
  <2>1. UNCHANGED <<active, roles, customManages, request>>
    BY <1>10 DEF vars, bank
  <2>2. Admins' = Admins
    BY <2>1 DEF Admins
  <2>3. \A r \in Requests : StillAllowed(r)'
    BY <2>1, <2>2, ChecksStand DEF AdminInv
  <2> QED
    BY <2>2, <2>3 DEF AdminInv, KeepsOneAdmin
<1> QED
  BY <1>1, <1>2, <1>3, <1>4, <1>5, <1>6, <1>8, <1>9, <1>10, ChangesKeepTheChecks
     DEF Next, UpdateRole

\* In a bank where a person's roles are changed, a deactivation or a removal is
\* decided one at a time, and nobody edits the bank's own role, there is always
\* somebody who holds members.manage, whatever else commits in between ("A tenant
\* always keeps one member holding members.manage", ID-S19): the check is enough,
\* and what KeepsOneAdmin's counterexample needs is two of them side by side.
THEOREM OneAtATimeKeepsAnAdmin ==
  ASSUME ~RoleEdits
  PROVE  Spec /\ []OneAtATime => []KeepsOneAdmin
<1>1. Init => AdminInv
  BY NoRequestIsNone DEF Init, AdminInv, KeepsOneAdmin, StillAllowed, Moves
<1>2. TypeOK /\ AdminInv /\ OneAtATime /\ [Next]_vars => AdminInv'
  BY AdminInvKept
<1>3. MembersInv => TypeOK
  BY DEF MembersInv
<1>4. AdminInv => KeepsOneAdmin
  BY DEF AdminInv
<1> QED
  BY <1>1, <1>2, <1>3, <1>4, MembersInvariant, PTL DEF Spec
=============================================================================
