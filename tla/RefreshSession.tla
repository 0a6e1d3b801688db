---------------------------- MODULE RefreshSession ----------------------------
(***************************************************************************)
(* One session and the browser tabs that keep it alive:                    *)
(* identity/session_logic.py's refresh and sign_out.                       *)
(*                                                                         *)
(* The refresh secret is rotated on each refresh; the one before it is     *)
(* still answered for REFRESH_REPLAY_GRACE_SECONDS, without a new cookie.  *)
(* The tabs share one cookie.  A refresh reads the session row without     *)
(* locking it, so it is two steps here, the read and the answer, and       *)
(* another request of the session may be handled between them.             *)
(***************************************************************************)
EXTENDS Integers, FiniteSets

CONSTANTS Tabs,
          MaxSecrets   \* bound: secrets drawn

ASSUME RefreshAssumption == MaxSecrets \in Nat

VARIABLES current, previous, inGrace, revoked,  \* the session row, and its grace window
          expired,  \* expires_at has passed
          ended,    \* a limit lowered since, the idle limit or its support grant ends it
          cookie,   \* the secret in the browser's jar
          issued,   \* secrets handed out: 1..issued
          tab,      \* each tab's request: the cookie sent, the row read, the answer
          forked    \* history: a rotation was saved over another it had not read

session == <<current, previous, inGrace, revoked, expired, ended>>
refreshVars == <<session, cookie, issued, tab, forked>>

None == 0   \* no secret
Idle == [at |-> "idle", sent |-> None, row |-> <<None, None, FALSE>>, new |-> None]

RefreshInit ==
  /\ current = 1 /\ previous = None /\ inGrace = FALSE
  /\ revoked = FALSE /\ expired = FALSE /\ ended = FALSE
  /\ cookie = 1 /\ issued = 1
  /\ tab = [t \in Tabs |-> Idle]
  /\ forked = FALSE

-----------------------------------------------------------------------------
\* A tab sends its request with the cookie the jar holds then.
Send(t, kind) ==
  /\ tab[t] = Idle /\ cookie # None
  /\ tab' = [tab EXCEPT ![t].at = kind, ![t].sent = cookie]
  /\ UNCHANGED <<session, cookie, issued, forked>>

SessionLive == ~revoked /\ ~expired   \* _live

\* _load_by_refresh: what is not live is refused a refresh here, and left as it is; a
\* sign-out asks only whether it is revoked.
Read(t) ==
  /\ tab[t].at \in {"refresh", "sign_out"}
  /\ tab' = [tab EXCEPT
       ![t].at = IF @ = "refresh" THEN (IF SessionLive THEN "refreshing" ELSE "shut")
                 ELSE IF revoked THEN "left" ELSE "leaving",
       ![t].row = <<current, previous, inGrace>>]
  /\ UNCHANGED <<session, cookie, issued, forked>>

IsCurrent(t) == tab[t].sent = tab[t].row[1]
IsPrevious(t) == tab[t].row[2] # None /\ tab[t].sent = tab[t].row[2]

\* The secret rotated away from, presented in time: an access token, no cookie.
AnswerReplay(t) ==
  /\ tab[t].at = "refreshing" /\ IsPrevious(t) /\ tab[t].row[3]
  /\ tab' = [tab EXCEPT ![t].at = "answered"]
  /\ UNCHANGED <<session, cookie, issued, forked>>

\* Presented later it is treated as stolen: the session ends.
RevokeReplay(t) ==
  /\ tab[t].at = "refreshing" /\ IsPrevious(t) /\ ~tab[t].row[3]
  /\ revoked' = TRUE
  /\ tab' = [tab EXCEPT ![t].at = "refused"]
  /\ UNCHANGED <<current, previous, inGrace, expired, ended, cookie, issued, forked>>

RefuseUnknown(t) ==
  /\ tab[t].at = "refreshing" /\ ~IsCurrent(t) /\ ~IsPrevious(t)
  /\ tab' = [tab EXCEPT ![t].at = "refused"]
  /\ UNCHANGED <<session, cookie, issued, forked>>

\* An absolute limit the bank lowered, the idle limit, or the end of the support grant
\* behind the session.
RevokeEnded(t) ==
  /\ tab[t].at = "refreshing" /\ IsCurrent(t) /\ ~IsPrevious(t) /\ ended
  /\ revoked' = TRUE
  /\ tab' = [tab EXCEPT ![t].at = "refused"]
  /\ UNCHANGED <<current, previous, inGrace, expired, ended, cookie, issued, forked>>

\* mutant: save() of the whole row, revoked_at as it was read
RotateSavingAll(t) ==
  /\ tab[t].at = "refreshing" /\ IsCurrent(t) /\ ~IsPrevious(t) /\ ~ended
  /\ issued < MaxSecrets
  /\ issued' = issued + 1
  /\ current' = issued + 1 /\ previous' = tab[t].row[1] /\ inGrace' = TRUE
  /\ revoked' = FALSE
  /\ tab' = [tab EXCEPT ![t].at = "answered", ![t].new = issued + 1]
  /\ forked' = (forked \/ tab[t].row[1] # current)
  /\ UNCHANGED <<expired, ended, cookie>>

\* mutant: the secret rotated away from is not kept
RotateForgetting(t) ==
  /\ tab[t].at = "refreshing" /\ IsCurrent(t) /\ ~IsPrevious(t) /\ ~ended
  /\ issued < MaxSecrets
  /\ issued' = issued + 1
  /\ current' = issued + 1 /\ previous' = None /\ inGrace' = TRUE
  /\ tab' = [tab EXCEPT ![t].at = "answered", ![t].new = issued + 1]
  /\ forked' = (forked \/ tab[t].row[1] # current)
  /\ UNCHANGED <<revoked, expired, ended, cookie>>

\* The rotation: the hashes are saved from the row as it was read, and nothing
\* else of the row.
Rotate(t) ==
  /\ tab[t].at = "refreshing" /\ IsCurrent(t) /\ ~IsPrevious(t) /\ ~ended
  /\ issued < MaxSecrets
  /\ issued' = issued + 1
  /\ current' = issued + 1 /\ previous' = tab[t].row[1] /\ inGrace' = TRUE
  /\ tab' = [tab EXCEPT ![t].at = "answered", ![t].new = issued + 1]
  /\ forked' = (forked \/ tab[t].row[1] # current)
  /\ UNCHANGED <<revoked, expired, ended, cookie>>

\* sign_out: only the session's secret, or the one just rotated away from,
\* ends it; any other cookie is answered the same and ends nothing.
SignOut(t) ==
  /\ tab[t].at = "leaving"
  /\ revoked' = (revoked \/ IsCurrent(t) \/ (IsPrevious(t) /\ tab[t].row[3]))
  /\ tab' = [tab EXCEPT ![t].at = "left"]
  /\ UNCHANGED <<current, previous, inGrace, expired, ended, cookie, issued, forked>>

\* The response reaches the browser: a rotation replaces the cookie, a sign-out
\* clears it, a grace answer leaves it.
Receive(t) ==
  /\ tab[t].at \in {"answered", "shut", "refused", "left"}
  /\ cookie' = CASE tab[t].at = "left" -> None
                 [] tab[t].new # None -> tab[t].new
                 [] OTHER -> cookie
  /\ tab' = [tab EXCEPT ![t] = Idle]
  /\ UNCHANGED <<session, issued, forked>>

\* An administrator, a removal or the person elsewhere: revoke_all.
RevokeAll ==
  /\ ~revoked /\ revoked' = TRUE
  /\ UNCHANGED <<current, previous, inGrace, expired, ended, cookie, issued, tab, forked>>

GraceRunsOut ==
  /\ inGrace /\ inGrace' = FALSE
  /\ UNCHANGED <<current, previous, revoked, expired, ended, cookie, issued, tab, forked>>

Expire ==
  /\ ~expired /\ expired' = TRUE
  /\ UNCHANGED <<current, previous, inGrace, revoked, ended, cookie, issued, tab, forked>>

SessionRunsOut ==
  /\ ~ended /\ ended' = TRUE
  /\ UNCHANGED <<current, previous, inGrace, revoked, expired, cookie, issued, tab, forked>>

Answer(t) ==
  \/ AnswerReplay(t) \/ RevokeReplay(t) \/ RefuseUnknown(t)
  \/ RevokeEnded(t) \/ Rotate(t) \/ SignOut(t)

RefreshNext ==
  \/ \E t \in Tabs : Send(t, "refresh") \/ Send(t, "sign_out") \/ Read(t) \/ Answer(t) \/ Receive(t)
  \/ RevokeAll \/ GraceRunsOut \/ Expire \/ SessionRunsOut

RefreshSpec == RefreshInit /\ [][RefreshNext]_refreshVars

-----------------------------------------------------------------------------
Secrets == None..MaxSecrets

\* A live row holds the newest secret drawn for it.
RefreshTypeOK ==
  /\ current \in Secrets /\ previous \in Secrets /\ cookie \in Secrets /\ issued \in 1..MaxSecrets
  /\ {inGrace, revoked, expired, ended, forked} \subseteq BOOLEAN
  /\ tab \in [Tabs -> [at : {"idle", "refresh", "sign_out", "refreshing", "leaving",
                            "answered", "shut", "refused", "left"},
                       sent : Secrets, row : Secrets \X Secrets \X BOOLEAN, new : Secrets]]
  /\ ~revoked => current = issued

\* A revoked session stays revoked, whatever a refresh that read it before the
\* sign-out or the removal writes afterwards.
RevokedStaysRevoked == [][revoked => revoked']_refreshVars

\* The session is live and no limit has ended it, and the tab was refused a secret no
\* older than the one the session had just rotated away from.
WronglyRefused(t) ==
  /\ tab[t].at \in {"shut", "refused"}
  /\ SessionLive /\ ~ended /\ tab[t].sent >= tab[t].row[2]

\* The grace window does what it is for, on both sides of its end: as long as no
\* two rotations started from one secret, no tab of the browser is turned away
\* from a live session, however late the responses arrive and in whatever order;
\* and "presented any later it is treated as stolen": when a request that found the
\* session live is refused for the secret it had just rotated away from, the session is
\* over.
GraceWindowHolds ==
  /\ ~forked => \A t \in Tabs : ~WronglyRefused(t)
  /\ \A t \in Tabs : tab[t].at = "refused" /\ IsPrevious(t) => revoked

\* "Two tabs refreshing at once are safe" (identity/api.py), without that proviso.
TabsAreSafe == \A t \in Tabs : ~WronglyRefused(t)
=============================================================================
