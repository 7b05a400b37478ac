--------------------------- MODULE ClientSession ---------------------------
(***************************************************************************)
(* The refresh-cookie mode of easyjwt_client: a browser with one cookie    *)
(* jar sends login, refresh and logout requests, any number of them at     *)
(* once (tabs, retries); the client app's views hand each on to the auth   *)
(* service and answer with the refresh cookie set, cleared or untouched.   *)
(*                                                                         *)
(* Calls between client app and auth service time out, and the service may *)
(* go on with a call nobody waits for any more; answers reach the browser  *)
(* late, out of order or never.  Of the auth service this module keeps     *)
(* what TokenService says of the endpoints called: a token is looked up in *)
(* the blacklist in one step and blacklisted or replaced in a later one.   *)
(*                                                                         *)
(* A token is named by the request that had it minted, so that no two      *)
(* tokens have one name.                                                   *)
(***************************************************************************)
EXTENDS Naturals

CONSTANTS
  ROTATE_REFRESH_TOKENS,     \* settings of the auth service
  BLACKLIST_AFTER_ROTATION,
  BLACKLIST_ON_LOGOUT,       \* setting of the client app
  MaxRequests                \* bound: requests the browser ever sends

ASSUME ClientSessionAssumption ==
  /\ ROTATE_REFRESH_TOKENS \in BOOLEAN
  /\ BLACKLIST_AFTER_ROTATION \in BOOLEAN
  /\ BLACKLIST_ON_LOGOUT \in BOOLEAN
  /\ MaxRequests \in Nat

VARIABLES
  jar,           \* the refresh token in the browser's cookie jar
  sent,          \* requests sent so far: their ids are 1..sent
  request,       \* per id, the request and how far it has got
  blacklisted,   \* refresh tokens on the auth service's blacklist
  overlapped     \* history: requests that ran while another one did

vars == <<jar, sent, request, blacklisted, overlapped>>

Ids == 1..MaxRequests
NoToken == 0
Tokens == {NoToken} \cup Ids

Ops == {"login", "refresh", "logout"}

(***************************************************************************)
(* A request: the cookie the browser sent along; the session (named by its *)
(* login) it belongs to; "view", how far the client app is with it, and     *)
(* "ok", whether its answer is a success; "call", how far the auth service  *)
(* is with the call the view made ("broken": done, and its answer an error).*)
(***************************************************************************)
Requests ==
  [op : Ops, cookie : Tokens, session : Tokens,
   view : {"unsent", "start", "remote", "user", "reply", "done", "lost"},
   ok : BOOLEAN,
   call : {"none", "sent", "admitted", "answered", "broken", "failed"}]

Unsent ==
  [op |-> "login", cookie |-> NoToken, session |-> NoToken,
   view |-> "unsent", ok |-> FALSE, call |-> "none"]

\* The view is at work, or the service is with a call of it.
InFlight(i) ==
  \/ request[i].view \in {"start", "remote", "user", "reply"}
  \/ request[i].call \in {"sent", "admitted"}

\* Whether the answer of a call of this kind carries a new refresh token.
Mints(op) == op = "login" \/ (op = "refresh" /\ ROTATE_REFRESH_TOKENS)

\* Fault: rotation leaves the token presented valid.
BlacklistsOnLogoutOnly(op) == op = "logout"

\* Whether the service puts the token presented on its blacklist.
Blacklists(op) ==
  \/ op = "logout"
  \/ op = "refresh" /\ ROTATE_REFRESH_TOKENS /\ BLACKLIST_AFTER_ROTATION

Minted(i) == Mints(request[i].op) /\ request[i].call = "answered"

\* The auth service would accept the token if it has not expired.
Live(j) == Minted(j) /\ j \notin blacklisted

-----------------------------------------------------------------------------
Init ==
  /\ jar = NoToken
  /\ sent = 0
  /\ request = [i \in Ids |-> Unsent]
  /\ blacklisted = {}
  /\ overlapped = {}

(* The browser. *)

\* A tab sends a request; the browser attaches the cookie it has now.
Send(op) ==
  LET i == sent + 1
      others == {k \in Ids : InFlight(k)}
  IN  /\ sent < MaxRequests
      /\ sent' = i
      /\ request' = [request EXCEPT ![i] =
           [op |-> op, cookie |-> jar,
            session |-> IF op = "login" THEN i
                        ELSE IF jar = NoToken THEN NoToken
                        ELSE request[jar].session,
            view |-> "start", ok |-> FALSE, call |-> "none"]]
      /\ overlapped' =
           IF others = {} THEN overlapped ELSE overlapped \cup others \cup {i}
      /\ UNCHANGED <<jar, blacklisted>>

\* Fault: the cookie is set whatever became of the call.
SetCookieOnFailureToo(i) ==
  IF request[i].op = "logout" THEN NoToken
  ELSE IF Mints(request[i].op) THEN i ELSE jar

\* Fault: a refresh answer leaves the cookie alone.
SetCookieOnLoginOnly(i) ==
  IF request[i].ok /\ request[i].op = "logout" THEN NoToken
  ELSE IF request[i].ok /\ request[i].op = "login" THEN i ELSE jar

\* _set_refresh_cookie, _clear_refresh_cookie, or no Set-Cookie at all: the
\* jar once the answer is there.
SetCookie(i) ==
  IF request[i].ok /\ request[i].op = "logout" THEN NoToken
  ELSE IF request[i].ok /\ Mints(request[i].op) THEN i ELSE jar

\* The answer reaches the browser.
Deliver(i) ==
  /\ request[i].view = "reply"
  /\ request' = [request EXCEPT ![i].view = "done"]
  /\ jar' = SetCookie(i)
  /\ UNCHANGED <<sent, blacklisted, overlapped>>

\* The client app's process dies, or the connection to the browser does.
Lose(i) ==
  /\ request[i].view \in {"start", "remote", "user", "reply"}
  /\ request' = [request EXCEPT ![i].view = "lost"]
  /\ UNCHANGED <<jar, sent, blacklisted, overlapped>>

\* The cookie's max_age, or the end of the browser session.
CookieExpires ==
  /\ jar # NoToken
  /\ jar' = NoToken
  /\ UNCHANGED <<sent, request, blacklisted, overlapped>>

(* The client app. *)

Answer(i, ok) ==
  request' = [request EXCEPT ![i].view = "reply", ![i].ok = ok]

\* The request did not come with what csrf_protect or _validate_origin ask
\* for: a 403.
Refuse(i) ==
  /\ request[i].view = "start"
  /\ Answer(i, FALSE)
  /\ UNCHANGED <<jar, sent, blacklisted, overlapped>>

\* Whether the view calls the auth service at all.
CallsRemote(r) ==
  \/ r.op = "login"
  \/ r.cookie # NoToken /\ (r.op = "refresh" \/ BLACKLIST_ON_LOGOUT)

\* The view up to TokenManager's requests.post; without a cookie a refresh
\* is a 401 and a logout done.
CallRemote(i) ==
  /\ request[i].view = "start"
  /\ \/ /\ CallsRemote(request[i])
        /\ request' = [request EXCEPT ![i].view = "remote", ![i].call = "sent"]
     \/ /\ ~CallsRemote(request[i])
        /\ Answer(i, request[i].op = "logout")
  /\ UNCHANGED <<jar, sent, blacklisted, overlapped>>

\* requests.post returns: a login goes on to fetch the user, a logout is done
\* whatever the service said (AuthenticationFailed is caught there).
RemoteReturns(i) ==
  /\ request[i].view = "remote"
  /\ request[i].call \in {"answered", "broken", "failed"}
  /\ IF request[i].op = "login" /\ request[i].call = "answered"
     THEN request' = [request EXCEPT ![i].view = "user"]
     ELSE Answer(i, request[i].op = "logout" \/ request[i].call = "answered")
  /\ UNCHANGED <<jar, sent, blacklisted, overlapped>>

\* Fault: the call to the blacklist endpoint has no timeout.
TimesOutUnlessLogout(i) == request[i].op # "logout"

\* REMOTE_AUTH_REQUEST_TIMEOUT applies to every call.
TimesOut(i) == request[i].op \in Ops

\* The call times out or the connection breaks; the service may not know.
RemoteTimeout(i) ==
  /\ request[i].view = "remote"
  /\ TimesOut(i)
  /\ Answer(i, request[i].op = "logout")
  /\ UNCHANGED <<jar, sent, blacklisted, overlapped>>

\* _create_or_update_user: the login succeeds, or an error in it (the service
\* does not answer, the local user cannot be saved) ends it, tokens and all.
SyncUser(i) ==
  /\ request[i].view = "user"
  /\ \E ok \in BOOLEAN : Answer(i, ok)
  /\ UNCHANGED <<jar, sent, blacklisted, overlapped>>

(* The auth service. *)

\* verify passes (the credentials do, for a login).
Admit(i) ==
  /\ request[i].call = "sent"
  /\ request[i].op # "login" => Live(request[i].cookie)
  /\ request' = [request EXCEPT ![i].call = "admitted"]
  /\ UNCHANGED <<jar, sent, blacklisted, overlapped>>

\* The rest of the call: blacklist the token presented, mint what is due.
\* The service may fail in between; nothing of that is rolled back.
Commit(i) ==
  /\ request[i].call = "admitted"
  /\ blacklisted' = IF Blacklists(request[i].op)
                    THEN blacklisted \cup {request[i].cookie}
                    ELSE blacklisted
  /\ \E outcome \in {"answered", "broken"} :
       request' = [request EXCEPT ![i].call = outcome]
  /\ UNCHANGED <<jar, sent, overlapped>>

\* The service refuses the call (wrong credentials, a token that is on the
\* blacklist or has expired), fails before it changed anything, or never
\* gets it.
CallFails(i) ==
  /\ request[i].call \in {"sent", "admitted"}
  /\ request' = [request EXCEPT ![i].call = "failed"]
  /\ UNCHANGED <<jar, sent, blacklisted, overlapped>>

-----------------------------------------------------------------------------
\* What the client app does of its own accord with a request it has.
ViewStep(i) ==
  \/ Refuse(i)
  \/ CallRemote(i)
  \/ RemoteReturns(i)
  \/ RemoteTimeout(i)
  \/ SyncUser(i)
  \/ Deliver(i)

ServiceStep(i) ==
  \/ Admit(i)
  \/ Commit(i)
  \/ CallFails(i)

Next ==
  \/ \E op \in Ops : Send(op)
  \/ \E i \in Ids : ViewStep(i) \/ ServiceStep(i) \/ Lose(i)
  \/ CookieExpires

\* A server process works on a request it has, its calls time out, and an
\* answer it sends arrives unless it is lost; of the auth service and of what
\* the browser sends nothing is assumed.
Fairness == \A i \in Ids : WF_vars(ViewStep(i))

Spec == Init /\ [][Next]_vars /\ Fairness

-----------------------------------------------------------------------------
(* Properties. *)

\* The shape of every request; the jar and every blacklist entry is a token
\* that was minted.
TypeOK ==
  /\ jar \in Tokens
  /\ sent \in 0..MaxRequests
  /\ request \in [Ids -> Requests]
  /\ blacklisted \subseteq Ids
  /\ overlapped \subseteq 1..sent
  /\ jar # NoToken => Minted(jar)
  /\ \A j \in blacklisted : Minted(j)

\* Requests of the browser's other tabs never leave it with a cookie the auth
\* service has blacklisted: when the cookie is such a token, the answer of a
\* request that had it blacklisted is still under way, or was lost, timed out
\* or broken on its way.
SpentCookieExplained ==
  jar \in blacklisted =>
    \E i \in Ids :
      /\ request[i].cookie = jar
      /\ Blacklists(request[i].op)
      /\ request[i].call \in {"answered", "broken"}
      /\ \/ request[i].view \in {"remote", "reply", "lost"}
         \/ request[i].view = "done" /\ ~request[i].ok

\* The browser has been told that it is logged out of the session whose token
\* it presented.
LoggedOut(i) ==
  /\ request[i].op = "logout"
  /\ request[i].view = "done" /\ request[i].ok
  /\ request[i].cookie # NoToken

\* The answer of a request never reached the browser, or was an error there.
Undelivered(j) ==
  \/ request[j].view = "lost"
  \/ request[j].view = "done" /\ ~request[j].ok

\* What a logout that ran beside no other request leaves behind, whatever
\* became of its call.  The browser holds no token of the session.  The auth
\* service, if it rotates with blacklisting or not at all, accepts none of the
\* session's refresh tokens, those of earlier refreshes included, but for the
\* tokens of requests that ran beside others and, when the blacklist call was
\* not made, refused or did not get through, the token presented ("a copied
\* refresh token remains valid") or one whose answer never arrived: the
\* rotation that was lost had spent the token presented.
LogoutLeftoversExplained ==
  \A i \in Ids :
    (LoggedOut(i) /\ i \notin overlapped) =>
      /\ jar # NoToken => request[jar].session # request[i].session
      /\ (ROTATE_REFRESH_TOKENS => BLACKLIST_AFTER_ROTATION) =>
           \A j \in Ids :
             (Live(j) /\ request[j].session = request[i].session) =>
               \/ j \in overlapped
               \/ /\ request[i].call \notin {"answered", "broken"}
                  /\ j = request[i].cookie \/ Undelivered(j)

\* Whatever the auth service does, every request the browser sent ends: the
\* calls time out, and a logout does not hang on its blacklist call.
EveryRequestEnds ==
  \A i \in Ids :
    (request[i].view = "start") ~> (request[i].view \in {"done", "lost"})

\* Once a logout has been answered the browser holds no token of the session
\* that was logged out ("the cookie is still cleared (logged out on the
\* client)").
LoggedOutStaysOut ==
  \A i \in Ids :
    (LoggedOut(i) /\ jar # NoToken)
      => request[jar].session # request[i].session
=============================================================================
