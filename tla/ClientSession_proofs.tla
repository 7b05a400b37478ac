------------------------ MODULE ClientSession_proofs ------------------------
(***************************************************************************)
(* Proofs about ClientSession for any number of requests in flight and     *)
(* every setting: the shape of its state, that other tabs' requests never  *)
(* leave the browser with a blacklisted cookie, and what a logout that     *)
(* overlapped no other request leaves behind.                              *)
(*                                                                         *)
(* A cookie is only ever set to a token whose request is then done, so     *)
(* whoever presents a token presents one that will not be delivered again  *)
(* (DeliveredInv); what a request's stage says of its call is PathInv.      *)
(***************************************************************************)
EXTENDS ClientSession, TLAPS

\* A view has called nobody before it started, and claims no success but one
\* the auth service has answered; only a request with a cookie presents one.
PathInv ==
  \A i \in Ids :
    /\ i > sent => request[i] = Unsent
    /\ request[i].view \in {"unsent", "start"} => request[i].call = "none"
    /\ request[i].view = "user" =>
         request[i].op = "login" /\ request[i].call = "answered"
    /\ (request[i].ok /\ request[i].op # "logout")
         => request[i].call = "answered"
    /\ (request[i].call # "none" /\ request[i].op # "login")
         => request[i].cookie # NoToken

\* Tokens in the jar, and tokens presented, are tokens delivered.
DeliveredInv ==
  /\ jar # NoToken => request[jar].view = "done"
  /\ \A i \in Ids :
       request[i].cookie # NoToken =>
         /\ Minted(request[i].cookie)
         /\ request[request[i].cookie].view = "done"

\* A request that succeeded in having the cookie blacklisted replaced or
\* cleared it; every blacklist entry is some request's doing.
SpentInv ==
  /\ \A i \in Ids :
       /\ jar # NoToken
       /\ request[i].cookie = jar
       /\ request[i].view = "done"
       /\ request[i].ok
       => ~Blacklists(request[i].op)
  /\ \A j \in blacklisted :
       \E i \in Ids :
         /\ request[i].cookie = j
         /\ Blacklists(request[i].op)
         /\ request[i].call \in {"answered", "broken"}

SessionInv == TypeOK /\ PathInv /\ DeliveredInv /\ SpentInv

\* The browser starts with no cookie and nothing sent.
LEMMA SessionInit == Init => SessionInv
BY ClientSessionAssumption
DEF Init, SessionInv, TypeOK, PathInv, DeliveredInv, SpentInv, Unsent,
    Requests, Ops, Tokens, Ids, NoToken, Minted, Mints

\* A request that goes one stage further without touching jar or blacklist:
\* it keeps what it presented, is not done before or after, and its call does
\* not come undone.
LEMMA StageStep ==
  ASSUME SessionInv,
         NEW i \in Ids, NEW r \in Requests,
         request' = [request EXCEPT ![i] = r],
         UNCHANGED <<jar, sent, blacklisted, overlapped>>,
         request[i].view # "unsent",
         r.op = request[i].op, r.cookie = request[i].cookie,
         r.view # "done" \/ request[i].view = "done",
         request[i].view = "done" => r.view = "done" /\ r.ok = request[i].ok,
         request[i].call \in {"answered", "broken"} => r.call = request[i].call,
         r.view \in {"unsent", "start"} => r.call = "none",
         r.view = "user" => r.op = "login" /\ r.call = "answered",
         r.ok /\ r.op # "logout" => r.call = "answered",
         r.call # "none" /\ r.op # "login" => r.cookie # NoToken
  PROVE  SessionInv'
<1> USE DEF SessionInv, TypeOK, Ids, Tokens, NoToken
<1>1. \A k \in Ids : k # i => request'[k] = request[k]
  OBVIOUS
<1>2. request'[i] = r
  OBVIOUS
<1>3. \A k \in Ids : Minted(k) => Minted(k)'
  BY <1>1, <1>2 DEF Minted
<1>4. i <= sent
  BY DEF PathInv, Unsent
<1>5. TypeOK'
  BY <1>3
<1>6. PathInv'
  BY <1>1, <1>2, <1>4 DEF PathInv
<1>7. \A k \in Ids : /\ request'[k].cookie = request[k].cookie
                     /\ request'[k].op = request[k].op
                     /\ request[k].view = "done" => request'[k].view = "done"
  BY <1>1, <1>2
<1>8. \A k \in Ids : request[k].cookie \in 0..MaxRequests
  BY ClientSessionAssumption DEF Requests
<1>9. DeliveredInv'
  BY <1>3, <1>7, <1>8 DEF DeliveredInv
<1>10. \A k \in Ids : request'[k].view = "done" /\ request'[k].ok
                        => request[k].view = "done" /\ request[k].ok
  BY <1>1, <1>2
<1>11. \A k \in Ids : request[k].call \in {"answered", "broken"}
                        => request'[k].call = request[k].call
  BY <1>1, <1>2
<1>12. SpentInv'
  BY <1>7, <1>10, <1>11 DEF SpentInv, Blacklists
<1> QED BY <1>5, <1>6, <1>9, <1>12

\* Sending: the new request presents the cookie of the moment.
LEMMA SendStep ==
  ASSUME SessionInv, NEW op \in Ops, Send(op)
  PROVE  SessionInv'
<1> USE DEF SessionInv, TypeOK, Ids, Tokens, NoToken
<1> DEFINE i == sent + 1
           r == [op |-> op, cookie |-> jar,
                 session |-> IF op = "login" THEN i
                             ELSE IF jar = NoToken THEN NoToken
                             ELSE request[jar].session,
                 view |-> "start", ok |-> FALSE, call |-> "none"]
<1>1. i \in Ids /\ request[i] = Unsent /\ sent' = i
  BY ClientSessionAssumption DEF Send, PathInv
<1>2. r \in Requests
  BY <1>1, ClientSessionAssumption DEF Requests
<1>3. request' = [request EXCEPT ![i] = r]
  BY DEF Send
<1>4. UNCHANGED <<jar, blacklisted>>
  BY DEF Send
<1>5. request'[i] = r /\ \A k \in Ids : k # i => request'[k] = request[k]
  BY <1>1, <1>3
<1>6. \A k \in Ids : Minted(k) => Minted(k)'
  BY <1>1, <1>5 DEF Minted, Unsent
<1>7. overlapped' \subseteq 1..(sent')
  <2>1. \A k \in Ids : InFlight(k) => k <= sent
    BY DEF InFlight, PathInv, Unsent
  <2>2. {k \in Ids : InFlight(k)} \subseteq 1..(sent')
    BY <2>1, <1>1, ClientSessionAssumption
  <2>3. \/ overlapped' = overlapped
        \/ overlapped' = overlapped \cup {k \in Ids : InFlight(k)} \cup {i}
    BY DEF Send
  <2>4. overlapped \subseteq 1..(sent') /\ i \in 1..(sent')
    BY <1>1, ClientSessionAssumption
  <2> QED BY <2>2, <2>3, <2>4
<1>8. TypeOK'
  BY <1>1, <1>2, <1>3, <1>4, <1>6, <1>7
<1>9. PathInv'
  BY <1>1, <1>5 DEF PathInv
<1>10. DeliveredInv'
  <2>1. \A k \in Ids : request[k].view = "done" => request'[k].view = "done"
    BY <1>1, <1>5 DEF Unsent
  <2>2. \A c \in Ids : c = jar => request'[c].view = "done" /\ Minted(c)'
    BY <2>1, <1>6 DEF DeliveredInv
  <2>3. \A k, c \in Ids : k # i /\ request[k].cookie = c
          => request'[c].view = "done" /\ Minted(c)'
    BY <2>1, <1>6 DEF DeliveredInv
  <2>4. \A k, c \in Ids : request'[k].cookie = c
          => request'[c].view = "done" /\ Minted(c)'
    BY <2>2, <2>3, <1>5
  <2>5. \A k \in Ids : request'[k].cookie \in {NoToken} \cup Ids
    BY <1>8 DEF Requests
  <2> QED BY <2>2, <2>4, <2>5, <1>4 DEF DeliveredInv
<1>11. SpentInv'
  <2>1. \A k \in Ids : request[k].call \in {"answered", "broken"}
          => request'[k] = request[k]
    BY <1>1, <1>5 DEF Unsent
  <2> QED BY <2>1, <1>1, <1>4, <1>5 DEF SpentInv, Blacklists
<1> QED BY <1>8, <1>9, <1>10, <1>11

\* The answer of a request that had the cookie blacklisted sets another one,
\* because the token it presented was delivered before.
LEMMA DeliverStep ==
  ASSUME SessionInv, NEW i \in Ids, Deliver(i)
  PROVE  SessionInv'
<1> USE DEF SessionInv, TypeOK, Ids, Tokens, NoToken
<1> DEFINE r == [request[i] EXCEPT !.view = "done"]
<1>1. r \in Requests /\ request[i].view = "reply" /\ i <= sent
  BY DEF Requests, Deliver, PathInv, Unsent
<1>2. /\ request' = [request EXCEPT ![i] = r]
      /\ UNCHANGED <<sent, blacklisted, overlapped>>
  BY DEF Deliver
<1>3. request'[i] = r /\ \A k \in Ids : k # i => request'[k] = request[k]
  BY <1>2
<1>4. \A k \in Ids : /\ request'[k].cookie = request[k].cookie
                     /\ request'[k].op = request[k].op
                     /\ request'[k].ok = request[k].ok
                     /\ request'[k].call = request[k].call
                     /\ request[k].view = "done" => request'[k].view = "done"
  BY <1>1, <1>3 DEF Requests
<1>5. \A k \in Ids : Minted(k) => Minted(k)'
  BY <1>4 DEF Minted
<1>6. \/ jar' = jar /\ (request[i].ok => ~Blacklists(request[i].op))
      \/ jar' = NoToken
      \/ jar' = i /\ request[i].ok /\ Mints(request[i].op)
             /\ request[i].call = "answered"
  BY DEF Deliver, SetCookie, Blacklists, Mints, PathInv, Requests, Ops
<1>7. jar' \in Tokens /\ \A c \in Ids : c = jar' => Minted(c)'
  BY <1>4, <1>5, <1>6 DEF Minted
<1>8. TypeOK'
  BY <1>1, <1>2, <1>5, <1>7
<1>9. PathInv'
  <2>1. /\ r.view = "done" /\ r.ok = request[i].ok /\ r.op = request[i].op
        /\ r.cookie = request[i].cookie /\ r.call = request[i].call
    BY DEF Requests
  <2> QED BY <2>1, <1>1, <1>2, <1>3 DEF PathInv
<1>10. \A k \in Ids : request[k].cookie \in {NoToken} \cup Ids
  BY DEF Requests
<1>11. DeliveredInv'
  <2>1. jar' # NoToken => request'[jar'].view = "done"
    BY <1>1, <1>3, <1>4, <1>6 DEF DeliveredInv, Requests
  <2> QED BY <2>1, <1>4, <1>5, <1>10 DEF DeliveredInv
<1>12. SpentInv'
  <2>1. ASSUME NEW k \in Ids, jar' # NoToken, request'[k].cookie = jar',
               request'[k].view = "done", request'[k].ok
        PROVE  ~Blacklists(request'[k].op)
    <3>1. jar' # i
      BY <2>1, <1>1, <1>4 DEF DeliveredInv
    <3>2. jar' = jar /\ (request[i].ok => ~Blacklists(request[i].op))
      BY <3>1, <2>1, <1>6
    <3>3. CASE k = i
      BY <3>2, <3>3, <2>1, <1>4
    <3>4. CASE k # i
      BY <3>2, <3>4, <2>1, <1>3 DEF SpentInv
    <3> QED BY <3>3, <3>4
  <2>2. \A j \in blacklisted' :
          \E k \in Ids : /\ request'[k].cookie = j
                         /\ Blacklists(request'[k].op)
                         /\ request'[k].call \in {"answered", "broken"}
    BY <1>2, <1>4 DEF SpentInv
  <2>3. \A op : Blacklists(op)' = Blacklists(op)
    BY DEF Blacklists
  <2> QED BY <2>1, <2>2, <2>3 DEF SpentInv
<1> QED BY <1>8, <1>9, <1>11, <1>12

\* The service's half of a call: what it blacklists was presented, and the
\* request that presented it goes down as the reason.
LEMMA CommitStep ==
  ASSUME SessionInv, NEW i \in Ids, Commit(i)
  PROVE  SessionInv'
<1> USE DEF SessionInv, TypeOK, Ids, Tokens, NoToken
<1>1. PICK outcome \in {"answered", "broken"} :
        request' = [request EXCEPT ![i].call = outcome]
  BY DEF Commit
<1> DEFINE r == [request[i] EXCEPT !.call = outcome]
           c == request[i].cookie
<1>2. /\ r \in Requests
      /\ r.op = request[i].op /\ r.cookie = c /\ r.view = request[i].view
      /\ r.ok = request[i].ok /\ r.call = outcome
      /\ request[i].call = "admitted"
  BY DEF Requests, Commit
<1>3. /\ request' = [request EXCEPT ![i] = r]
      /\ UNCHANGED <<jar, sent, overlapped>>
      /\ request[i].op # "login" => c \in Ids /\ Minted(c)
  BY <1>1, <1>2 DEF Commit, PathInv, DeliveredInv, Requests
<1>4. request'[i] = r /\ \A k \in Ids : k # i => request'[k] = request[k]
  BY <1>3
<1>5. \A k \in Ids : Minted(k) => Minted(k)'
  BY <1>2, <1>4 DEF Minted
<1>6. \/ blacklisted' = blacklisted
      \/ blacklisted' = blacklisted \cup {c} /\ Blacklists(request[i].op)
  BY DEF Commit
<1>7. request[i].op # "login" \/ blacklisted' = blacklisted
  BY <1>6 DEF Blacklists
<1>8. TypeOK'
  <2>1. blacklisted' \subseteq Ids /\ \A j \in blacklisted' : Minted(j)'
    BY <1>3, <1>5, <1>6, <1>7
  <2>2. jar' # NoToken => Minted(jar)'
    BY <1>3, <1>5
  <2> QED BY <1>2, <1>3, <2>1, <2>2
<1>9. PathInv'
  <2>1. /\ i <= sent
        /\ r.view \notin {"unsent", "start", "user"}
        /\ r.op = "logout" \/ ~r.ok
        /\ r.op # "login" => r.cookie # NoToken
    BY <1>2 DEF PathInv, Unsent, Requests
  <2> QED BY <2>1, <1>3, <1>4 DEF PathInv
<1>10. DeliveredInv'
  <2>1. \A k \in Ids : /\ request'[k].cookie = request[k].cookie
                       /\ request[k].view = "done" => request'[k].view = "done"
    BY <1>2, <1>4
  <2>2. \A k \in Ids : request[k].cookie \in {NoToken} \cup Ids
    BY DEF Requests
  <2> QED BY <2>1, <2>2, <1>3, <1>5 DEF DeliveredInv
<1>11. SpentInv'
  <2>1. \A k \in Ids : /\ request'[k].cookie = request[k].cookie
                       /\ request'[k].op = request[k].op
                       /\ request'[k].view = request[k].view
                       /\ request'[k].ok = request[k].ok
                       /\ request[k].call \in {"answered", "broken"}
                            => request'[k].call \in {"answered", "broken"}
    BY <1>2, <1>4
  <2>2. request'[i].cookie = c /\ request'[i].call \in {"answered", "broken"}
    BY <1>2, <1>4
  <2> DEFINE Explained(j) ==
               \E k \in Ids : /\ request'[k].cookie = j
                              /\ Blacklists(request'[k].op)
                              /\ request'[k].call \in {"answered", "broken"}
  <2>3. \A j \in blacklisted : Explained(j)
    BY <2>1 DEF SpentInv
  <2>4. Blacklists(request[i].op) => Explained(c)
    BY <2>1, <2>2
  <2>5. \A j \in blacklisted' : Explained(j)
    <3> HIDE DEF Explained, c
    <3> QED BY <2>3, <2>4, <1>6
  <2>6. \A k \in Ids :
          (/\ jar # NoToken /\ request'[k].cookie = jar
           /\ request'[k].view = "done" /\ request'[k].ok)
          => ~Blacklists(request'[k].op)
    BY <2>1 DEF SpentInv
  <2>7. \A op : Blacklists(op)' = Blacklists(op)
    BY DEF Blacklists
  <2> QED BY <2>5, <2>6, <2>7, <1>3 DEF SpentInv
<1> QED BY <1>8, <1>9, <1>10, <1>11

\* The steps that only take a request one stage on.
LEMMA OtherStep ==
  ASSUME SessionInv, NEW i \in Ids,
         \/ Refuse(i) \/ CallRemote(i) \/ RemoteReturns(i)
         \/ RemoteTimeout(i) \/ SyncUser(i) \/ Lose(i)
         \/ Admit(i) \/ CallFails(i)
  PROVE  SessionInv'
<1> DEFINE to(v, ok, call) ==
             [request[i] EXCEPT !.view = v, !.ok = ok, !.call = call]
           now == request[i]
<1>1. now \in Requests
  BY DEF SessionInv, TypeOK
<1>2. ASSUME NEW v \in {"remote", "user", "reply", "done", "lost"},
             NEW ok \in BOOLEAN,
             NEW call \in {"none", "sent", "admitted", "answered", "broken",
                           "failed"}
      PROVE  /\ to(v, ok, call) \in Requests
             /\ to(v, ok, call).view = v
             /\ to(v, ok, call).ok = ok
             /\ to(v, ok, call).call = call
             /\ to(v, ok, call).op = now.op
             /\ to(v, ok, call).cookie = now.cookie
  BY <1>1 DEF Requests
<1>3. /\ now.view \in {"unsent", "start"} => now.call = "none"
      /\ now.view = "user" => now.op = "login" /\ now.call = "answered"
      /\ now.ok /\ now.op # "logout" => now.call = "answered"
      /\ now.call # "none" /\ now.op # "login" => now.cookie # NoToken
  BY DEF SessionInv, PathInv
<1>4. ASSUME NEW v \in {"remote", "user", "reply", "done", "lost"},
             NEW ok \in BOOLEAN,
             NEW call \in {"none", "sent", "admitted", "answered", "broken",
                           "failed"},
             request' = [request EXCEPT ![i] = to(v, ok, call)],
             UNCHANGED <<jar, sent, blacklisted, overlapped>>,
             now.view # "unsent",
             IF now.view = "done" THEN v = "done" /\ ok = now.ok
                                  ELSE v # "done",
             now.call \in {"answered", "broken"} => call = now.call,
             v = "user" => now.op = "login" /\ call = "answered",
             ok /\ now.op # "logout" => call = "answered",
             call # "none" /\ now.op # "login" => now.cookie # NoToken
      PROVE  SessionInv'
  <2> DEFINE r == to(v, ok, call)
  <2>1. /\ r \in Requests
        /\ r.op = now.op /\ r.cookie = now.cookie
        /\ r.view = v /\ r.ok = ok /\ r.call = call
    <3> HIDE DEF to
    <3>1. /\ v \in {"remote", "user", "reply", "done", "lost"}
          /\ ok \in BOOLEAN
          /\ call \in {"none", "sent", "admitted", "answered", "broken",
                        "failed"}
      BY <1>4
    <3> QED BY <3>1, <1>2
  <2>2. request' = [request EXCEPT ![i] = r]
    BY <1>4
  <2>3. /\ v # "done" \/ request[i].view = "done"
        /\ request[i].view = "done" => v = "done" /\ ok = request[i].ok
        /\ request[i].call \in {"answered", "broken"} => call = request[i].call
        /\ v = "user" => r.op = "login" /\ call = "answered"
        /\ ok /\ r.op # "logout" => call = "answered"
        /\ call # "none" /\ r.op # "login" => r.cookie # NoToken
        /\ v \notin {"unsent", "start"}
        /\ request[i].view # "unsent"
    BY <1>4, <2>1
  <2> HIDE DEF r, to
  <2> QED BY <1>4, <2>1, <2>2, <2>3, StageStep
<1>5. now.view \in {"unsent", "start", "remote", "user", "reply", "done", "lost"}
      /\ now.ok \in BOOLEAN
      /\ now.call \in {"none", "sent", "admitted", "answered", "broken", "failed"}
  BY <1>1 DEF Requests
<1>6. CASE Refuse(i)
  <2>1. request' = [request EXCEPT ![i] = to("reply", FALSE, now.call)]
    BY <1>1, <1>6 DEF Refuse, Answer, Requests
  <2> QED BY <2>1, <1>3, <1>4, <1>5, <1>6 DEF Refuse
<1>7. CASE CallRemote(i)
  <2>1. \/ request' = [request EXCEPT ![i] = to("remote", now.ok, "sent")]
           /\ CallsRemote(now)
        \/ request' = [request EXCEPT ![i] =
                        to("reply", now.op = "logout", now.call)]
    BY <1>1, <1>7 DEF CallRemote, Answer, Requests
  <2>2. CallsRemote(now) => now.op = "login" \/ now.cookie # NoToken
    BY DEF CallsRemote
  <2> QED BY <2>1, <2>2, <1>3, <1>4, <1>5, <1>7 DEF CallRemote
<1>8. CASE RemoteReturns(i)
  <2>1. \/ request' = [request EXCEPT ![i] = to("user", now.ok, now.call)]
           /\ now.op = "login" /\ now.call = "answered"
        \/ request' = [request EXCEPT ![i] =
                        to("reply", now.op = "logout" \/ now.call = "answered",
                           now.call)]
    BY <1>1, <1>8 DEF RemoteReturns, Answer, Requests
  <2> QED BY <2>1, <1>3, <1>4, <1>5, <1>8 DEF RemoteReturns
<1>9. CASE RemoteTimeout(i)
  <2>1. request' = [request EXCEPT ![i] =
                      to("reply", now.op = "logout", now.call)]
    BY <1>1, <1>9 DEF RemoteTimeout, Answer, Requests
  <2> QED BY <2>1, <1>3, <1>4, <1>5, <1>9 DEF RemoteTimeout
<1>10. CASE SyncUser(i)
  <2>1. PICK ok \in BOOLEAN :
          request' = [request EXCEPT ![i] = to("reply", ok, now.call)]
    BY <1>1, <1>10 DEF SyncUser, Answer, Requests
  <2> QED BY <2>1, <1>3, <1>4, <1>5, <1>10 DEF SyncUser
<1>11. CASE Lose(i)
  <2>1. request' = [request EXCEPT ![i] = to("lost", now.ok, now.call)]
    BY <1>1, <1>11 DEF Lose, Requests
  <2> QED BY <2>1, <1>3, <1>4, <1>5, <1>11 DEF Lose
<1>12. CASE Admit(i)
  <2>1. request' = [request EXCEPT ![i] = to(now.view, now.ok, "admitted")]
    BY <1>1, <1>12 DEF Admit, Requests
  <2> QED BY <2>1, <1>3, <1>4, <1>5, <1>12 DEF Admit
<1>13. CASE CallFails(i)
  <2>1. request' = [request EXCEPT ![i] = to(now.view, now.ok, "failed")]
    BY <1>1, <1>13 DEF CallFails, Requests
  <2> QED BY <2>1, <1>3, <1>4, <1>5, <1>13 DEF CallFails
<1> QED BY <1>6, <1>7, <1>8, <1>9, <1>10, <1>11, <1>12, <1>13

\* The cookie running out, and a step that is none.
LEMMA QuietStep ==
  ASSUME SessionInv, CookieExpires \/ UNCHANGED vars
  PROVE  SessionInv'
<1>1. /\ jar' \in {jar, NoToken}
      /\ UNCHANGED <<sent, request, blacklisted, overlapped>>
  BY DEF CookieExpires, vars
<1>2. TypeOK'
  BY <1>1 DEF SessionInv, TypeOK, Tokens, Minted
<1>3. PathInv' /\ DeliveredInv' /\ SpentInv'
  BY <1>1 DEF SessionInv, PathInv, DeliveredInv, SpentInv, Minted
<1> QED BY <1>2, <1>3 DEF SessionInv

\* Every step of browser, client app and auth service keeps the invariant.
LEMMA SessionStep == SessionInv /\ [Next]_vars => SessionInv'
<1> SUFFICES ASSUME SessionInv, [Next]_vars
             PROVE  SessionInv'
  OBVIOUS
<1>1. CASE Next
  BY <1>1, SendStep, DeliverStep, CommitStep, OtherStep, QuietStep
  DEF Next, ViewStep, ServiceStep
<1>2. CASE UNCHANGED vars
  BY <1>2, QuietStep
<1> QED BY <1>1, <1>2

\* In every reachable state requests have their shape, and every token in the
\* jar or on the blacklist is one the auth service issued.
THEOREM SessionTypeCorrect == Spec => []TypeOK
<1>1. SessionInv => TypeOK
  BY DEF SessionInv
<1> QED BY <1>1, SessionInit, SessionStep, PTL DEF Spec

\* However many requests the browser has in flight, and in whatever order they
\* are answered: a blacklisted cookie is due to an answer that is still on its
\* way or never made it.
THEOREM TabsNeverStrandTheCookie == Spec => []SpentCookieExplained
<1>1. SessionInv => SpentCookieExplained
  <2> SUFFICES ASSUME SessionInv, jar \in blacklisted
               PROVE  \E i \in Ids :
                        /\ request[i].cookie = jar
                        /\ Blacklists(request[i].op)
                        /\ request[i].call \in {"answered", "broken"}
                        /\ \/ request[i].view \in {"remote", "reply", "lost"}
                           \/ request[i].view = "done" /\ ~request[i].ok
    BY DEF SpentCookieExplained
  <2>1. PICK i \in Ids : /\ request[i].cookie = jar
                         /\ Blacklists(request[i].op)
                         /\ request[i].call \in {"answered", "broken"}
    BY DEF SessionInv, SpentInv
  <2>2. jar # NoToken
    BY DEF SessionInv, TypeOK, Ids, NoToken
  <2>3. request[i].view \notin {"unsent", "start", "user"}
    BY <2>1 DEF SessionInv, PathInv, Blacklists
  <2>4. ~(request[i].view = "done" /\ request[i].ok)
    BY <2>1, <2>2 DEF SessionInv, SpentInv
  <2>5. request[i] \in Requests
    BY DEF SessionInv, TypeOK
  <2> QED BY <2>1, <2>3, <2>4, <2>5 DEF Requests
<1> QED BY <1>1, SessionInit, SessionStep, PTL DEF Spec

-----------------------------------------------------------------------------
(* What a logout leaves behind. *)

\* A login starts a session of its own; a refresh or logout belongs to the
\* session of the token it presents, which began with an earlier request.
SessionOfInv ==
  \A k \in Ids :
    /\ request[k].op = "login" =>
         request[k].session = IF request[k].view = "unsent" THEN NoToken ELSE k
    /\ request[k].op # "login" =>
         request[k].session = IF request[k].cookie = NoToken THEN NoToken
                              ELSE request[request[k].cookie].session
    /\ request[k].session <= k
    /\ Minted(k) => request[k].session # NoToken

\* A request that has not overlapped was sent after the earlier ones ended,
\* and the next is not sent before it ends.
OrderInv ==
  \A k \in Ids \ overlapped :
    k <= sent =>
      /\ \A m \in Ids : m < k => ~InFlight(m)
      /\ InFlight(k) => \A m \in Ids : m > k => m > sent

\* A call that the service handled has spent its token.
HandledInv ==
  \A k \in Ids :
    (Blacklists(request[k].op) /\ request[k].call \in {"answered", "broken"})
      => request[k].cookie \in blacklisted

Delivered(j) == request[j].view = "done" /\ request[j].ok

SameSession(j, k) ==
  request[k].session # NoToken /\ request[k].session = request[j].session

TokenSpent == ROTATE_REFRESH_TOKENS => BLACKLIST_AFTER_ROTATION

\* As long as a token delivered without overlap is accepted, its session has
\* no other: the browser holds and presents that one.
CurrentInv ==
  TokenSpent =>
    \A j \in Ids \ overlapped :
      (Live(j) /\ Delivered(j)) =>
        /\ (jar # NoToken /\ SameSession(j, jar)) => jar = j
        /\ \A k \in Ids :
             (k > j /\ SameSession(j, k)) => request[k].cookie = j

\* While a token is not delivered, and for ever when it is lost, the browser
\* holds and presents the one it was made from, which the service refuses.
LostInv ==
  TokenSpent =>
    \A j \in Ids \ overlapped :
      (j <= sent /\ ~Delivered(j) /\ (InFlight(j) \/ Live(j))) =>
        /\ (jar # NoToken /\ SameSession(j, jar))
             => request[j].op # "login" /\ jar = request[j].cookie
        /\ \A k \in Ids :
             (k > j /\ SameSession(j, k)) =>
               /\ request[j].op # "login"
               /\ request[k].cookie = request[j].cookie
               /\ request[k].call \in {"none", "sent", "failed"}

\* After a logout without overlap the session has no token in the browser,
\* and no further request.
LeftInv ==
  \A i \in Ids \ overlapped :
    LoggedOut(i) =>
      /\ jar # NoToken => request[jar].session # request[i].session
      /\ \A k \in Ids : k > i => request[k].session # request[i].session

\* The inductive invariant of LogoutLeftoversExplained.
LogoutInv ==
  /\ SessionInv
  /\ SessionOfInv
  /\ OrderInv
  /\ HandledInv
  /\ CurrentInv
  /\ LostInv
  /\ LeftInv

\* Before anything is sent nothing is minted and nobody in flight.
LEMMA LogoutInit == Init => LogoutInv
<1> SUFFICES ASSUME Init PROVE LogoutInv
  OBVIOUS
<1>1. \A k \in Ids : request[k] = Unsent
  BY DEF Init
<1>2. \A k \in Ids : ~Minted(k) /\ ~InFlight(k) /\ ~LoggedOut(k)
  BY <1>1 DEF Minted, InFlight, LoggedOut, Unsent
<1>3. sent = 0 /\ \A k \in Ids : k \in Nat \ {0}
  BY ClientSessionAssumption DEF Init, Ids
<1>4. SessionOfInv
  BY <1>1, <1>2, <1>3 DEF SessionOfInv, Unsent, NoToken
<1>5. OrderInv /\ HandledInv
  BY <1>1, <1>2 DEF OrderInv, HandledInv, Unsent
<1>6. CurrentInv /\ LostInv /\ LeftInv
  BY <1>2 DEF CurrentInv, LostInv, LeftInv, Live
<1> QED
  BY <1>4, <1>5, <1>6, SessionInit DEF LogoutInv

\* Ids are numbers, tokens presented and sessions are ids, and what was not
\* sent is blank.
LEMMA SessionFacts ==
  ASSUME LogoutInv
  PROVE  /\ NoToken \notin Ids /\ sent \in Nat
         /\ \A k \in Ids :
              /\ k \in Nat
              /\ request[k] \in Requests
              /\ request[k].cookie # NoToken => request[k].cookie \in Ids
              /\ request[k].session # NoToken => request[k].session \in Ids
              /\ request[k].session \in Nat
              /\ request[k].session <= k
              /\ k > sent => /\ request[k] = Unsent
                             /\ request[k].session = NoToken
                             /\ ~Minted(k) /\ ~InFlight(k) /\ ~LoggedOut(k)
              /\ Minted(k) => request[k].session # NoToken
              /\ LoggedOut(k) => request[k].session # NoToken
              /\ InFlight(k) => request[k].view # "unsent"
         /\ jar # NoToken =>
              /\ jar \in Ids /\ jar <= sent
              /\ Minted(jar)
              /\ request[jar].session # NoToken
<1>1. SessionInv /\ SessionOfInv
  BY DEF LogoutInv
<1>2. NoToken \notin Ids /\ sent \in Nat /\ \A k \in Ids : k \in Nat
  BY <1>1, ClientSessionAssumption
  DEF NoToken, Ids, SessionInv, TypeOK
<1>3. \A k \in Ids : /\ request[k] \in Requests
                     /\ request[k].cookie \in Tokens
                     /\ request[k].session \in Tokens
  BY <1>1 DEF SessionInv, TypeOK, Requests
<1>4. \A k \in Ids : /\ request[k].cookie # NoToken => request[k].cookie \in Ids
                     /\ request[k].session # NoToken
                          => request[k].session \in Ids
                     /\ request[k].session \in Nat
  BY <1>2, <1>3 DEF Tokens, NoToken
<1>5. \A k \in Ids :
        /\ request[k].session <= k
        /\ Minted(k) => request[k].session # NoToken
  BY <1>1 DEF SessionOfInv
<1>6. ASSUME NEW k \in Ids, k > sent
      PROVE  /\ request[k] = Unsent
             /\ request[k].session = NoToken
             /\ ~Minted(k) /\ ~InFlight(k) /\ ~LoggedOut(k)
  <2>1. request[k] = Unsent
    BY <1>1, <1>6 DEF SessionInv, PathInv
  <2> QED BY <2>1 DEF Unsent, Minted, Mints, InFlight, LoggedOut
<1>7. ASSUME NEW k \in Ids, LoggedOut(k)
      PROVE  request[k].session # NoToken
  <2>1. request[k].op # "login" /\ request[k].cookie # NoToken
    BY <1>7 DEF LoggedOut
  <2>2. Minted(request[k].cookie) /\ request[k].cookie \in Ids
    BY <1>1, <1>4, <2>1 DEF SessionInv, DeliveredInv
  <2> QED BY <1>1, <1>5, <2>1, <2>2 DEF SessionOfInv
<1>8. \A k \in Ids : InFlight(k) => request[k].view # "unsent"
  BY <1>1 DEF SessionInv, PathInv, InFlight
<1>9. ASSUME jar # NoToken
      PROVE  jar \in Ids /\ jar <= sent /\ Minted(jar)
             /\ request[jar].session # NoToken
  <2>1. Minted(jar) /\ jar \in Ids
    BY <1>1, <1>9 DEF SessionInv, TypeOK, Tokens
  <2> QED BY <1>2, <1>5, <1>6, <2>1
<1> QED BY <1>2, <1>3, <1>4, <1>5, <1>6, <1>7, <1>8, <1>9

\* The later requests of a session whose last token is lost present a token
\* that is spent.
LEMMA LostIsSpent ==
  ASSUME LogoutInv, TokenSpent, NEW j \in Ids \ overlapped, NEW k \in Ids,
         j <= sent, ~Delivered(j), InFlight(j) \/ Live(j),
         k > j, SameSession(j, k)
  PROVE  /\ request[k].op # "login"
         /\ request[k].cookie \in blacklisted
         /\ request[k].call \in {"none", "sent", "failed"}
<1>1. /\ request[j].op # "login"
      /\ request[k].cookie = request[j].cookie
      /\ request[k].call \in {"none", "sent", "failed"}
  BY DEF LogoutInv, LostInv
<1>2. request[k].op # "login"
  <2>1. request[k].session <= j /\ j \in Nat /\ k \in Nat /\ k > j
    BY SessionFacts DEF SameSession
  <2>2. request[k].session # NoToken
    BY DEF SameSession
  <2>3. request[k].op = "login" => request[k].session = k
    BY <2>2 DEF LogoutInv, SessionOfInv
  <2> QED BY <2>1, <2>3
<1>3. ~InFlight(j)
  <2>1. InFlight(j) => k > sent
    BY DEF LogoutInv, OrderInv
  <2>2. k > sent => request[k].session = NoToken
    BY SessionFacts
  <2> QED BY <2>1, <2>2 DEF SameSession
<1>4. Blacklists(request[j].op) /\ request[j].call = "answered"
  BY <1>1, <1>3 DEF Live, Minted, Mints, Blacklists, TokenSpent
<1>5. request[j].cookie \in blacklisted
  BY <1>4 DEF LogoutInv, HandledInv
<1> QED BY <1>1, <1>2, <1>5

\* The steps of a request other than Deliver and Commit: whose it is stays,
\* jar and blacklist stay, nothing is delivered, no call is handled, and only
\* a good token admitted.
LEMMA QuietRequestStep ==
  ASSUME SessionInv, NEW i \in Ids,
         \/ Refuse(i) \/ CallRemote(i) \/ RemoteReturns(i)
         \/ RemoteTimeout(i) \/ SyncUser(i) \/ Lose(i)
         \/ Admit(i) \/ CallFails(i)
  PROVE  /\ UNCHANGED <<jar, sent, blacklisted, overlapped>>
         /\ \A k \in Ids \ {i} : request'[k] = request[k]
         /\ request'[i].op = request[i].op
         /\ request'[i].cookie = request[i].cookie
         /\ request'[i].session = request[i].session
         /\ request[i].view # "unsent" /\ request'[i].view # "unsent"
         /\ \/ request'[i].view # "done" /\ request[i].view # "done"
            \/ /\ request'[i].view = request[i].view
               /\ request'[i].ok = request[i].ok
         /\ InFlight(i)' => InFlight(i)
         /\ \A outcome \in {"answered", "broken"} :
              request'[i].call = outcome <=> request[i].call = outcome
         /\ request'[i].call = "admitted" =>
              \/ request[i].call = "admitted"
              \/ request[i].op = "login"
              \/ Live(request[i].cookie)
<1> USE DEF SessionInv, TypeOK
<1> DEFINE r == request[i]
<1>1. /\ r \in Requests
      /\ r.view = "unsent" => r.call = "none"
      /\ r.view = "start" => r.call = "none"
  BY DEF PathInv
<1>2. UNCHANGED <<jar, sent, blacklisted, overlapped>>
  BY DEF Refuse, CallRemote, RemoteReturns, RemoteTimeout, SyncUser,
         Lose, Admit, CallFails
<1>3. /\ \A k \in Ids \ {i} : request'[k] = request[k]
      /\ request'[i].op = r.op
      /\ request'[i].cookie = r.cookie
      /\ request'[i].session = r.session
      /\ \/ /\ r.view \in {"start", "remote", "user", "reply"}
            /\ request'[i].view \in {"remote", "user", "reply", "lost"}
            /\ \/ request'[i].call = r.call
               \/ r.view = "start" /\ request'[i].call = "sent"
         \/ /\ r.call \in {"sent", "admitted"}
            /\ request'[i].view = r.view
            /\ request'[i].ok = r.ok
            /\ \/ request'[i].call = "failed"
               \/ /\ request'[i].call = "admitted"
                  /\ r.op = "login" \/ Live(r.cookie)
  <2>1. CASE Refuse(i)
    BY <1>1, <2>1 DEF Refuse, Answer, Requests
  <2>2. CASE CallRemote(i)
    BY <1>1, <2>2 DEF CallRemote, Answer, Requests
  <2>3. CASE RemoteReturns(i)
    BY <1>1, <2>3 DEF RemoteReturns, Answer, Requests
  <2>4. CASE RemoteTimeout(i)
    BY <1>1, <2>4 DEF RemoteTimeout, Answer, Requests
  <2>5. CASE SyncUser(i)
    <3>1. PICK ok \in BOOLEAN :
            request' = [request EXCEPT ![i].view = "reply", ![i].ok = ok]
      BY <2>5 DEF SyncUser, Answer
    <3>2. r.view = "user"
      BY <2>5 DEF SyncUser
    <3> QED BY <1>1, <3>1, <3>2 DEF Requests
  <2>6. CASE Lose(i)
    BY <1>1, <2>6 DEF Lose, Requests
  <2>7. CASE Admit(i)
    <3>1. r.op = "login" \/ Live(r.cookie)
      BY <2>7 DEF Admit
    <3>2. request' = [request EXCEPT ![i].call = "admitted"] /\ r.call = "sent"
      BY <2>7 DEF Admit
    <3> QED BY <1>1, <3>1, <3>2 DEF Requests
  <2>8. CASE CallFails(i)
    BY <1>1, <2>8 DEF CallFails, Requests
  <2> QED
    BY <2>1, <2>2, <2>3, <2>4, <2>5, <2>6, <2>7, <2>8
<1>4. InFlight(i)' => InFlight(i)
  BY <1>3 DEF InFlight
<1>5. \/ request'[i].view # "done" /\ request[i].view # "done"
      \/ request'[i].view = request[i].view /\ request'[i].ok = request[i].ok
  BY <1>3
<1> QED BY <1>1, <1>2, <1>3, <1>4, <1>5

\* So of what LogoutInv is about those steps change at most a call, and an
\* admitted one presents a good token, which is none that a lost answer spent.
LEMMA LogoutQuietStep ==
  ASSUME LogoutInv, SessionInv', NEW i \in Ids,
         \/ Refuse(i) \/ CallRemote(i) \/ RemoteReturns(i)
         \/ RemoteTimeout(i) \/ SyncUser(i) \/ Lose(i)
         \/ Admit(i) \/ CallFails(i)
  PROVE  LogoutInv'
<1>1. SessionInv /\ SessionOfInv /\ OrderInv /\ HandledInv /\ CurrentInv
      /\ LostInv /\ LeftInv
  BY DEF LogoutInv
<1>2. /\ UNCHANGED <<jar, sent, blacklisted, overlapped>>
      /\ \A k \in Ids \ {i} : request'[k] = request[k]
      /\ request'[i].op = request[i].op
      /\ request'[i].cookie = request[i].cookie
      /\ request'[i].session = request[i].session
      /\ request[i].view # "unsent" /\ request'[i].view # "unsent"
      /\ \/ request'[i].view # "done" /\ request[i].view # "done"
         \/ /\ request'[i].view = request[i].view
            /\ request'[i].ok = request[i].ok
      /\ InFlight(i)' => InFlight(i)
      /\ \A outcome \in {"answered", "broken"} :
           request'[i].call = outcome <=> request[i].call = outcome
      /\ request'[i].call = "admitted" =>
           \/ request[i].call = "admitted"
           \/ request[i].op = "login"
           \/ Live(request[i].cookie)
  BY <1>1, QuietRequestStep
<1>3. \A k \in Ids :
        /\ request'[k].op = request[k].op
        /\ request'[k].cookie = request[k].cookie
        /\ request'[k].session = request[k].session
        /\ request'[k].view = "unsent" <=> request[k].view = "unsent"
        /\ request'[k].call = "answered" <=> request[k].call = "answered"
        /\ request'[k].call = "broken" <=> request[k].call = "broken"
        /\ InFlight(k)' => InFlight(k)
  BY <1>2 DEF InFlight
<1>4. \A k \in Ids : /\ Minted(k)' <=> Minted(k)
                     /\ Live(k)' <=> Live(k)
                     /\ Delivered(k)' <=> Delivered(k)
                     /\ LoggedOut(k)' <=> LoggedOut(k)
  BY <1>2, <1>3 DEF Minted, Live, Delivered, LoggedOut
<1>5. \A k \in Ids : request[k].cookie # NoToken => request[k].cookie \in Ids
  BY SessionFacts
<1>6. jar # NoToken => jar \in Ids
  BY SessionFacts
<1>7. SessionOfInv'
  BY <1>1, <1>3, <1>4, <1>5 DEF SessionOfInv
<1>8. OrderInv' /\ HandledInv'
  BY <1>1, <1>2, <1>3 DEF OrderInv, HandledInv
<1>9. CurrentInv'
  BY <1>1, <1>2, <1>3, <1>4, <1>6 DEF CurrentInv, SameSession
<1>10. ASSUME TokenSpent, NEW j \in Ids \ overlapped, NEW k \in Ids,
              j <= sent, ~Delivered(j), InFlight(j) \/ Live(j),
              k > j, SameSession(j, k)
       PROVE  request'[k].call \in {"none", "sent", "failed"}
  <2>1. /\ request[k].op # "login"
        /\ request[k].cookie \in blacklisted
        /\ request[k].call \in {"none", "sent", "failed"}
    BY <1>10, LostIsSpent
  <2>2. request'[k].call # "admitted"
    BY <1>2, <2>1 DEF Live
  <2>3. request'[k].call \in {"none", "sent", "admitted", "answered",
                              "broken", "failed"}
    BY DEF SessionInv, TypeOK, Requests
  <2> QED BY <1>3, <2>1, <2>2, <2>3
<1>11. LostInv'
  BY <1>1, <1>2, <1>3, <1>4, <1>6, <1>10 DEF LostInv, SameSession
<1>12. LeftInv'
  BY <1>1, <1>2, <1>3, <1>4, <1>6 DEF LeftInv
<1> QED BY <1>7, <1>8, <1>9, <1>11, <1>12 DEF LogoutInv

\* An answer reaches the browser.  If it ran beside no other request, nothing
\* was sent since; if another token was delivered like that before, this
\* answer presented it, and has spent it.
LEMMA LogoutDeliverStep ==
  ASSUME LogoutInv, SessionInv', NEW i \in Ids, Deliver(i)
  PROVE  LogoutInv'
<1>1. SessionInv /\ SessionOfInv /\ OrderInv /\ HandledInv /\ CurrentInv
      /\ LostInv /\ LeftInv
  BY DEF LogoutInv
<1>2. /\ UNCHANGED <<sent, blacklisted, overlapped>>
      /\ \A k \in Ids \ {i} : request'[k] = request[k]
      /\ \A k \in Ids : /\ request'[k].op = request[k].op
                        /\ request'[k].cookie = request[k].cookie
                        /\ request'[k].session = request[k].session
                        /\ request'[k].ok = request[k].ok
                        /\ request'[k].call = request[k].call
      /\ request[i].view = "reply" /\ request'[i].view = "done"
      /\ jar' = SetCookie(i)
  BY <1>1 DEF Deliver, SessionInv, TypeOK, Requests
<1>3. /\ NoToken \notin Ids /\ sent \in Nat
      /\ \A k \in Ids :
           /\ k \in Nat
           /\ request[k].cookie # NoToken => request[k].cookie \in Ids
           /\ request[k].session <= k
           /\ request[k].session \in Nat
           /\ k > sent => /\ request[k].session = NoToken
                          /\ ~Minted(k) /\ ~InFlight(k) /\ ~LoggedOut(k)
           /\ Minted(k) => request[k].session # NoToken
           /\ LoggedOut(k) => request[k].session # NoToken
      /\ jar # NoToken => jar \in Ids
  BY SessionFacts
<1>4. /\ InFlight(i) /\ i <= sent
      /\ \A k \in Ids : InFlight(k)' => InFlight(k)
  <2>1. InFlight(i) /\ \A k \in Ids : InFlight(k)' => InFlight(k)
    BY <1>2 DEF InFlight
  <2> QED BY <2>1, <1>3
<1>5. \A k \in Ids : (Minted(k)' <=> Minted(k)) /\ (Live(k)' <=> Live(k))
  BY <1>2 DEF Minted, Live
<1>6. \A k \in Ids \ {i} : /\ Delivered(k)' <=> Delivered(k)
                           /\ LoggedOut(k)' <=> LoggedOut(k)
  BY <1>2 DEF Delivered, LoggedOut
<1>7. \/ jar' \in {NoToken, jar}
      \/ /\ jar' = i /\ request[i].ok /\ Mints(request[i].op)
         /\ Minted(i)
  BY <1>1, <1>2 DEF SetCookie, Mints, SessionInv, PathInv, Minted
<1>8. \A j \in Ids \ overlapped : (j <= sent /\ j # i) => j < i
  BY <1>1, <1>3, <1>4 DEF OrderInv
<1>9. i \notin overlapped =>
        \A k \in Ids : k > i => request[k].session = NoToken
  BY <1>1, <1>3, <1>4 DEF OrderInv
<1>10. request[i].session # NoToken /\ request[i].op = "login"
         => request[i].session = i
  BY <1>1 DEF SessionOfInv
<1>11. SessionOfInv'
  BY <1>1, <1>2, <1>3, <1>5 DEF SessionOfInv
<1>12. OrderInv' /\ HandledInv'
  BY <1>1, <1>2, <1>4 DEF OrderInv, HandledInv
<1>13. ASSUME TokenSpent, NEW j \in Ids \ overlapped, Live(j), Delivered(j)'
       PROVE  /\ (jar' # NoToken /\ SameSession(j, jar)') => jar' = j
              /\ \A k \in Ids :
                   (k > j /\ SameSession(j, k)') => request'[k].cookie = j
  <2>1. CASE j = i
    <3>1. jar' = i
      BY <1>2, <1>13, <2>1
      DEF Live, Minted, Mints, SetCookie, Delivered
    <3>2. \A k \in Ids : k > i => ~SameSession(j, k)'
      BY <1>2, <1>9, <1>13, <2>1 DEF SameSession
    <3> QED BY <3>1, <3>2, <2>1
  <2>2. CASE j # i
    <3>1. /\ (jar # NoToken /\ SameSession(j, jar)) => jar = j
          /\ \A k \in Ids : (k > j /\ SameSession(j, k)) => request[k].cookie = j
      BY <1>1, <1>6, <1>13, <2>2 DEF CurrentInv
    <3>2. j < i
      BY <1>3, <1>8, <1>13, <2>2 DEF Live
    <3>3. ASSUME SameSession(j, i), Mints(request[i].op), Minted(i)
          PROVE  FALSE
      <4>1. request[i].cookie = j
        BY <1>3, <3>1, <3>2, <3>3
      <4>2. request[i].op # "login"
        BY <1>3, <1>10, <3>2, <3>3 DEF SameSession
      <4>3. Blacklists(request[i].op) /\ request[i].call = "answered"
        BY <4>2, <3>3, <1>13 DEF Mints, Minted, Blacklists, TokenSpent
      <4>4. j \in blacklisted
        BY <1>1, <4>1, <4>3 DEF HandledInv
      <4> QED BY <4>4, <1>13 DEF Live
    <3>4. (jar' # NoToken /\ SameSession(j, jar)') => jar' = j
      <4>1. CASE jar' \in {NoToken, jar}
        BY <4>1, <3>1, <1>2, <1>3 DEF SameSession
      <4>2. CASE jar' = i /\ Mints(request[i].op) /\ Minted(i)
        BY <4>2, <3>3, <1>2 DEF SameSession
      <4> QED BY <4>1, <4>2, <1>7
    <3>5. \A k \in Ids : SameSession(j, k)' <=> SameSession(j, k)
      BY <1>2 DEF SameSession
    <3> QED BY <3>1, <3>4, <3>5, <1>2
  <2> QED BY <2>1, <2>2
<1>14. CurrentInv'
  BY <1>2, <1>5, <1>13 DEF CurrentInv, TokenSpent
<1>15. ASSUME TokenSpent, NEW j \in Ids \ overlapped, j <= sent,
              ~Delivered(j)', InFlight(j)' \/ Live(j)
       PROVE  /\ (jar' # NoToken /\ SameSession(j, jar)')
                    => request[j].op # "login" /\ jar' = request[j].cookie
              /\ \A k \in Ids :
                   (k > j /\ SameSession(j, k)') =>
                     /\ request[j].op # "login"
                     /\ request[k].cookie = request[j].cookie
                     /\ request[k].call \in {"none", "sent", "failed"}
  <2>1. ~Delivered(j) /\ (InFlight(j) \/ Live(j))
    BY <1>2, <1>4, <1>6, <1>15 DEF Delivered
  <2>2. /\ (jar # NoToken /\ SameSession(j, jar))
             => request[j].op # "login" /\ jar = request[j].cookie
        /\ \A k \in Ids :
             (k > j /\ SameSession(j, k)) =>
               /\ request[j].op # "login"
               /\ request[k].cookie = request[j].cookie
               /\ request[k].call \in {"none", "sent", "failed"}
    BY <1>1, <1>15, <2>1 DEF LostInv
  <2>3. \A k \in Ids : SameSession(j, k)' <=> SameSession(j, k)
    BY <1>2 DEF SameSession
  <2>4. (jar' # NoToken /\ SameSession(j, jar)')
          => request[j].op # "login" /\ jar' = request[j].cookie
    <3>1. CASE jar' \in {NoToken, jar}
      BY <3>1, <2>2, <1>2, <1>3 DEF SameSession
    <3>2. CASE jar' = i /\ request[i].ok /\ Minted(i)
      <4>1. i # j
        BY <3>2, <1>2, <1>15 DEF Delivered
      <4>2. i > j
        BY <4>1, <1>3, <1>8, <1>15
      <4>3. ~SameSession(j, i)
        BY <4>2, <2>2, <3>2 DEF Minted
      <4> QED BY <4>3, <3>2, <2>3
    <3> QED BY <3>1, <3>2, <1>7
  <2> QED BY <2>2, <2>3, <2>4
<1>16. LostInv'
  BY <1>2, <1>5, <1>15 DEF LostInv, TokenSpent
<1>17. ASSUME NEW x \in Ids \ overlapped, LoggedOut(x)'
       PROVE  /\ jar' # NoToken => request'[jar'].session # request[x].session
              /\ \A k \in Ids : k > x => request[k].session # request[x].session
  <2>1. CASE x = i
    <3>1. /\ request[i].op = "logout" /\ request[i].ok
          /\ request[i].cookie # NoToken
      BY <1>2, <1>17, <2>1 DEF LoggedOut
    <3>2. jar' = NoToken
      BY <3>1, <1>2 DEF SetCookie
    <3>3. request[i].session # NoToken
      <4>1. Minted(request[i].cookie) /\ request[i].cookie \in Ids
        BY <1>1, <1>3, <3>1 DEF SessionInv, DeliveredInv
      <4> QED BY <4>1, <3>1, <1>1, <1>3 DEF SessionOfInv
    <3> QED BY <3>2, <3>3, <1>9, <1>17, <2>1
  <2>2. CASE x # i
    <3>1. /\ LoggedOut(x)
          /\ jar # NoToken => request[jar].session # request[x].session
          /\ \A k \in Ids : k > x => request[k].session # request[x].session
      BY <1>1, <1>6, <1>17, <2>2 DEF LeftInv
    <3>2. x < i
      BY <1>3, <1>8, <2>2, <3>1
    <3>3. request[i].session # request[x].session
      BY <1>3, <3>1, <3>2
    <3> QED BY <1>2, <1>3, <1>7, <3>1, <3>3
  <2> QED BY <2>1, <2>2
<1>18. LeftInv'
  BY <1>2, <1>17 DEF LeftInv
<1> QED BY <1>11, <1>12, <1>14, <1>16, <1>18 DEF LogoutInv

\* A new request finds nobody else in flight, or overlaps them all; it
\* presents what the jar holds.
LEMMA LogoutSendStep ==
  ASSUME LogoutInv, SessionInv', NEW op \in Ops, Send(op)
  PROVE  LogoutInv'
<1> DEFINE others == {k \in Ids : InFlight(k)}
<1>1. PICK n \in Ids : n = sent + 1
  BY ClientSessionAssumption DEF LogoutInv, SessionInv, TypeOK, Send, Ids
<1>2. SessionInv /\ SessionOfInv /\ OrderInv /\ HandledInv /\ CurrentInv
      /\ LostInv /\ LeftInv
  BY DEF LogoutInv
<1>3. /\ NoToken \notin Ids /\ sent \in Nat
      /\ \A k \in Ids :
           /\ k \in Nat
           /\ request[k].cookie # NoToken => request[k].cookie \in Ids
           /\ request[k].session <= k
           /\ request[k].session \in Nat
           /\ k > sent => /\ request[k] = Unsent
                          /\ request[k].session = NoToken
                          /\ ~Minted(k) /\ ~InFlight(k) /\ ~LoggedOut(k)
           /\ Minted(k) => request[k].session # NoToken
           /\ LoggedOut(k) => request[k].session # NoToken
      /\ jar # NoToken => /\ jar \in Ids /\ jar <= sent
                          /\ request[jar].session # NoToken
  BY SessionFacts
<1>4. /\ sent' = n /\ UNCHANGED <<jar, blacklisted>>
      /\ \A k \in Ids \ {n} : request'[k] = request[k]
      /\ request'[n].op = op /\ request'[n].cookie = jar
      /\ request'[n].session = IF op = "login" THEN n
                               ELSE IF jar = NoToken THEN NoToken
                               ELSE request[jar].session
      /\ request'[n].view = "start" /\ request'[n].call = "none"
      /\ overlapped \subseteq overlapped'
      /\ \/ others = {} /\ overlapped' = overlapped
         \/ overlapped' = overlapped \cup others \cup {n}
  <2> DEFINE r == [op |-> op, cookie |-> jar,
                   session |-> IF op = "login" THEN n
                               ELSE IF jar = NoToken THEN NoToken
                               ELSE request[jar].session,
                   view |-> "start", ok |-> FALSE, call |-> "none"]
  <2>1. request' = [request EXCEPT ![n] = r] /\ sent' = n
        /\ UNCHANGED <<jar, blacklisted>>
    BY <1>1 DEF Send
  <2>2. \/ others = {} /\ overlapped' = overlapped
        \/ overlapped' = overlapped \cup others \cup {n}
    BY <1>1 DEF Send
  <2>3. request'[n] = r /\ \A k \in Ids \ {n} : request'[k] = request[k]
    BY <2>1, <1>2 DEF SessionInv, TypeOK
  <2> QED BY <2>1, <2>2, <2>3
<1>5. n > sent /\ request[n] = Unsent
      /\ \A k \in Ids : k # n => (k <= sent \/ k > n)
  BY <1>1, <1>3, <1>4
<1>6. /\ ~Minted(n)' /\ ~Live(n)' /\ ~Delivered(n)' /\ ~LoggedOut(n)'
      /\ \A k \in Ids \ {n} : /\ Minted(k)' <=> Minted(k)
                              /\ Live(k)' <=> Live(k)
                              /\ Delivered(k)' <=> Delivered(k)
                              /\ LoggedOut(k)' <=> LoggedOut(k)
                              /\ InFlight(k)' <=> InFlight(k)
  BY <1>4 DEF Minted, Live, Delivered, LoggedOut, InFlight
<1>7. jar # NoToken => jar \in Ids \ {n} /\ request'[jar] = request[jar]
  BY <1>3, <1>4, <1>5
<1>8. \A j \in Ids : j <= sent => j # n /\ request[j].session < n
  BY <1>3, <1>4, <1>5
<1>9. ASSUME NEW j \in Ids, j <= sent, request'[n].session = request[j].session,
             request[j].session # NoToken
      PROVE  op # "login" /\ jar # NoToken
             /\ request[jar].session = request[j].session
  BY <1>3, <1>4, <1>8, <1>9
<1>10. SessionOfInv'
  <2>1. ASSUME NEW k \in Ids \ {n}
        PROVE  /\ request[k].cookie # NoToken =>
                    request'[request[k].cookie] = request[request[k].cookie]
    <3>1. request[k].cookie # NoToken =>
            Minted(request[k].cookie) /\ request[k].cookie \in Ids
      BY <1>2, <1>3 DEF SessionInv, DeliveredInv
    <3>2. request[k].cookie # NoToken => request[k].cookie # n
      BY <3>1, <1>3, <1>5
    <3> QED BY <3>1, <3>2, <1>4
  <2>2. request'[n].session <= n
    BY <1>3, <1>4, <1>5, <1>8
  <2> QED BY <1>2, <1>4, <1>6, <1>7, <2>1, <2>2 DEF SessionOfInv
<1>11. \A k \in Ids : (k \notin overlapped' /\ k <= sent) => ~InFlight(k)
  BY <1>4
<1>12. OrderInv'
  <2>1. ASSUME NEW k \in Ids \ overlapped', k <= n
        PROVE  /\ \A m \in Ids : m < k => ~InFlight(m)'
               /\ InFlight(k)' => \A m \in Ids : m > k => m > n
    <3>1. CASE k = n
      <4>1. others = {}
        BY <1>4, <2>1, <3>1
      <4> QED BY <4>1, <3>1, <1>3, <1>6
    <3>2. CASE k # n
      <4>1. k <= sent /\ k \notin overlapped
        BY <1>3, <1>4, <1>5, <2>1, <3>2
      <4>2. \A m \in Ids : m < k => ~InFlight(m) /\ m # n
        BY <1>2, <1>3, <1>5, <4>1 DEF OrderInv
      <4>3. ~InFlight(k)
        BY <1>11, <2>1, <4>1
      <4> QED BY <4>2, <4>3, <3>2, <1>6
    <3> QED BY <3>1, <3>2
  <2> QED BY <2>1, <1>4 DEF OrderInv
<1>13. HandledInv'
  BY <1>2, <1>4 DEF HandledInv
<1>14. ASSUME TokenSpent, NEW j \in Ids \ overlapped', Live(j)', Delivered(j)'
       PROVE  /\ (jar # NoToken /\ SameSession(j, jar)') => jar = j
              /\ \A k \in Ids :
                   (k > j /\ SameSession(j, k)') => request'[k].cookie = j
  <2>1. j # n /\ j \notin overlapped /\ Live(j) /\ Delivered(j)
    BY <1>4, <1>6, <1>14
  <2>2. j <= sent /\ request[j].session # NoToken
    BY <1>3, <1>5, <2>1 DEF Live
  <2>3. /\ (jar # NoToken /\ SameSession(j, jar)) => jar = j
        /\ \A k \in Ids : (k > j /\ SameSession(j, k)) => request[k].cookie = j
    BY <1>2, <1>14, <2>1 DEF CurrentInv
  <2>4. (jar # NoToken /\ SameSession(j, jar)') => jar = j
    BY <1>4, <1>7, <2>1, <2>3 DEF SameSession
  <2>5. SameSession(j, n)' => jar = j
    BY <1>4, <1>9, <2>1, <2>2, <2>3 DEF SameSession
  <2>6. \A k \in Ids \ {n} : SameSession(j, k)' <=> SameSession(j, k)
    BY <1>4, <2>1 DEF SameSession
  <2> QED BY <1>4, <2>3, <2>4, <2>5, <2>6
<1>15. CurrentInv'
  BY <1>4, <1>14 DEF CurrentInv, TokenSpent
<1>16. ASSUME TokenSpent, NEW j \in Ids \ overlapped', j <= n,
              ~Delivered(j)', InFlight(j)' \/ Live(j)'
       PROVE  /\ (jar # NoToken /\ SameSession(j, jar)')
                    => request'[j].op # "login" /\ jar = request'[j].cookie
              /\ \A k \in Ids :
                   (k > j /\ SameSession(j, k)') =>
                     /\ request'[j].op # "login"
                     /\ request'[k].cookie = request'[j].cookie
                     /\ request'[k].call \in {"none", "sent", "failed"}
  <2>1. CASE j = n
    <3>1. \A k \in Ids : k > n => ~SameSession(n, k)'
      BY <1>3, <1>4, <1>5 DEF SameSession
    <3>2. (jar # NoToken /\ SameSession(n, jar)') => op # "login"
      <4>1. ASSUME jar # NoToken, SameSession(n, jar)', op = "login"
            PROVE  FALSE
        <5>1. request[jar].session = n
          BY <1>4, <1>7, <4>1 DEF SameSession
        <5> QED BY <5>1, <1>3, <1>8, <4>1
      <4> QED BY <4>1
    <3> QED BY <3>1, <3>2, <2>1, <1>4
  <2>2. CASE j # n
    <3>1. j <= sent /\ j \notin overlapped
      BY <1>3, <1>4, <1>5, <1>16, <2>2
    <3>2. Live(j) /\ ~Delivered(j)
      BY <1>6, <1>11, <1>16, <2>2, <3>1
    <3>3. /\ (jar # NoToken /\ SameSession(j, jar))
               => request[j].op # "login" /\ jar = request[j].cookie
          /\ \A k \in Ids :
               (k > j /\ SameSession(j, k)) =>
                 /\ request[j].op # "login"
                 /\ request[k].cookie = request[j].cookie
                 /\ request[k].call \in {"none", "sent", "failed"}
      BY <1>2, <1>16, <3>1, <3>2 DEF LostInv
    <3>4. request'[j] = request[j] /\ request[j].session # NoToken
      BY <1>3, <1>4, <2>2, <3>2 DEF Live
    <3>5. jar # NoToken => (SameSession(j, jar)' <=> SameSession(j, jar))
      BY <1>4, <1>7, <3>4 DEF SameSession
    <3>6. SameSession(j, n)' => jar # NoToken /\ SameSession(j, jar)
      BY <1>9, <3>1, <3>4 DEF SameSession
    <3>7. \A k \in Ids \ {n} : SameSession(j, k)' <=> SameSession(j, k)
      BY <1>4, <3>4 DEF SameSession
    <3> QED BY <1>4, <3>3, <3>4, <3>5, <3>6, <3>7
  <2> QED BY <2>1, <2>2
<1>17. LostInv'
  BY <1>4, <1>16 DEF LostInv, TokenSpent
<1>18. ASSUME NEW x \in Ids \ overlapped', LoggedOut(x)'
       PROVE  /\ jar # NoToken => request'[jar].session # request'[x].session
              /\ \A k \in Ids : k > x =>
                   request'[k].session # request'[x].session
  <2>1. x # n /\ LoggedOut(x) /\ x \notin overlapped
    BY <1>4, <1>6, <1>18
  <2>2. x <= sent /\ request[x].session # NoToken /\ request'[x] = request[x]
    BY <1>3, <1>4, <1>5, <2>1
  <2>3. /\ jar # NoToken => request[jar].session # request[x].session
        /\ \A k \in Ids : k > x => request[k].session # request[x].session
    BY <1>2, <2>1 DEF LeftInv
  <2>4. request'[n].session # request[x].session
    BY <1>9, <2>2, <2>3
  <2> QED BY <1>4, <1>7, <2>2, <2>3, <2>4
<1>19. LeftInv'
  BY <1>4, <1>18 DEF LeftInv
<1> QED BY <1>10, <1>12, <1>13, <1>15, <1>17, <1>19 DEF LogoutInv

\* The service's half: what it mints is not delivered yet, and what it mints
\* it from is spent.
LEMMA LogoutCommitStep ==
  ASSUME LogoutInv, SessionInv', NEW n \in Ids, Commit(n)
  PROVE  LogoutInv'
<1>1. SessionInv /\ SessionOfInv /\ OrderInv /\ HandledInv /\ CurrentInv
      /\ LostInv /\ LeftInv
  BY DEF LogoutInv
<1>2. PICK outcome \in {"answered", "broken"} :
        request' = [request EXCEPT ![n].call = outcome]
  BY DEF Commit
<1>3. /\ \A k \in Ids : /\ request'[k].op = request[k].op
                        /\ request'[k].cookie = request[k].cookie
                        /\ request'[k].session = request[k].session
                        /\ request'[k].view = request[k].view
                        /\ request'[k].ok = request[k].ok
      /\ \A k \in Ids \ {n} : request'[k] = request[k]
      /\ request[n].call = "admitted" /\ request'[n].call = outcome
      /\ UNCHANGED <<jar, sent, overlapped>>
  BY <1>1, <1>2 DEF Commit, SessionInv, TypeOK, Requests
<1>4. blacklisted' = IF Blacklists(request[n].op)
                     THEN blacklisted \cup {request[n].cookie}
                     ELSE blacklisted
  BY DEF Commit
<1>5. /\ \A k \in Ids : request[k].cookie # NoToken => request[k].cookie \in Ids
      /\ jar # NoToken => jar \in Ids
  BY SessionFacts
<1>6. /\ \A k \in Ids \ {n} : (Minted(k)' <=> Minted(k)) /\ (Live(k)' => Live(k))
      /\ \A k \in Ids : Delivered(k)' <=> Delivered(k)
      /\ \A k \in Ids : LoggedOut(k)' <=> LoggedOut(k)
      /\ \A k \in Ids : InFlight(k)' => InFlight(k)
      /\ InFlight(n)
  BY <1>3, <1>4 DEF Minted, Live, Delivered, LoggedOut, InFlight
<1>7. \A j, k \in Ids : SameSession(j, k)' <=> SameSession(j, k)
  BY <1>3 DEF SameSession
<1>8. SessionOfInv'
  <2>1. request[n].session # NoToken
    <3>1. CASE request[n].op = "login"
      BY <3>1, <1>1, <1>3, SessionFacts
      DEF SessionOfInv, SessionInv, PathInv
    <3>2. CASE request[n].op # "login"
      <4>1. request[n].cookie # NoToken
        BY <3>2, <1>1, <1>3 DEF SessionInv, PathInv
      <4>2. Minted(request[n].cookie) /\ request[n].cookie \in Ids
        BY <4>1, <1>1, <1>5 DEF SessionInv, DeliveredInv
      <4> QED BY <3>2, <4>1, <4>2, <1>1 DEF SessionOfInv
    <3> QED BY <3>1, <3>2
  <2> QED BY <2>1, <1>1, <1>3, <1>5, <1>6 DEF SessionOfInv
<1>9. OrderInv'
  BY <1>1, <1>3, <1>6 DEF OrderInv
<1>10. HandledInv'
  BY <1>1, <1>3, <1>4 DEF HandledInv
<1>11. CurrentInv'
  <2>1. \A j \in Ids : (Live(j)' /\ Delivered(j)') => (Live(j) /\ Delivered(j))
    <3>1. Minted(n)' => ~Delivered(n)
      BY <1>1, <1>3 DEF Minted, Mints, Delivered, SessionInv, PathInv
    <3> QED BY <3>1, <1>6 DEF Live
  <2> QED BY <2>1, <1>1, <1>3, <1>5, <1>7 DEF CurrentInv, TokenSpent
<1>12. LostInv'
  <2>1. ASSUME TokenSpent, NEW j \in Ids \ overlapped, j <= sent,
               ~Delivered(j), InFlight(j)' \/ Live(j)'
        PROVE  /\ (jar # NoToken /\ SameSession(j, jar))
                     => request[j].op # "login" /\ jar = request[j].cookie
               /\ \A k \in Ids :
                    (k > j /\ SameSession(j, k)) =>
                      /\ request[j].op # "login"
                      /\ request[k].cookie = request[j].cookie
                      /\ request'[k].call \in {"none", "sent", "failed"}
    <3>1. InFlight(j) \/ Live(j)
      BY <1>6, <2>1
    <3> QED BY <3>1, <2>1, <1>1, <1>3 DEF LostInv
  <2> QED BY <2>1, <1>3, <1>5, <1>6, <1>7 DEF LostInv, TokenSpent
<1>13. LeftInv'
  BY <1>1, <1>3, <1>5, <1>6 DEF LeftInv
<1> QED BY <1>8, <1>9, <1>10, <1>11, <1>12, <1>13 DEF LogoutInv

\* Every step keeps what LogoutLeftoversExplained rests on.
LEMMA LogoutStep == LogoutInv /\ [Next]_vars => LogoutInv'
<1> SUFFICES ASSUME LogoutInv, [Next]_vars
             PROVE  LogoutInv'
  OBVIOUS
<1>1. SessionInv'
  BY SessionStep DEF LogoutInv
<1>2. CASE Next
  <2>1. CASE CookieExpires
    BY <1>1, <2>1
    DEF CookieExpires, LogoutInv, SessionOfInv, OrderInv, HandledInv,
        CurrentInv, LostInv, LeftInv, Live, Minted, Delivered, LoggedOut,
        InFlight, SameSession
  <2> QED
    BY <1>1, <1>2, <2>1, LogoutSendStep, LogoutCommitStep, LogoutDeliverStep,
       LogoutQuietStep
    DEF Next, ViewStep, ServiceStep
<1>3. CASE UNCHANGED vars
  BY <1>1, <1>3
  DEF vars, LogoutInv, SessionOfInv, OrderInv, HandledInv, CurrentInv,
      LostInv, LeftInv, Live, Minted, Delivered, LoggedOut, InFlight,
      SameSession
<1> QED BY <1>2, <1>3

\* A token the session still has when it has been logged out was delivered,
\* and then it is the one presented, or lost, and then a spent one was.
LEMMA LogoutInvLeftovers == LogoutInv => LogoutLeftoversExplained
<1> SUFFICES ASSUME LogoutInv PROVE LogoutLeftoversExplained
  OBVIOUS
<1>1. ASSUME NEW i \in Ids, LoggedOut(i), i \notin overlapped
      PROVE  jar # NoToken => request[jar].session # request[i].session
  BY <1>1 DEF LogoutInv, LeftInv
<1>2. ASSUME NEW i \in Ids, LoggedOut(i), i \notin overlapped, TokenSpent,
             NEW j \in Ids, Live(j), request[j].session = request[i].session,
             j \notin overlapped
      PROVE  /\ request[i].call \notin {"answered", "broken"}
             /\ j = request[i].cookie \/ Undelivered(j)
  <2>1. /\ i <= sent /\ j <= sent /\ i \in Nat /\ j \in Nat
        /\ SameSession(j, i)
    BY <1>2, SessionFacts DEF SameSession, Live
  <2>2. j < i
    <3>1. j # i
      BY <1>2 DEF LoggedOut, Live, Minted, Mints
    <3>2. ~(j > i)
      BY <1>2 DEF LogoutInv, LeftInv
    <3> QED BY <3>1, <3>2, <2>1
  <2>3. CASE Delivered(j)
    <3>1. request[i].cookie = j
      BY <2>1, <2>2, <2>3, <1>2 DEF LogoutInv, CurrentInv
    <3>2. Blacklists(request[i].op)
      BY <1>2 DEF LoggedOut, Blacklists
    <3> QED BY <3>1, <3>2, <1>2 DEF LogoutInv, HandledInv, Live
  <2>4. CASE ~Delivered(j)
    <3>1. request[i].call \in {"none", "sent", "failed"}
      BY <2>1, <2>2, <2>4, <1>2, LostIsSpent
    <3>2. ~InFlight(j)
      BY <2>1, <2>2, <1>2 DEF LogoutInv, OrderInv
    <3>3. /\ request[j] \in Requests
          /\ request[j].view \notin {"unsent", "start"}
      BY <1>2, SessionFacts
      DEF LogoutInv, SessionInv, PathInv, Live, Minted
    <3>4. Undelivered(j)
      BY <3>2, <3>3, <2>4 DEF InFlight, Undelivered, Delivered, Requests
    <3> QED BY <3>1, <3>4
  <2> QED BY <2>3, <2>4
<1> QED BY <1>1, <1>2 DEF LogoutLeftoversExplained, TokenSpent

\* After a logout that overlapped no other request the browser holds no token
\* of the session; the service accepts one only if it comes of overlapping
\* requests, or if the logout's call was not handled and the token is the one
\* presented or one whose answer never arrived.
THEOREM LogoutLeavesNothingElse == Spec => []LogoutLeftoversExplained
BY LogoutInit, LogoutStep, LogoutInvLeftovers, PTL DEF Spec
=============================================================================
