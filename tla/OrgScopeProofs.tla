-------------------------- MODULE OrgScopeProofs --------------------------
(***************************************************************************)
(* What the pool, the answers and the committed rows can be trusted for,   *)
(* for any number of requests, organizations and connections.  The         *)
(* inductive invariant says where a handler can be while its request holds *)
(* a connection (PlacesOK), what that connection, an idle one and a lent   *)
(* one may contain (ConnectionsOK), and whose writes are pending where     *)
(* (WritesOK).                                                             *)
(***************************************************************************)
EXTENDS OrgScope, TLAPS

Inside == {"handle", "borrow", "lent", "searched", "wrote", "threw"}

\* Where a handler is agrees with what its request holds.
PlacesOK ==
  \A r \in Requests :
    /\ pc[r] = "waiting" => scope[r] = "none"
    /\ scope[r] = "none" => pc[r] \in {"waiting", "done"}
    /\ scope[r] = "held" => pc[r] # "done"
    /\ pc[r] \in {"begin", "scope", "ended", "failed"} => scope[r] = "held"
    /\ (aux[r] # NoClient) = (pc[r] = "lent")
    /\ aux[r] # NoClient => /\ owner[aux[r]] = r
                            /\ scope[r] = "held" => client[r] # aux[r]

\* What a connection outside a request's transaction may hold.
Quiet(cn) == cn = Clean \/ (cn.tx = "aborted" /\ cn.org = NoOrg /\ struck # {})

\* What the connection cn of request r holds, until it is released.
HeldOK(r, cn) ==
  /\ pc[r] \in {"begin", "scope"} => cn.org = NoOrg /\ (cn.tx = "aborted" => struck # {})
  /\ pc[r] \in {"ended", "failed"} => cn = Clean \/ cn.tx = "broken"
  /\ pc[r] \in Inside \cup {"scope"} => cn.tx # "none"
  /\ pc[r] \in Inside \cup {"scope"} /\ r \notin struck => cn.tx = "open"
  /\ pc[r] \in Inside /\ cn.tx = "open" => cn.org = OrgOf[r]
  /\ pc[r] = "wrote" /\ r \notin struck => <<"data", r>> \in cn.pending

ConnectionsOK ==
  /\ \A c \in Clients : owner[c] = Nobody => Quiet(conn[c])
  /\ \A r \in Requests : aux[r] # NoClient => Quiet(conn[aux[r]])
  /\ \A r \in Requests : scope[r] = "held" => HeldOK(r, conn[client[r]])

WritesOK ==
  /\ \A c \in Clients, r \in Requests :
       <<"data", r>> \in conn[c].pending => Stray(r) \/ owner[c] = r
  /\ \A r \in Requests :
       (pc[r] = "ended" \/ answer[r] = "ok") /\ r \notin struck => <<"data", r>> \in saved

\* A connection that is well typed and holds writes only in an open transaction.
Sound(cn) == cn \in Connection /\ (cn.tx # "open" => cn.pending = {})

\* The commands of a connection keep it sound.
LEMMA SoundCommands ==
  ASSUME NEW cn, Sound(cn), NEW o \in Orgs, NEW x \in Rows
  PROVE  /\ Sound(Clean)
         /\ Sound(Begun(cn)) /\ Sound(Scoped(cn, o))
         /\ Sound(Written(cn, x)) /\ Sound(Failed(cn))
         /\ Sound(Ended(cn)) /\ Sound(Released(cn))
         /\ Sound([Clean EXCEPT !.tx = "broken"])
  <1>1. Sound(Clean) /\ Sound([Clean EXCEPT !.tx = "broken"])
    BY DEF Sound, Connection, Clean
  <1>2. Sound(Begun(cn)) /\ Sound(Scoped(cn, o))
    BY DEF Sound, Connection, Begun, Scoped
  <1>3. Sound(Written(cn, x)) /\ Sound(Failed(cn))
    BY DEF Sound, Connection, Written, Failed
  <1>4. Sound(Ended(cn)) /\ Sound(Released(cn))
    BY <1>1 DEF Sound, Ended, Released
  <1> QED BY <1>1, <1>2, <1>3, <1>4

\* What a statement does to a connection: nothing unless a transaction is open.
LEMMA Statements ==
  ASSUME NEW cn, Sound(cn), NEW x
  PROVE  /\ cn.tx # "open" => Written(cn, x) = cn /\ Failed(cn) = cn
         /\ Written(cn, x).tx = cn.tx
         /\ Written(cn, x).org = cn.org /\ Failed(cn).org = cn.org
         /\ cn.pending \subseteq Written(cn, x).pending
         /\ Written(cn, x).pending \subseteq cn.pending \cup {x}
         /\ cn.tx = "open" => x \in Written(cn, x).pending
         /\ Failed(cn).tx = IF cn.tx = "open" THEN "aborted" ELSE cn.tx
         /\ Failed(cn).pending = {}
  BY DEF Sound, Connection, Written, Failed

\* A connection that comes back to the pool works; it may be an aborted one.
LEMMA Endings ==
  ASSUME NEW cn, Sound(cn)
  PROVE  /\ Ended(cn) = Clean \/ (Ended(cn) = cn /\ cn.tx = "broken")
         /\ Released(Ended(cn)) = Clean
         /\ Released(cn) = IF cn.tx = "broken" THEN Clean ELSE cn
  BY DEF Ended, Released, Clean

\* Every connection is sound, and so is what a handler's statements go to.
LEMMA LinesSound ==
  ASSUME TypeOK
  PROVE  /\ \A c \in Clients : Sound(conn[c])
         /\ \A r \in Requests :
              scope[r] = "held" => client[r] \in Clients /\ Line(r) = conn[client[r]]
         /\ \A r \in Requests : Sound(Line(r))
  <1>1. \A c \in Clients : Sound(conn[c])
    BY DEF TypeOK, Sound
  <1>2. Sound([Clean EXCEPT !.tx = "broken"])
    BY DEF Sound, Connection, Clean
  <1>3. \A r \in Requests :
              scope[r] = "held" => client[r] \in Clients /\ Line(r) = conn[client[r]]
    BY OrgScopeAssumption DEF TypeOK, Line
  <1>4. \A r \in Requests : Sound(Line(r))
    BY <1>1, <1>2 DEF TypeOK, Line
  <1> QED BY <1>1, <1>3, <1>4

\* Releasing a connection keeps the pool well typed; whoever holds another one keeps it.
LEMMA ReleaseType ==
  ASSUME TypeOK, NEW c \in Clients, NEW cn, Sound(cn), Release(c, cn)
  PROVE  /\ conn' \in [Clients -> Connection]
         /\ \A d \in Clients : conn'[d].tx # "open" => conn'[d].pending = {}
         /\ owner' \in [Clients -> Requests \cup {Nobody}]
         /\ client' \in [Requests -> Clients \cup {NoClient}]
         /\ \A q \in Requests : scope[q] = "held" /\ client[q] # c =>
              client'[q] = client[q] /\ owner'[client[q]] = q
         /\ conn'[c] = Released(cn)
         /\ \A d \in Clients \ {c} : conn'[d] = conn[d]
         /\ owner'[c] = Nobody
         /\ \A d \in Clients \ {c} : owner'[d] = owner[d]
  <1>1. Sound(Released(cn))
    BY DEF Released, Sound, Connection, Clean
  <1>2. conn' = [conn EXCEPT ![c] = Released(cn)] /\ owner' = [owner EXCEPT ![c] = Nobody]
    BY DEF Release
  <1>3. client' \in [Requests -> Clients \cup {NoClient}]
    BY DEF Release, TypeOK
  <1>4. ASSUME NEW q \in Requests, scope[q] = "held", client[q] # c
        PROVE  client'[q] = client[q] /\ owner'[client[q]] = q
    BY <1>2, <1>4 DEF Release, TypeOK
  <1> QED BY <1>1, <1>2, <1>3, <1>4 DEF Sound, TypeOK

\* The middleware keeps the state well typed.
LEMMA MiddlewareType ==
  ASSUME TypeOK, PlacesOK, NEW r \in Requests, Middleware(r)
  PROVE  TypeOK'
  <1> USE OrgScopeAssumption DEF TypeOK, Goto, PCs, Scopes
  <1>1. ASSUME NEW c \in Clients, Connect(r, c) PROVE TypeOK'
    BY <1>1 DEF Connect
  <1>2. CASE ConnectTimeout(r)
    BY <1>2 DEF ConnectTimeout
  <1>3. CASE TimeoutCrash(r)
    BY <1>3 DEF TimeoutCrash, Connection, Clean
  <1>4. CASE BeginFails(r)
    <2>1. client[r] \in Clients /\ owner[client[r]] = r /\ Sound(Line(r))
      BY <1>4, LinesSound DEF BeginFails, PlacesOK
    <2> QED BY <1>4, <2>1, ReleaseType DEF BeginFails
  <1>5. CASE Begin(r)
    BY <1>5 DEF Begin, PlacesOK, Begun, Connection
  <1>6. CASE SetOrg(r)
    BY <1>6 DEF SetOrg, PlacesOK, Scoped, Connection
  <1> QED BY <1>1, <1>2, <1>3, <1>4, <1>5, <1>6 DEF Middleware

\* Statements of a handler keep the state well typed.
LEMMA StatementType ==
  ASSUME TypeOK, NEW r \in Requests, NEW x \in Rows, Accepted(r, x) \/ Rejected(r)
  PROVE  /\ conn' \in [Clients -> Connection]
         /\ \A c \in Clients : conn'[c].tx # "open" => conn'[c].pending = {}
         /\ saved' \subseteq Rows
  <1>1. \A c \in Clients : Sound(conn[c])
    BY LinesSound
  <1>2. client[r] # NoClient => client[r] \in Clients /\ Line(r) = conn[client[r]]
    BY OrgScopeAssumption DEF TypeOK, Line
  <1>3. CASE Accepted(r, x)
    <2>1. client[r] \in Clients
      BY <1>2, <1>3 DEF Accepted, Works, Line, Clean
    <2>2. Sound(Written(conn[client[r]], x))
      BY <1>1, <2>1 DEF Sound, Connection, Written
    <2>3. saved' \subseteq Rows
      BY <1>3 DEF Accepted, Saved, TypeOK
    <2> QED BY <1>1, <1>3, <2>1, <2>2, <2>3 DEF Accepted, Sound, TypeOK
  <1>4. CASE Rejected(r)
    <2>1. client[r] \in Clients => Sound(Failed(conn[client[r]]))
      BY <1>1 DEF Sound, Connection, Failed
    <2> QED BY <1>1, <1>2, <1>4, <2>1 DEF Rejected, Sound, TypeOK
  <1> QED BY <1>3, <1>4

\* The handler keeps the state well typed.
LEMMA HandlerType ==
  ASSUME TypeOK, PlacesOK, NEW r \in Requests, Handler(r)
  PROVE  TypeOK'
  <1> USE OrgScopeAssumption DEF TypeOK, Goto, PCs, Scopes
  <1>1. CASE Borrow(r) \/ BorrowTimeout(r) \/ Throw(r)
    BY <1>1 DEF Borrow, BorrowTimeout, Throw
  <1>2. ASSUME NEW c \in Clients, Lend(r, c) PROVE TypeOK'
    BY <1>2 DEF Lend
  <1>3. CASE Return(r)
    <2>1. aux[r] \in Clients /\ owner[aux[r]] = r /\ Sound(conn[aux[r]])
      BY <1>3, LinesSound DEF Return, PlacesOK
    <2>2. \A q \in Requests : scope[q] = "held" => client[q] # aux[r]
      BY <1>3, <2>1 DEF Return, PlacesOK
    <2> QED BY <1>3, <2>1, <2>2, ReleaseType DEF Return
  <1>4. CASE Write(r)
    <2>1. <<"data", r>> \in Rows
      BY DEF Rows
    <2>2. /\ conn' \in [Clients -> Connection]
          /\ \A c \in Clients : conn'[c].tx # "open" => conn'[c].pending = {}
          /\ saved' \subseteq Rows
      BY <1>4, <2>1, StatementType DEF Write
    <2> QED BY <1>4, <2>2 DEF Write, Victims
  <1> QED BY <1>1, <1>2, <1>3, <1>4 DEF Handler

\* The end of a response, a disconnect and a break keep the state well typed.
LEMMA EndingType ==
  ASSUME TypeOK, PlacesOK, NEW r \in Requests, Ending(r) \/ Disconnect(r) \/ Break(r)
  PROVE  TypeOK'
  <1> USE OrgScopeAssumption DEF TypeOK, Goto, PCs, Scopes
  <1>a. /\ scope[r] = "held" => client[r] \in Clients /\ Line(r) = conn[client[r]]
        /\ Sound(Line(r))
    BY LinesSound
  <1>b. Sound(Ended(Line(r)))
    BY <1>a DEF Ended, Sound, Connection, Clean
  <1>1. CASE Finish(r)
    BY <1>1, <1>a, <1>b DEF Finish, EndLabel, Sound, Connection
  <1>2. CASE Flush(r)
    <2>1. scope[r] = "held" /\ <<"audit", r>> \in Rows
      BY <1>2 DEF Flush, PlacesOK, Rows
    <2> QED BY <1>2, <1>a, <2>1, ReleaseType DEF Flush
  <1>3. CASE FinishStray(r)
    <2>1. <<"audit", r>> \in Rows
      BY DEF Rows
    <2>2. /\ conn' \in [Clients -> Connection]
          /\ \A c \in Clients : conn'[c].tx # "open" => conn'[c].pending = {}
          /\ saved' \subseteq Rows
      BY <1>3, <2>1, StatementType DEF FinishStray
    <2> QED BY <1>3, <2>2 DEF FinishStray, Victims
  <1>4. CASE Disconnect(r)
    BY <1>4, <1>a, <1>b, ReleaseType DEF Disconnect, Open
  <1>5. CASE Break(r)
    BY <1>5, <1>a DEF Break, Connection, Clean
  <1> QED BY <1>1, <1>2, <1>3, <1>4, <1>5 DEF Ending

\* The middleware keeps handlers where their requests' connections allow.
LEMMA MiddlewarePlaces ==
  ASSUME TypeOK, PlacesOK, NEW r \in Requests, Middleware(r)
  PROVE  PlacesOK'
  <1> USE OrgScopeAssumption
  <1>1. ASSUME NEW c \in Clients, Connect(r, c) PROVE PlacesOK'
    BY <1>1 DEF Connect, TypeOK, Goto, PlacesOK
  <1>2. CASE ConnectTimeout(r)
    BY <1>2 DEF ConnectTimeout, TypeOK, Goto, PlacesOK
  <1>3. CASE TimeoutCrash(r)
    BY <1>3 DEF TimeoutCrash, TypeOK, PlacesOK, Scopes
  <1>4. CASE BeginFails(r)
    <2>1. client[r] \in Clients /\ owner[client[r]] = r /\ Sound(Line(r)) /\ scope[r] = "held"
      BY <1>4, LinesSound DEF BeginFails, PlacesOK, TypeOK
    <2>2. \A q \in Requests \ {r} : scope[q] = "held" => client'[q] = client[q]
      BY <1>4, <2>1, ReleaseType DEF BeginFails, TypeOK
    <2>3. \A q \in Requests \ {r} : aux[q] # NoClient => owner'[aux[q]] = q
      BY <1>4, <2>1, ReleaseType DEF BeginFails, PlacesOK, TypeOK
    <2>4. aux[r] = NoClient /\ aux' = aux
      BY <1>4 DEF BeginFails, PlacesOK
    <2> QED BY <1>4, <2>1, <2>2, <2>3, <2>4 DEF BeginFails, TypeOK, PlacesOK, Goto
  <1>5. CASE Begin(r)
    BY <1>5 DEF Begin, TypeOK, Goto, PlacesOK
  <1>6. CASE SetOrg(r)
    BY <1>6 DEF SetOrg, TypeOK, Goto, PlacesOK
  <1> QED BY <1>1, <1>2, <1>3, <1>4, <1>5, <1>6 DEF Middleware

\* So does the handler itself.
LEMMA HandlerPlaces ==
  ASSUME TypeOK, PlacesOK, NEW r \in Requests, Handler(r)
  PROVE  PlacesOK'
  <1> USE OrgScopeAssumption
  <1>1. CASE Borrow(r) \/ BorrowTimeout(r) \/ Throw(r)
    BY <1>1 DEF Borrow, BorrowTimeout, Throw, TypeOK, Goto, PlacesOK
  <1>2. ASSUME NEW c \in Clients, Lend(r, c) PROVE PlacesOK'
    BY <1>2 DEF Lend, TypeOK, Goto, PlacesOK
  <1>3. CASE Return(r)
    <2>1. aux[r] \in Clients /\ owner[aux[r]] = r /\ Sound(conn[aux[r]])
      BY <1>3, LinesSound DEF Return, PlacesOK, TypeOK
    <2>2. \A q \in Requests : scope[q] = "held" => client'[q] = client[q]
      BY <1>3, <2>1, ReleaseType DEF Return, PlacesOK, TypeOK
    <2>3. \A q \in Requests \ {r} : aux[q] # NoClient => owner'[aux[q]] = q
      BY <1>3, <2>1, ReleaseType DEF Return, PlacesOK, TypeOK
    <2> QED BY <1>3, <2>1, <2>2, <2>3 DEF Return, TypeOK, PlacesOK, Goto
  <1>4. CASE Write(r)
    BY <1>4 DEF Write, TypeOK, Goto, PlacesOK
  <1> QED BY <1>1, <1>2, <1>3, <1>4 DEF Handler

\* So do the end of a response, a disconnect and a break.
LEMMA EndingPlaces ==
  ASSUME TypeOK, PlacesOK, NEW r \in Requests, Ending(r) \/ Disconnect(r) \/ Break(r)
  PROVE  PlacesOK'
  <1> USE OrgScopeAssumption
  <1>a. ASSUME scope[r] = "held", NEW cn, Sound(cn), Release(client[r], cn), UNCHANGED aux
        PROVE  /\ \A q \in Requests \ {r} : scope[q] = "held" => client'[q] = client[q]
               /\ \A q \in Requests : aux[q] # NoClient => owner'[aux[q]] = q
    <2>1. client[r] \in Clients /\ owner[client[r]] = r
      BY <1>a DEF TypeOK
    <2> QED BY <1>a, <2>1, ReleaseType DEF PlacesOK, TypeOK
  <1>1. CASE Finish(r)
    BY <1>1 DEF Finish, EndLabel, TypeOK, Goto, PlacesOK
  <1>2. CASE Flush(r)
    <2>1. scope[r] = "held" /\ Sound(Line(r)) /\ aux[r] = NoClient
      BY <1>2, LinesSound DEF Flush, PlacesOK
    <2> QED BY <1>2, <1>a, <2>1 DEF Flush, TypeOK, Goto, PlacesOK
  <1>3. CASE FinishStray(r)
    BY <1>3 DEF FinishStray, Stray, TypeOK, Goto, PlacesOK
  <1>4. CASE Disconnect(r)
    <2>1. Sound(Ended(Line(r)))
      BY LinesSound DEF Ended, Sound, Connection, Clean
    <2> QED BY <1>4, <1>a, <2>1 DEF Disconnect, Open, TypeOK, PlacesOK
  <1>5. CASE Break(r)
    BY <1>5 DEF Break, PlacesOK
  <1> QED BY <1>1, <1>2, <1>3, <1>4, <1>5 DEF Ending

\* A connection keeps its holder's promise when the holder does not move and the connection
\* is as before, or a statement of a request it counts as struck went to it.
LEMMA HeldKept ==
  ASSUME NEW q \in Requests, NEW cn, Sound(cn), HeldOK(q, cn), NEW x, NEW dn,
         pc'[q] = pc[q], struck \subseteq struck',
         dn = cn \/ (dn \in {Written(cn, x), Failed(cn)} /\ q \in struck')
  PROVE  HeldOK(q, dn)'
  <1>1. CASE dn = cn
    BY <1>1 DEF HeldOK
  <1>2. CASE cn.tx # "open"
    BY <1>2, Statements, <1>1
  <1>3. CASE cn.tx = "open" /\ dn \in {Written(cn, x), Failed(cn)} /\ q \in struck'
    <2>1. dn.org = cn.org /\ dn.tx \in {"open", "aborted"}
      BY <1>3, Statements
    <2>2. pc[q] \notin {"ended", "failed"}
      BY <1>3 DEF HeldOK, Clean
    <2> QED BY <1>3, <2>1, <2>2 DEF HeldOK
  <1> QED BY <1>1, <1>2, <1>3

\* A statement changes one connection at most, and only inside an open transaction.
LEMMA StatementEffect ==
  ASSUME TypeOK, NEW r \in Requests, NEW x,
         Accepted(r, x) \/ Rejected(r) \/ UNCHANGED conn
  PROVE  \A c \in Clients :
           \/ conn'[c] = conn[c]
           \/ /\ c = client[r] /\ conn[c].tx = "open" /\ Line(r) = conn[c]
              /\ conn'[c] \in {Written(conn[c], x), Failed(conn[c])}
  <1> SUFFICES ASSUME NEW c \in Clients, conn'[c] # conn[c]
               PROVE  /\ c = client[r] /\ conn[c].tx = "open" /\ Line(r) = conn[c]
                      /\ conn'[c] \in {Written(conn[c], x), Failed(conn[c])}
    OBVIOUS
  <1>1. c = client[r] /\ conn'[c] \in {Written(conn[c], x), Failed(conn[c])}
    BY DEF Accepted, Rejected, TypeOK
  <1>2. conn[c].tx = "open"
    BY <1>1, LinesSound, Statements
  <1>3. Line(r) = conn[c]
    BY <1>1, OrgScopeAssumption DEF Line
  <1> QED BY <1>1, <1>2, <1>3

\* Statements leave idle and lent connections alone, and the promises of the other requests:
\* the one whose open transaction a stray hits is struck.
LEMMA StatementKeeps ==
  ASSUME TypeOK, PlacesOK, ConnectionsOK, NEW r \in Requests, NEW x,
         Accepted(r, x) \/ Rejected(r) \/ UNCHANGED conn,
         scope[r] # "none", struck' = struck \cup Victims(r),
         \A q \in Requests \ {r} : pc'[q] = pc[q],
         UNCHANGED <<owner, client, aux, scope>>
  PROVE  /\ \A c \in Clients : owner'[c] = Nobody => Quiet(conn[c])' /\ conn'[c] = conn[c]
         /\ \A q \in Requests : aux'[q] # NoClient => Quiet(conn[aux[q]])'
         /\ \A q \in Requests \ {r} : scope'[q] = "held" => HeldOK(q, conn[client[q]])'
  <1>a. \A c \in Clients :
          \/ conn'[c] = conn[c]
          \/ /\ c = client[r] /\ conn[c].tx = "open" /\ Line(r) = conn[c]
             /\ conn'[c] \in {Written(conn[c], x), Failed(conn[c])}
    BY StatementEffect
  <1>b. ASSUME NEW c \in Clients, Quiet(conn[c]) PROVE Quiet(conn[c])' /\ conn'[c] = conn[c]
    <2>1. conn[c].tx # "open"
      BY <1>b DEF Quiet, Clean
    <2>2. conn'[c] = conn[c]
      BY <2>1, <1>a
    <2> QED BY <1>b, <2>2 DEF Quiet
  <1>1. ASSUME NEW c \in Clients, owner'[c] = Nobody
        PROVE  Quiet(conn[c])' /\ conn'[c] = conn[c]
    BY <1>1, <1>b DEF ConnectionsOK
  <1>2. ASSUME NEW q \in Requests, aux'[q] # NoClient PROVE Quiet(conn[aux[q]])'
    <2>1. aux'[q] = aux[q] /\ aux[q] \in Clients /\ Quiet(conn[aux[q]])
      BY <1>2 DEF ConnectionsOK, TypeOK
    <2>2. PICK c \in Clients : c = aux[q]
      BY <2>1
    <2> QED BY <2>1, <2>2, <1>b DEF Quiet
  <1>3. ASSUME NEW q \in Requests \ {r}, scope'[q] = "held" PROVE HeldOK(q, conn[client[q]])'
    <2>1. /\ scope[q] = "held" /\ client[q] \in Clients /\ owner[client[q]] = q
          /\ client'[q] = client[q] /\ Sound(conn[client[q]]) /\ HeldOK(q, conn[client[q]])
      BY <1>3, LinesSound DEF TypeOK, ConnectionsOK
    <2>2. conn'[client[q]] # conn[client[q]] => q \in Victims(r)
      <3>1. SUFFICES ASSUME client[q] = client[r], Line(r).tx = "open" PROVE q \in Victims(r)
        BY <2>1, <1>a
      <3>2. scope[r] # "held"
        BY <2>1, <3>1 DEF TypeOK
      <3>3. scope[r] = "released"
        BY <3>2 DEF TypeOK, Scopes
      <3> QED BY <2>1, <3>1, <3>3 DEF Victims, Stray
    <2>3. \/ conn'[client[q]] = conn[client[q]]
          \/ /\ conn'[client[q]] \in {Written(conn[client[q]], x), Failed(conn[client[q]])}
             /\ q \in struck'
      BY <1>a, <2>1, <2>2
    <2> QED BY <2>1, <2>3, HeldKept DEF HeldOK
  <1> QED BY <1>1, <1>2, <1>3

\* Releasing a quiet connection leaves the other connections alone.
LEMMA ReleaseKeeps ==
  ASSUME TypeOK, ConnectionsOK, NEW r \in Requests, NEW c \in Clients, NEW cn, Sound(cn),
         Release(c, cn), Quiet(Released(cn)), UNCHANGED struck,
         \A q \in Requests \ {r} : pc'[q] = pc[q]
  PROVE  /\ \A d \in Clients : owner'[d] = Nobody => Quiet(conn[d])'
         /\ \A q \in Requests :
              aux'[q] # NoClient /\ aux'[q] = aux[q] /\ aux[q] # c => Quiet(conn[aux[q]])'
         /\ \A q \in Requests \ {r} :
              scope[q] = "held" /\ client[q] # c => HeldOK(q, conn[client[q]])'
  <1>a. /\ conn'[c] = Released(cn)
        /\ \A d \in Clients \ {c} : conn'[d] = conn[d] /\ owner'[d] = owner[d]
        /\ \A q \in Requests : scope[q] = "held" /\ client[q] # c => client'[q] = client[q]
    BY ReleaseType
  <1>1. ASSUME NEW d \in Clients, owner'[d] = Nobody PROVE Quiet(conn[d])'
    <2>1. CASE d = c
      BY <1>a, <2>1 DEF Quiet
    <2>2. CASE d # c
      BY <1>a, <1>1, <2>2 DEF Quiet, ConnectionsOK
    <2> QED BY <2>1, <2>2
  <1>2. ASSUME NEW q \in Requests, aux'[q] # NoClient, aux'[q] = aux[q], aux[q] # c
        PROVE  Quiet(conn[aux[q]])'
    <2>1. aux[q] \in Clients \ {c} /\ Quiet(conn[aux[q]])
      BY <1>2 DEF ConnectionsOK, TypeOK
    <2>2. conn'[aux'[q]] = conn[aux[q]]
      BY <1>a, <1>2, <2>1
    <2> QED BY <2>1, <2>2 DEF Quiet
  <1>3. ASSUME NEW q \in Requests \ {r}, scope[q] = "held", client[q] # c
        PROVE  HeldOK(q, conn[client[q]])'
    BY <1>a, <1>3 DEF HeldOK, ConnectionsOK, TypeOK
  <1> QED BY <1>1, <1>2, <1>3

\* The middleware's steps: a connection is taken as the pool has it, and a scope begins.
LEMMA MiddlewareConnections ==
  ASSUME TypeOK, PlacesOK, ConnectionsOK, NEW r \in Requests, Middleware(r)
  PROVE  ConnectionsOK'
  <1> USE OrgScopeAssumption
  <1>1. ASSUME NEW c \in Clients, Connect(r, c) PROVE ConnectionsOK'
    <2>1. Quiet(conn[c])
      BY <1>1 DEF Connect, ConnectionsOK
    <2>2. HeldOK(r, conn[client[r]])'
      BY <1>1, <2>1 DEF Connect, Goto, TypeOK, HeldOK, Quiet, Clean, Inside
    <2>3. \A q \in Requests \ {r} : scope'[q] = "held" => HeldOK(q, conn[client[q]])'
      BY <1>1 DEF Connect, Goto, TypeOK, HeldOK, ConnectionsOK
    <2>4. \A d \in Clients : owner'[d] = Nobody => Quiet(conn[d])'
      BY <1>1 DEF Connect, TypeOK, Quiet, ConnectionsOK
    <2>5. \A q \in Requests : aux'[q] # NoClient => Quiet(conn[aux[q]])'
      BY <1>1 DEF Connect, Quiet, ConnectionsOK
    <2> QED BY <2>2, <2>3, <2>4, <2>5 DEF ConnectionsOK
  <1>2. CASE ConnectTimeout(r)
    <2>1. scope[r] # "held"
      BY <1>2 DEF ConnectTimeout, PlacesOK
    <2> QED BY <1>2, <2>1 DEF ConnectTimeout, Goto, TypeOK, HeldOK, Quiet, ConnectionsOK
  <1>3. CASE TimeoutCrash(r)
    BY <1>3 DEF TimeoutCrash, ConnectionsOK, Quiet
  <1>4. CASE BeginFails(r)
    <2>1. /\ scope[r] = "held" /\ client[r] \in Clients /\ owner[client[r]] = r
          /\ Line(r) = conn[client[r]] /\ Sound(Line(r)) /\ aux[r] = NoClient
      BY <1>4, LinesSound DEF BeginFails, PlacesOK, TypeOK
    <2>2. Quiet(Released(Line(r)))
      <3>1. HeldOK(r, conn[client[r]])
        BY <2>1 DEF ConnectionsOK
      <3>2. Line(r).tx \in {"aborted", "broken"}
        BY <1>4, <2>1 DEF BeginFails, Works, Sound, Connection
      <3>3. Line(r).tx = "aborted" => Line(r).org = NoOrg /\ struck # {}
        BY <1>4, <2>1, <3>1 DEF BeginFails, HeldOK
      <3> QED BY <2>1, <3>2, <3>3, Endings DEF Quiet
    <2>3. /\ \A d \in Clients : owner'[d] = Nobody => Quiet(conn[d])'
          /\ \A q \in Requests : aux'[q] # NoClient /\ aux'[q] = aux[q] /\ aux[q] # client[r]
                                  => Quiet(conn[aux[q]])'
          /\ \A q \in Requests \ {r} :
               scope[q] = "held" /\ client[q] # client[r] => HeldOK(q, conn[client[q]])'
      BY <1>4, <2>1, <2>2, ReleaseKeeps DEF BeginFails, Goto, TypeOK
    <2>4. ASSUME NEW q \in Requests, aux'[q] # NoClient PROVE Quiet(conn[aux[q]])'
      BY <1>4, <2>1, <2>3, <2>4 DEF BeginFails, PlacesOK
    <2>5. ASSUME NEW q \in Requests, scope'[q] = "held" PROVE HeldOK(q, conn[client[q]])'
      BY <1>4, <2>1, <2>3, <2>5 DEF BeginFails, TypeOK
    <2> QED BY <2>3, <2>4, <2>5 DEF ConnectionsOK
  <1>5. CASE Begin(r)
    <2>1. /\ scope[r] = "held" /\ client[r] \in Clients /\ owner[client[r]] = r
          /\ conn' = [conn EXCEPT ![client[r]] = Begun(conn[client[r]])]
          /\ UNCHANGED <<client, owner, aux, scope, struck>>
      BY <1>5 DEF Begin, PlacesOK, TypeOK
    <2>2. HeldOK(r, conn[client[r]])'
      <3>1. HeldOK(r, conn[client[r]]) /\ Sound(conn[client[r]]) /\ pc[r] = "begin"
        BY <1>5, <2>1, LinesSound DEF Begin, ConnectionsOK
      <3>2. conn'[client'[r]] = Begun(conn[client[r]]) /\ pc'[r] = "scope"
        BY <1>5, <2>1 DEF Begin, Goto, TypeOK
      <3>3. Begun(conn[client[r]]).tx \in {"open", "broken", "aborted"}
        BY <1>5, <2>1, <3>1 DEF Begin, Works, Begun, Sound, Connection, HeldOK, Inside
      <3> QED BY <1>5, <2>1, <3>1, <3>2, <3>3
              DEF Begin, Works, Begun, Sound, Connection, HeldOK, Inside
    <2>3. \A q \in Requests \ {r} : scope'[q] = "held" => HeldOK(q, conn[client[q]])'
      BY <1>5, <2>1 DEF Begin, Goto, TypeOK, HeldOK, ConnectionsOK
    <2>4. \A d \in Clients : owner'[d] = Nobody => Quiet(conn[d])'
      BY <2>1 DEF TypeOK, Quiet, ConnectionsOK
    <2>5. \A q \in Requests : aux'[q] # NoClient => Quiet(conn[aux[q]])'
      BY <1>5, <2>1 DEF Begin, TypeOK, Quiet, ConnectionsOK, PlacesOK
    <2> QED BY <2>2, <2>3, <2>4, <2>5 DEF ConnectionsOK
  <1>6. CASE SetOrg(r)
    <2>1. /\ scope[r] = "held" /\ client[r] \in Clients /\ owner[client[r]] = r
          /\ conn' = [conn EXCEPT ![client[r]] = Scoped(conn[client[r]], OrgOf[r])]
          /\ UNCHANGED <<client, owner, aux, scope, struck>>
      BY <1>6 DEF SetOrg, PlacesOK, TypeOK
    <2>2. HeldOK(r, conn[client[r]])'
      <3>1. HeldOK(r, conn[client[r]]) /\ Sound(conn[client[r]]) /\ pc[r] = "scope"
        BY <1>6, <2>1, LinesSound DEF SetOrg, ConnectionsOK
      <3>2. conn'[client'[r]] = Scoped(conn[client[r]], OrgOf[r]) /\ pc'[r] = "handle"
        BY <1>6, <2>1 DEF SetOrg, Goto, TypeOK
      <3>3. Scoped(conn[client[r]], OrgOf[r]).tx \in {"open", "broken", "aborted"}
        BY <1>6, <2>1, <3>1 DEF SetOrg, Works, Scoped, Sound, Connection, HeldOK, Inside
      <3> QED BY <1>6, <2>1, <3>1, <3>2, <3>3
              DEF SetOrg, Works, Scoped, Sound, Connection, HeldOK, Inside
    <2>3. \A q \in Requests \ {r} : scope'[q] = "held" => HeldOK(q, conn[client[q]])'
      BY <1>6, <2>1 DEF SetOrg, Goto, TypeOK, HeldOK, ConnectionsOK
    <2>4. \A d \in Clients : owner'[d] = Nobody => Quiet(conn[d])'
      BY <2>1 DEF TypeOK, Quiet, ConnectionsOK
    <2>5. \A q \in Requests : aux'[q] # NoClient => Quiet(conn[aux[q]])'
      BY <1>6, <2>1 DEF SetOrg, TypeOK, Quiet, ConnectionsOK, PlacesOK
    <2> QED BY <2>2, <2>3, <2>4, <2>5 DEF ConnectionsOK
  <1> QED BY <1>1, <1>2, <1>3, <1>4, <1>5, <1>6 DEF Middleware

\* The handler's steps.
LEMMA HandlerConnections ==
  ASSUME TypeOK, PlacesOK, ConnectionsOK, NEW r \in Requests, Handler(r)
  PROVE  ConnectionsOK'
  <1> USE OrgScopeAssumption
  <1>1. CASE Borrow(r) \/ BorrowTimeout(r) \/ Throw(r)
    <2>1. /\ UNCHANGED <<conn, owner, client, aux, scope, struck>>
          /\ pc[r] \in Inside /\ pc'[r] \in Inside \ {"wrote"}
          /\ \A q \in Requests \ {r} : pc'[q] = pc[q]
      BY <1>1 DEF Borrow, BorrowTimeout, Throw, Goto, TypeOK, Inside
    <2>2. ASSUME NEW q \in Requests, scope'[q] = "held" PROVE HeldOK(q, conn[client[q]])'
      <3>1. HeldOK(q, conn[client[q]])
        BY <2>1, <2>2 DEF ConnectionsOK
      <3> QED BY <2>1, <3>1 DEF HeldOK, Inside
    <2> QED BY <2>1, <2>2 DEF ConnectionsOK, Quiet
  <1>2. ASSUME NEW c \in Clients, Lend(r, c) PROVE ConnectionsOK'
    <2>1. Quiet(conn[c])
      BY <1>2 DEF Lend, ConnectionsOK
    <2>2. ASSUME NEW q \in Requests, scope'[q] = "held" PROVE HeldOK(q, conn[client[q]])'
      <3>1. HeldOK(q, conn[client[q]])
        BY <1>2, <2>2 DEF Lend, ConnectionsOK
      <3> QED BY <1>2, <3>1 DEF Lend, Goto, TypeOK, HeldOK, Inside
    <2>3. ASSUME NEW d \in Clients, owner'[d] = Nobody PROVE Quiet(conn[d])'
      BY <1>2, <2>3 DEF Lend, TypeOK, ConnectionsOK, Quiet
    <2>4. ASSUME NEW q \in Requests, aux'[q] # NoClient PROVE Quiet(conn[aux[q]])'
      BY <1>2, <2>1, <2>4 DEF Lend, TypeOK, ConnectionsOK, Quiet
    <2> QED BY <2>2, <2>3, <2>4 DEF ConnectionsOK
  <1>3. CASE Return(r)
    <2>1. /\ aux[r] \in Clients /\ owner[aux[r]] = r /\ Sound(conn[aux[r]])
          /\ Quiet(conn[aux[r]])
      BY <1>3, LinesSound DEF Return, PlacesOK, TypeOK, ConnectionsOK
    <2>2. Quiet(Released(conn[aux[r]]))
      BY <2>1, Endings DEF Quiet, Clean
    <2>3. \A q \in Requests : scope[q] = "held" => client[q] # aux[r]
      BY <2>1 DEF PlacesOK, TypeOK
    <2>4. \A q \in Requests \ {r} : aux[q] # NoClient => aux[q] # aux[r] /\ aux'[q] = aux[q]
      BY <1>3, <2>1 DEF Return, PlacesOK, TypeOK
    <2>5. /\ \A d \in Clients : owner'[d] = Nobody => Quiet(conn[d])'
          /\ \A q \in Requests : aux'[q] # NoClient /\ aux'[q] = aux[q] /\ aux[q] # aux[r]
                                  => Quiet(conn[aux[q]])'
          /\ \A q \in Requests \ {r} : scope[q] = "held" => HeldOK(q, conn[client[q]])'
      BY <1>3, <2>1, <2>2, <2>3, ReleaseKeeps DEF Return, Goto, TypeOK
    <2>6. ASSUME scope[r] = "held" PROVE HeldOK(r, conn[client[r]])'
      <3>1. HeldOK(r, conn[client[r]]) /\ client[r] \in Clients \ {aux[r]}
        BY <2>6, <2>3 DEF ConnectionsOK, TypeOK
      <3>2. conn'[client'[r]] = conn[client[r]]
        BY <1>3, <2>1, <2>6, <3>1, ReleaseType DEF Return
      <3> QED BY <1>3, <3>1, <3>2 DEF Return, Goto, TypeOK, HeldOK, Inside
    <2>7. ASSUME NEW q \in Requests, aux'[q] # NoClient PROVE Quiet(conn[aux[q]])'
      <3>1. q # r
        BY <1>3, <2>7 DEF Return, TypeOK
      <3>2. aux'[q] = aux[q]
        BY <1>3, <3>1 DEF Return, TypeOK
      <3> QED BY <2>4, <2>5, <2>7, <3>1, <3>2
    <2> QED BY <1>3, <2>5, <2>6, <2>7 DEF Return, ConnectionsOK
  <1>4. CASE Write(r)
    <2>1. /\ Accepted(r, <<"data", r>>) \/ Rejected(r) \/ UNCHANGED conn
          /\ pc[r] \in {"handle", "searched"} /\ scope[r] # "none"
          /\ \A q \in Requests \ {r} : pc'[q] = pc[q]
          /\ UNCHANGED <<owner, client, aux, scope>> /\ struck' = struck \cup Victims(r)
      BY <1>4 DEF Write, Goto, TypeOK, PlacesOK
    <2>2. /\ \A c \in Clients : owner'[c] = Nobody => Quiet(conn[c])'
          /\ \A q \in Requests : aux'[q] # NoClient => Quiet(conn[aux[q]])'
          /\ \A q \in Requests \ {r} : scope'[q] = "held" => HeldOK(q, conn[client[q]])'
      BY <2>1, StatementKeeps
    <2>3. ASSUME scope[r] = "held" PROVE HeldOK(r, conn[client[r]])'
      <3> DEFINE cn == conn[client[r]]
                 dn == conn'[client[r]]
      <3>1. /\ client[r] \in Clients /\ Line(r) = cn /\ Sound(cn) /\ HeldOK(r, cn)
            /\ pc[r] \in Inside
        BY <2>1, <2>3, LinesSound DEF ConnectionsOK, Inside
      <3>2. Victims(r) = {}
        BY <2>3 DEF Victims, Stray
      <3>3. /\ dn = cn \/ dn \in {Written(cn, <<"data", r>>), Failed(cn)}
            /\ cn.tx # "open" => dn = cn
        BY <2>1, <3>1, StatementEffect
      <3>4. dn.org = cn.org /\ dn.tx # "none" /\ (dn.tx = "open" => cn.tx = "open")
        BY <3>1, <3>3, Statements DEF HeldOK
      <3>5. ASSUME r \notin struck
            PROVE  dn = Written(cn, <<"data", r>>) /\ pc'[r] = "wrote" /\ cn.tx = "open"
        <4>1. cn.tx = "open" /\ cn.org = OrgOf[r]
          BY <3>1, <3>5 DEF HeldOK
        <4>2. Works(Line(r)) /\ Sees(Line(r), OrgOf[r])
          BY <3>1, <4>1 DEF Works, Sees
        <4>3. Accepted(r, <<"data", r>>) /\ Goto(r, "wrote")
          BY <1>4, <4>2 DEF Write, Rejected
        <4> QED BY <3>1, <4>1, <4>3 DEF Accepted, Goto, TypeOK
      <3>6. pc'[r] \in {"wrote", "threw"} /\ struck' = struck
        BY <1>4, <2>1, <3>2 DEF Write, Goto, TypeOK
      <3>7. r \notin struck => dn.tx = "open" /\ <<"data", r>> \in dn.pending
        BY <3>1, <3>5, Statements
      <3>8. dn.tx = "open" => dn.org = OrgOf[r]
        BY <3>1, <3>4 DEF HeldOK
      <3>9. client'[r] = client[r]
        BY <2>1
      <3> QED BY <3>4, <3>6, <3>7, <3>8, <3>9 DEF HeldOK, Inside
    <2> QED BY <2>1, <2>2, <2>3 DEF ConnectionsOK
  <1> QED BY <1>1, <1>2, <1>3, <1>4 DEF Handler

\* The end of a response, a disconnect and a break.
LEMMA EndingConnections ==
  ASSUME TypeOK, PlacesOK, ConnectionsOK, NEW r \in Requests,
         Ending(r) \/ Disconnect(r) \/ Break(r)
  PROVE  ConnectionsOK'
  <1> USE OrgScopeAssumption
  <1>a. scope[r] = "held" => /\ client[r] \in Clients /\ owner[client[r]] = r
                             /\ Line(r) = conn[client[r]] /\ Sound(Line(r))
                             /\ HeldOK(r, Line(r))
    BY LinesSound DEF ConnectionsOK, TypeOK
  <1>b. ASSUME scope[r] = "held", NEW cn, Sound(cn), Release(client[r], cn),
               Released(cn) = Clean, UNCHANGED <<struck, aux>>, scope'[r] # "held",
               \A q \in Requests \ {r} : pc'[q] = pc[q] /\ scope'[q] = scope[q]
        PROVE  ConnectionsOK'
    <2>1. Quiet(Released(cn))
      BY <1>b DEF Quiet
    <2>2. /\ \A d \in Clients : owner'[d] = Nobody => Quiet(conn[d])'
          /\ \A q \in Requests : aux'[q] # NoClient /\ aux'[q] = aux[q] /\ aux[q] # client[r]
                                  => Quiet(conn[aux[q]])'
          /\ \A q \in Requests \ {r} :
               scope[q] = "held" /\ client[q] # client[r] => HeldOK(q, conn[client[q]])'
      BY <1>a, <1>b, <2>1, ReleaseKeeps
    <2>3. ASSUME NEW q \in Requests, aux'[q] # NoClient PROVE Quiet(conn[aux[q]])'
      BY <1>a, <1>b, <2>2, <2>3 DEF PlacesOK
    <2>4. ASSUME NEW q \in Requests, scope'[q] = "held" PROVE HeldOK(q, conn[client[q]])'
      BY <1>a, <1>b, <2>2, <2>4 DEF TypeOK
    <2> QED BY <2>2, <2>3, <2>4 DEF ConnectionsOK
  <1>c. ASSUME scope[r] = "held", NEW x, conn' = [conn EXCEPT ![client[r]] = x],
               UNCHANGED <<owner, client, aux, scope>>, struck \subseteq struck',
               \A q \in Requests \ {r} : pc'[q] = pc[q] /\ (q \in struck' <=> q \in struck),
               HeldOK(r, conn[client[r]])'
        PROVE  ConnectionsOK'
    <2>1. \A d \in Clients \ {client[r]} : conn'[d] = conn[d]
      BY <1>c DEF TypeOK
    <2>2. ASSUME NEW d \in Clients, owner'[d] = Nobody PROVE Quiet(conn[d])'
      BY <1>a, <1>c, <2>1, <2>2 DEF Quiet, ConnectionsOK
    <2>3. ASSUME NEW q \in Requests, aux'[q] # NoClient PROVE Quiet(conn[aux[q]])'
      <3>1. aux[q] \in Clients \ {client[r]} /\ Quiet(conn[aux[q]])
        BY <1>a, <1>c, <2>3 DEF PlacesOK, TypeOK, ConnectionsOK
      <3> QED BY <1>c, <2>1, <3>1 DEF Quiet
    <2>4. ASSUME NEW q \in Requests \ {r}, scope'[q] = "held" PROVE HeldOK(q, conn[client[q]])'
      <3>1. client[q] \in Clients \ {client[r]} /\ HeldOK(q, conn[client[q]])
        BY <1>a, <1>c, <2>4 DEF TypeOK, ConnectionsOK
      <3> QED BY <1>c, <2>1, <3>1 DEF HeldOK
    <2> QED BY <1>c, <2>2, <2>3, <2>4 DEF ConnectionsOK
  <1>1. CASE Finish(r)
    <2>1. /\ scope[r] = "held" /\ conn' = [conn EXCEPT ![client[r]] = Ended(Line(r))]
          /\ pc'[r] \in {"ended", "failed"} /\ UNCHANGED <<owner, client, aux, scope, struck>>
          /\ \A q \in Requests \ {r} : pc'[q] = pc[q]
      BY <1>1, <1>a DEF Finish, EndLabel, Goto, TypeOK
    <2>2. Ended(Line(r)) = Clean \/ Ended(Line(r)).tx = "broken"
      BY <1>a, <2>1, Endings
    <2>3. conn'[client'[r]] = Ended(Line(r))
      BY <1>a, <2>1 DEF TypeOK
    <2>4. HeldOK(r, conn[client[r]])'
      BY <2>1, <2>2, <2>3 DEF HeldOK, Inside
    <2> QED BY <1>c, <2>1, <2>4
  <1>2. CASE Flush(r)
    <2>1. scope[r] = "held" /\ (Line(r) = Clean \/ Line(r).tx = "broken")
      BY <1>2, <1>a DEF Flush, PlacesOK, HeldOK
    <2>2. Released(Line(r)) = Clean
      BY <1>a, <2>1, Endings
    <2> QED BY <1>2, <1>a, <1>b, <2>1, <2>2 DEF Flush, Goto, TypeOK
  <1>3. CASE FinishStray(r)
    <2>1. /\ Accepted(r, <<"audit", r>>) \/ Rejected(r) \/ UNCHANGED conn
          /\ struck' = struck \cup Victims(r) \/ UNCHANGED <<conn, struck>>
          /\ \A q \in Requests \ {r} : pc'[q] = pc[q]
          /\ UNCHANGED <<owner, client, aux, scope>>
      BY <1>3 DEF FinishStray, Goto, TypeOK, Stray
    <2>2. CASE UNCHANGED <<conn, struck>>
      <3>1. scope[r] # "held"
        BY <1>3 DEF FinishStray, Stray
      <3> QED BY <2>1, <2>2, <3>1 DEF ConnectionsOK, Quiet, HeldOK
    <2>3. CASE struck' = struck \cup Victims(r)
      <3>1. scope[r] = "released"
        BY <1>3 DEF FinishStray, Stray
      <3>2. /\ \A c \in Clients : owner'[c] = Nobody => Quiet(conn[c])'
            /\ \A q \in Requests : aux'[q] # NoClient => Quiet(conn[aux[q]])'
            /\ \A q \in Requests \ {r} : scope'[q] = "held" => HeldOK(q, conn[client[q]])'
        BY <2>1, <2>3, <3>1, StatementKeeps
      <3> QED BY <2>1, <3>1, <3>2 DEF ConnectionsOK
    <2> QED BY <2>1, <2>2, <2>3
  <1>4. CASE Disconnect(r)
    <2>1. scope[r] = "held"
      BY <1>4 DEF Disconnect, Open
    <2>2. Sound(Ended(Line(r))) /\ Released(Ended(Line(r))) = Clean
      BY <1>a, <2>1, Endings DEF Ended, Sound, Connection, Clean
    <2> QED BY <1>4, <1>b, <2>1, <2>2 DEF Disconnect, TypeOK
  <1>5. CASE Break(r)
    <2>1. /\ scope[r] = "held" /\ pc[r] \in {"begin", "wrote"}
          /\ conn' = [conn EXCEPT ![client[r]] = [Clean EXCEPT !.tx = "broken"]]
          /\ struck' = struck \cup {r} /\ UNCHANGED <<owner, client, aux, scope, pc>>
      BY <1>5 DEF Break
    <2>2. conn'[client'[r]] = [Clean EXCEPT !.tx = "broken"]
      BY <1>a, <2>1 DEF TypeOK
    <2>3. HeldOK(r, conn[client[r]])'
      BY <2>1, <2>2 DEF HeldOK, Inside, Clean
    <2> QED BY <1>c, <2>1, <2>3
  <1> QED BY <1>1, <1>2, <1>3, <1>4, <1>5 DEF Ending

\* A step that writes no data row, takes or frees connections only when they hold no write, and
\* ends a transaction only by committing what its request wrote, keeps the writes in order.
LEMMA WritesKept ==
  ASSUME TypeOK, WritesOK,
         \A q \in Requests : scope[q] = "released" => scope'[q] = "released",
         \A c \in Clients :
           \/ conn'[c].pending = {}
           \/ /\ owner'[c] = owner[c]
              /\ \A q \in Requests :
                   <<"data", q>> \in conn'[c].pending => <<"data", q>> \in conn[c].pending,
         saved \subseteq saved', struck \subseteq struck',
         \A q \in Requests :
           /\ pc'[q] = "ended" /\ q \notin struck' => pc[q] = "ended" \/ <<"data", q>> \in saved'
           /\ answer'[q] = "ok" => answer[q] = "ok" \/ pc[q] = "ended"
  PROVE  WritesOK'
  <1>1. ASSUME NEW c \in Clients, NEW q \in Requests, <<"data", q>> \in conn'[c].pending
        PROVE  Stray(q)' \/ owner'[c] = q
    BY <1>1 DEF WritesOK, Stray
  <1>2. ASSUME NEW q \in Requests, pc'[q] = "ended" \/ answer'[q] = "ok", q \notin struck'
        PROVE  <<"data", q>> \in saved'
    BY <1>2 DEF WritesOK
  <1> QED BY <1>1, <1>2 DEF WritesOK

\* Connections outside a transaction hold no write.
LEMMA QuietEmpty ==
  ASSUME NEW cn, Sound(cn), Quiet(cn)
  PROVE  cn.pending = {} /\ Released(cn).pending = {}
  BY DEF Quiet, Sound, Clean, Released

\* The middleware's steps.
LEMMA MiddlewareWrites ==
  ASSUME TypeOK, PlacesOK, ConnectionsOK, WritesOK, NEW r \in Requests, Middleware(r)
  PROVE  WritesOK'
  <1> USE OrgScopeAssumption
  <1>1. ASSUME NEW c \in Clients, Connect(r, c) PROVE WritesOK'
    <2>1. conn[c].pending = {}
      BY <1>1, LinesSound, QuietEmpty DEF Connect, ConnectionsOK
    <2>2. scope[r] = "none"
      BY <1>1 DEF Connect, PlacesOK
    <2> QED BY <1>1, <2>1, <2>2, WritesKept DEF Connect, Goto, TypeOK
  <1>2. CASE ConnectTimeout(r)
    BY <1>2, WritesKept DEF ConnectTimeout, Goto, TypeOK
  <1>3. CASE TimeoutCrash(r)
    <2>1. \A c \in Clients : conn'[c].pending = {}
      BY <1>3 DEF TimeoutCrash, Clean
    <2> QED BY <1>3, <2>1, WritesKept DEF TimeoutCrash, TypeOK
  <1>4. CASE BeginFails(r)
    <2>1. /\ scope[r] = "held" /\ client[r] \in Clients /\ Line(r) = conn[client[r]]
          /\ Sound(Line(r)) /\ Line(r).tx \notin {"none", "open"}
      BY <1>4, LinesSound DEF BeginFails, PlacesOK, TypeOK, Works
    <2>2. Released(Line(r)).pending = {}
      BY <2>1 DEF Released, Sound, Clean
    <2>3. \A c \in Clients : conn'[c].pending = {} \/ (conn'[c] = conn[c] /\ owner'[c] = owner[c])
      BY <1>4, <2>1, <2>2, ReleaseType DEF BeginFails
    <2> QED BY <1>4, <2>1, <2>3, WritesKept DEF BeginFails, Goto, TypeOK
  <1>5. CASE Begin(r)
    <2>1. \A c \in Clients : conn'[c].pending = conn[c].pending
      BY <1>5, LinesSound DEF Begin, Begun, Sound, Connection, TypeOK
    <2> QED BY <1>5, <2>1, WritesKept DEF Begin, Goto, TypeOK
  <1>6. CASE SetOrg(r)
    <2>1. \A c \in Clients : conn'[c].pending = conn[c].pending
      BY <1>6, LinesSound DEF SetOrg, Scoped, Sound, Connection, TypeOK
    <2> QED BY <1>6, <2>1, WritesKept DEF SetOrg, Goto, TypeOK
  <1> QED BY <1>1, <1>2, <1>3, <1>4, <1>5, <1>6 DEF Middleware

\* What a statement may add to a connection, and to the committed rows.
LEMMA StatementWrites ==
  ASSUME TypeOK, NEW r \in Requests, NEW x,
         Accepted(r, x) \/ Rejected(r) \/ UNCHANGED <<conn, saved>>
  PROVE  /\ saved \subseteq saved' /\ saved' \subseteq saved \cup {x}
         /\ \A c \in Clients : \/ conn'[c].pending \subseteq conn[c].pending
                              \/ /\ c = client[r]
                                 /\ conn'[c].pending \subseteq conn[c].pending \cup {x}
  <1>1. saved \subseteq saved' /\ saved' \subseteq saved \cup {x}
    BY DEF Accepted, Rejected, Saved
  <1>2. ASSUME NEW c \in Clients
        PROVE  \/ conn'[c].pending \subseteq conn[c].pending
               \/ c = client[r] /\ conn'[c].pending \subseteq conn[c].pending \cup {x}
    <2>1. \/ conn'[c] = conn[c]
          \/ c = client[r] /\ conn'[c] \in {Written(conn[c], x), Failed(conn[c])}
      BY StatementEffect
    <2>2. Sound(conn[c])
      BY LinesSound
    <2> QED BY <2>1, <2>2, Statements
  <1> QED BY <1>1, <1>2

\* The handler's steps.
LEMMA HandlerWrites ==
  ASSUME TypeOK, PlacesOK, ConnectionsOK, WritesOK, NEW r \in Requests, Handler(r)
  PROVE  WritesOK'
  <1> USE OrgScopeAssumption
  <1>1. CASE Borrow(r) \/ BorrowTimeout(r) \/ Throw(r)
    BY <1>1, WritesKept DEF Borrow, BorrowTimeout, Throw, Goto, TypeOK
  <1>2. ASSUME NEW c \in Clients, Lend(r, c) PROVE WritesOK'
    <2>1. conn[c].pending = {}
      BY <1>2, LinesSound, QuietEmpty DEF Lend, ConnectionsOK
    <2> QED BY <1>2, <2>1, WritesKept DEF Lend, Goto, TypeOK
  <1>3. CASE Return(r)
    <2>1. aux[r] \in Clients /\ Sound(conn[aux[r]]) /\ Quiet(conn[aux[r]])
      BY <1>3, LinesSound DEF Return, PlacesOK, TypeOK, ConnectionsOK
    <2>2. Released(conn[aux[r]]).pending = {}
      BY <2>1, QuietEmpty
    <2>3. \A c \in Clients : conn'[c].pending = {} \/ (conn'[c] = conn[c] /\ owner'[c] = owner[c])
      BY <1>3, <2>1, <2>2, ReleaseType DEF Return
    <2> QED BY <1>3, <2>3, WritesKept DEF Return, Goto, TypeOK
  <1>4. CASE Write(r)
    <2>1. /\ Accepted(r, <<"data", r>>) \/ Rejected(r) \/ UNCHANGED <<conn, saved>>
          /\ scope[r] # "none" /\ pc'[r] \in {"wrote", "threw"}
          /\ \A q \in Requests \ {r} : pc'[q] = pc[q]
          /\ UNCHANGED <<owner, client, scope, answer>> /\ struck \subseteq struck'
      BY <1>4 DEF Write, Goto, TypeOK, PlacesOK
    <2>2. /\ saved \subseteq saved'
          /\ \A c \in Clients : \/ conn'[c].pending \subseteq conn[c].pending
                               \/ /\ c = client[r]
                                  /\ conn'[c].pending
                                       \subseteq conn[c].pending \cup {<<"data", r>>}
      BY <2>1, StatementWrites
    <2>3. ASSUME NEW c \in Clients, NEW q \in Requests, <<"data", q>> \in conn'[c].pending
          PROVE  Stray(q)' \/ owner'[c] = q
      <3>1. CASE <<"data", q>> \in conn[c].pending
        BY <2>1, <3>1 DEF WritesOK, Stray
      <3>2. CASE <<"data", q>> \notin conn[c].pending
        <4>1. q = r /\ c = client[r]
          BY <2>2, <2>3, <3>2
        <4> QED BY <2>1, <4>1 DEF Stray, TypeOK, Scopes
      <3> QED BY <3>1, <3>2
    <2>4. ASSUME NEW q \in Requests, pc'[q] = "ended" \/ answer'[q] = "ok", q \notin struck'
          PROVE  <<"data", q>> \in saved'
      BY <2>1, <2>2, <2>4 DEF WritesOK
    <2> QED BY <2>3, <2>4 DEF WritesOK
  <1> QED BY <1>1, <1>2, <1>3, <1>4 DEF Handler

\* The end of a response, a disconnect and a break.
LEMMA EndingWrites ==
  ASSUME TypeOK, PlacesOK, ConnectionsOK, WritesOK, NEW r \in Requests,
         Ending(r) \/ Disconnect(r) \/ Break(r)
  PROVE  WritesOK'
  <1> USE OrgScopeAssumption
  <1>a. scope[r] = "held" => /\ client[r] \in Clients /\ owner[client[r]] = r
                             /\ Line(r) = conn[client[r]] /\ Sound(Line(r))
                             /\ HeldOK(r, Line(r))
    BY LinesSound DEF ConnectionsOK, TypeOK
  <1>b. ASSUME scope[r] = "held", NEW cn, Sound(cn), Release(client[r], cn), Released(cn) = Clean
        PROVE  \A c \in Clients :
                 conn'[c].pending = {} \/ (conn'[c] = conn[c] /\ owner'[c] = owner[c])
    BY <1>a, <1>b, ReleaseType DEF Clean
  <1>1. CASE Finish(r)
    <2>1. /\ scope[r] = "held" /\ pc[r] \in {"wrote", "threw"}
          /\ pc'[r] = "ended" => pc[r] = "wrote"
      BY <1>1 DEF Finish, EndLabel, Goto, TypeOK
    <2>2. \A c \in Clients : conn'[c].pending = {} \/ conn'[c] = conn[c]
      <3>1. Ended(Line(r)).pending = {}
        BY <1>a, <2>1, Endings DEF Sound, Clean
      <3> QED BY <1>1, <1>a, <2>1, <3>1 DEF Finish, TypeOK
    <2>3. pc'[r] = "ended" /\ r \notin struck => <<"data", r>> \in saved'
      BY <1>1, <1>a, <2>1 DEF Finish, HeldOK, Inside
    <2> QED BY <1>1, <2>2, <2>3, WritesKept DEF Finish, Goto, TypeOK
  <1>2. CASE Flush(r)
    <2>1. scope[r] = "held" /\ (Line(r) = Clean \/ Line(r).tx = "broken")
      BY <1>2, <1>a DEF Flush, PlacesOK, HeldOK
    <2>2. Released(Line(r)) = Clean
      BY <1>a, <2>1, Endings
    <2>3. \A c \in Clients : conn'[c].pending = {} \/ (conn'[c] = conn[c] /\ owner'[c] = owner[c])
      BY <1>2, <1>a, <1>b, <2>1, <2>2 DEF Flush
    <2> QED BY <1>2, <2>1, <2>3, WritesKept DEF Flush, Goto, TypeOK
  <1>3. CASE FinishStray(r)
    <2>1. /\ Accepted(r, <<"audit", r>>) \/ Rejected(r) \/ UNCHANGED <<conn, saved>>
          /\ \A q \in Requests : pc'[q] = "ended" => pc[q] = "ended"
          /\ UNCHANGED <<owner, client, scope, answer>> /\ struck \subseteq struck'
      BY <1>3 DEF FinishStray, Goto, TypeOK
    <2>2. /\ saved \subseteq saved'
          /\ \A c \in Clients : conn'[c].pending \subseteq conn[c].pending \cup {<<"audit", r>>}
      BY <2>1, StatementWrites
    <2> QED BY <2>1, <2>2, WritesKept
  <1>4. CASE Disconnect(r)
    <2>1. scope[r] = "held"
      BY <1>4 DEF Disconnect, Open
    <2>2. Sound(Ended(Line(r))) /\ Released(Ended(Line(r))) = Clean
      BY <1>a, <2>1, Endings DEF Ended, Sound, Connection, Clean
    <2>3. \A c \in Clients : conn'[c].pending = {} \/ (conn'[c] = conn[c] /\ owner'[c] = owner[c])
      BY <1>4, <1>b, <2>1, <2>2 DEF Disconnect
    <2> QED BY <1>4, <2>3, WritesKept DEF Disconnect, TypeOK
  <1>5. CASE Break(r)
    <2>1. \A c \in Clients : conn'[c].pending = {} \/ conn'[c] = conn[c]
      BY <1>5, <1>a DEF Break, Clean, TypeOK
    <2> QED BY <1>5, <2>1, WritesKept DEF Break, TypeOK
  <1> QED BY <1>1, <1>2, <1>3, <1>4, <1>5 DEF Ending

\* The inductive invariant.
IInv == TypeOK /\ PlacesOK /\ ConnectionsOK /\ WritesOK

LEMMA InvInit == Init => IInv
  <1> SUFFICES ASSUME Init PROVE IInv
    OBVIOUS
  <1> USE OrgScopeAssumption DEF Init
  <1>1. TypeOK
    BY DEF TypeOK, Connection, Clean, Scopes, PCs, Nobody
  <1>2. PlacesOK /\ ConnectionsOK
    BY DEF PlacesOK, ConnectionsOK, Quiet
  <1>3. WritesOK
    BY DEF WritesOK, Clean
  <1> QED BY <1>1, <1>2, <1>3 DEF IInv

LEMMA InvNext == IInv /\ [Next]_vars => IInv'
  <1> SUFFICES ASSUME IInv, [Next]_vars PROVE IInv'
    OBVIOUS
  <1>1. ASSUME NEW r \in Requests, Middleware(r) PROVE IInv'
    BY <1>1, MiddlewareType, MiddlewarePlaces, MiddlewareConnections, MiddlewareWrites DEF IInv
  <1>2. ASSUME NEW r \in Requests, Handler(r) PROVE IInv'
    BY <1>2, HandlerType, HandlerPlaces, HandlerConnections, HandlerWrites DEF IInv
  <1>3. ASSUME NEW r \in Requests, Ending(r) \/ Disconnect(r) \/ Break(r) PROVE IInv'
    BY <1>3, EndingType, EndingPlaces, EndingConnections, EndingWrites DEF IInv
  <1>4. CASE UNCHANGED vars
    BY <1>4 DEF vars, IInv, TypeOK, PlacesOK, ConnectionsOK, WritesOK, HeldOK, Quiet, Stray
  <1> QED BY <1>1, <1>2, <1>3, <1>4 DEF Next

LEMMA Invariance == Spec => []IInv
  BY InvInit, InvNext, PTL DEF Spec

\* The pool, the requests and the committed rows keep their types, and whoever is inside a
\* transaction owns the connection that its context points at.
THEOREM TypeCorrect == Spec => []TypeOK
  BY Invariance, PTL DEF IInv

\* release() never hands an organization or an uncommitted write to the next request.
THEOREM PoolHoldsNothing == Spec => []IdleHoldsNothing
  <1>1. IInv => IdleHoldsNothing
    BY DEF IInv, ConnectionsOK, Quiet, IdleHoldsNothing
  <1> QED BY <1>1, Invariance, PTL

\* COMMIT before the flush of the response: a 2xx answer is the answer to a committed write,
\* unless a stray statement or a broken connection hit the request.
THEOREM AnswersAreDurable == Spec => []DurableUnlessStruck
  <1>1. IInv => DurableUnlessStruck
    BY DEF IInv, WritesOK, DurableUnlessStruck
  <1> QED BY <1>1, Invariance, PTL

\* A write becomes visible by the end of its own response, or as a stray's.
THEOREM WritesCommitAlone == Spec => OwnCommitOnly
  <1> DEFINE Own(r) == <<"data", r>> \in saved' \ saved =>
                         Stray(r) \/ (pc[r] \in {"wrote", "threw"} /\ pc'[r] # pc[r])
  <1>1. ASSUME IInv, [Next]_vars, NEW r \in Requests PROVE Own(r)
    <2> SUFFICES ASSUME <<"data", r>> \in saved' \ saved, ~Stray(r)
                 PROVE  pc[r] \in {"wrote", "threw"} /\ pc'[r] # pc[r]
      OBVIOUS
    <2> USE <1>1, OrgScopeAssumption
    <2>1. PICK q \in Requests : Write(q) \/ Finish(q) \/ Flush(q) \/ FinishStray(q)
      BY DEF Next, vars, Middleware, Handler, Ending, Connect, ConnectTimeout, TimeoutCrash,
             BeginFails, Begin, SetOrg, Borrow, Lend, BorrowTimeout, Return, Throw, Disconnect,
             Break
    <2>2. CASE Write(q)
      <3>1. /\ Accepted(q, <<"data", q>>) \/ Rejected(q) \/ UNCHANGED <<conn, saved>>
            /\ pc[q] \in Inside /\ scope[q] # "none"
        BY <2>2 DEF Write, Inside, IInv, PlacesOK
      <3>2. q = r
        BY <3>1, StatementWrites DEF IInv
      <3>3. scope[r] = "held"
        BY <3>1, <3>2 DEF Stray, IInv, TypeOK, Scopes
      <3>4. Line(r).tx # "none"
        BY <3>1, <3>2, <3>3, LinesSound DEF IInv, ConnectionsOK, HeldOK
      <3>5. Accepted(r, <<"data", r>>) /\ Line(r).tx = "open"
        BY <3>1, <3>2, <3>4 DEF Accepted, Rejected, Works
      <3> QED BY <3>5 DEF Accepted, Saved
    <2>3. CASE Finish(q)
      <3>1. /\ scope[q] = "held" /\ client[q] \in Clients /\ owner[client[q]] = q
            /\ Line(q) = conn[client[q]] /\ <<"data", r>> \in Line(q).pending
        BY <2>3, LinesSound DEF Finish, IInv, TypeOK
      <3>2. q = r
        BY <3>1 DEF IInv, WritesOK
      <3> QED BY <2>3, <3>2 DEF Finish, EndLabel, Goto, IInv, TypeOK
    <2>4. CASE Flush(q)
      BY <2>4 DEF Flush
    <2>5. CASE FinishStray(q)
      BY <2>5, StatementWrites DEF FinishStray, IInv
    <2> QED BY <2>1, <2>2, <2>3, <2>4, <2>5
  <1>2. IInv /\ [Next]_vars => [\A r \in Requests : Own(r)]_vars
    BY <1>1
  <1> QED BY <1>2, Invariance, PTL DEF Spec, OwnCommitOnly

=============================================================================
