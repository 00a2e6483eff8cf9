---------------------------- MODULE GatewayUsers ----------------------------
(***************************************************************************)
(* What the gateway does for its users, apart from their event servers:    *)
(*   pkg/auth/registerer.go, db/users.go, db/types.go   Register, Login    *)
(*   pkg/auth/jwt.go, http.go                           tokens             *)
(*   gateway/services/active_users.go                   HeartBeat, listing *)
(*   pkg/memstore/redis.go                              their records      *)
(* Each HTTP request has a handler, which runs next to the others and      *)
(* reaches MySQL and Redis one command at a time.                          *)
(***************************************************************************)
EXTENDS FiniteSets

CONSTANTS
  Handler,   \* requests that are handled at the same time
  Name,      \* user names
  Password,
  ID,        \* user IDs (pkg/id)
  NoRow      \* the empty User that Find leaves when no row matches

Row == [id : ID, name : Name, password : Password]
Principal == [id : ID, name : Name]
ASSUME NoRowAssumption == NoRow \notin Row

VARIABLES
  rows,     \* MySQL: the users table
  tokens,   \* the principals that hold a token that has not expired
  active,   \* Redis: the records of the collection active_users
  request,  \* what each handler is doing
  span      \* history: who has been active at some time, and at all times,
            \* since the handler began to list

usersVars == <<rows, tokens, active, request, span>>

Idle == [at |-> "idle"]

Request ==
  {Idle}
  \cup [at : {"create", "find"}, name : Name, password : Password]
  \cup [at : {"found"}, name : Name, password : Password, row : Row \cup {NoRow}]
  \cup [at : {"beat"}, who : Principal]
  \cup [at : {"keys"}]
  \cup [at : {"mget"}, ids : SUBSET ID]
  \cup [at : {"listed"}, users : SUBSET Principal]

UsersTypeOK ==
  /\ rows \in SUBSET Row
  /\ tokens \in SUBSET Principal
  /\ active \in SUBSET Principal
  /\ request \in [Handler -> Request]
  /\ span \in [Handler -> [ever : SUBSET Principal, always : SUBSET Principal]]

NoSpan == [ever |-> {}, always |-> {}]

UsersInit ==
  /\ rows = {}
  /\ tokens = {}
  /\ active = {}
  /\ request = [h \in Handler |-> Idle]
  /\ span = [h \in Handler |-> NoSpan]

IDs(ps) == {p.id : p \in ps}

Listing(h) == request[h].at \in {"keys", "mget", "listed"}

\* Handler h goes on with r.
Goes(h, r) == request' = [request EXCEPT ![h] = r]
-----------------------------------------------------------------------------
(* /register: the password is hashed, then the row is inserted. *)

RegisterBegins(h, n, w) ==
  /\ request[h] = Idle
  /\ Goes(h, [at |-> "create", name |-> n, password |-> w])
  /\ UNCHANGED <<rows, tokens, active, span>>

\* Seeded fault: without the unique index a second row of the name is made.
FaultNotUnique(h) ==
  /\ request[h].at = "create"
  /\ \E i \in ID \ IDs(rows) :
       rows' = rows \cup {[id |-> i, name |-> request[h].name,
                           password |-> request[h].password]}
  /\ Goes(h, Idle)
  /\ UNCHANGED <<tokens, active, span>>

\* Seeded fault: the row is inserted without an ID of its own.
FaultNoID(h) ==
  /\ request[h].at = "create"
  /\ rows' = rows \cup {[id |-> NoRow, name |-> request[h].name,
                         password |-> request[h].password]}
  /\ Goes(h, Idle)
  /\ UNCHANGED <<tokens, active, span>>

\* BeforeCreate draws a new ID; the index on username is unique.
Create(h) ==
  /\ request[h].at = "create"
  /\ request[h].name \notin {r.name : r \in rows}
  /\ \E i \in ID \ IDs(rows) :
       rows' = rows \cup {[id |-> i, name |-> request[h].name,
                           password |-> request[h].password]}
  /\ Goes(h, Idle)
  /\ UNCHANGED <<tokens, active, span>>

\* The name is taken, or the database fails.
CreateFails(h) ==
  /\ request[h].at = "create"
  /\ Goes(h, Idle)
  /\ UNCHANGED <<rows, tokens, active, span>>
-----------------------------------------------------------------------------
(* /login: find the row, compare the hash, issue a token. *)

LoginBegins(h, n, w) ==
  /\ request[h] = Idle
  /\ Goes(h, [at |-> "find", name |-> n, password |-> w])
  /\ UNCHANGED <<rows, tokens, active, span>>

\* Find, unlike First, reports no error when there is no such row. (MySQL is
\* taken to compare names exactly; its default collation ignores their case.)
FindByUsername(h) ==
  /\ request[h].at = "find"
  /\ \E row \in rows \cup {NoRow} :
       /\ IF row = NoRow THEN \A r \in rows : r.name # request[h].name
                         ELSE row.name = request[h].name
       /\ Goes(h, [at |-> "found", name |-> request[h].name,
                   password |-> request[h].password, row |-> row])
  /\ UNCHANGED <<rows, tokens, active, span>>

\* No hash matches the empty password of NoRow.
PasswordMatches(row, w) == row # NoRow /\ row.password = w

\* The token has the name as it was typed.
Issue(h) ==
  /\ request[h].at = "found"
  /\ PasswordMatches(request[h].row, request[h].password)
  /\ tokens' = tokens \cup {[id |-> request[h].row.id, name |-> request[h].name]}
  /\ Goes(h, Idle)
  /\ UNCHANGED <<rows, active, span>>

\* Find fails, the passwords do not match, or no token can be signed.
LoginFails(h) ==
  /\ request[h].at \in {"find", "found"}
  /\ Goes(h, Idle)
  /\ UNCHANGED <<rows, tokens, active, span>>

\* 24 hours after it was issued.
TokenExpires(p) ==
  /\ p \in tokens
  /\ tokens' = tokens \ {p}
  /\ UNCHANGED <<rows, active, request, span>>
-----------------------------------------------------------------------------
(* /heartbeat. A request without a valid token is refused before anything  *)
(* changes; a token is looked at only once, when the request arrives.      *)

HeartBeat(h, p) ==
  /\ request[h] = Idle
  /\ p \in tokens
  /\ Goes(h, [at |-> "beat", who |-> p])
  /\ UNCHANGED <<rows, tokens, active, span>>

\* SetCollectionItemWithTTL under the principal's ID
StoreActive(h) ==
  /\ request[h].at = "beat"
  /\ LET p == request[h].who
     IN  /\ active' = {a \in active : a.id # p.id} \cup {p}
         /\ span' = [l \in Handler |-> IF Listing(l)
                        THEN [span[l] EXCEPT !.ever = @ \cup {p}] ELSE span[l]]
  /\ Goes(h, Idle)
  /\ UNCHANGED <<rows, tokens>>

StoreActiveFails(h) ==
  /\ request[h].at = "beat"
  /\ Goes(h, Idle)
  /\ UNCHANGED <<rows, tokens, active, span>>

\* Seeded fault: the record is written without its TTL.
FaultNoTTL(p) == p \in {} /\ UNCHANGED usersVars

\* activeUserTTL after it was stored: heartbeats come when the clients please,
\* so this may happen to any record.
RecordExpires(p) ==
  /\ p \in active
  /\ active' = active \ {p}
  /\ span' = [l \in Handler |-> [span[l] EXCEPT !.always = @ \ {p}]]
  /\ UNCHANGED <<rows, tokens, request>>
-----------------------------------------------------------------------------
(* /active-users: ListCollection is two commands, KEYS and MGET. *)

ActiveUsers(h, p) ==
  /\ request[h] = Idle
  /\ p \in tokens
  /\ Goes(h, [at |-> "keys"])
  /\ span' = [span EXCEPT ![h] = [ever |-> active, always |-> active]]
  /\ UNCHANGED <<rows, tokens, active>>

\* Without keys there is no second command.
Keys(h) ==
  /\ request[h].at = "keys"
  /\ Goes(h, IF active = {} THEN [at |-> "listed", users |-> {}]
                            ELSE [at |-> "mget", ids |-> IDs(active)])
  /\ UNCHANGED <<rows, tokens, active, span>>

\* Seeded fault: a key without a value ends the list.
FaultNilEndsList(h) ==
  /\ request[h].at = "mget"
  /\ Goes(h, [at |-> "listed", users |-> IF request[h].ids \subseteq IDs(active)
                  THEN {a \in active : a.id \in request[h].ids} ELSE {}])
  /\ UNCHANGED <<rows, tokens, active, span>>

\* The values that are nil by now are left out (redis.go:83-88).
MGet(h) ==
  /\ request[h].at = "mget"
  /\ Goes(h, [at |-> "listed", users |-> {a \in active : a.id \in request[h].ids}])
  /\ UNCHANGED <<rows, tokens, active, span>>

\* Either command fails.
ListFails(h) ==
  /\ request[h].at \in {"keys", "mget"}
  /\ Goes(h, Idle)
  /\ span' = [span EXCEPT ![h] = NoSpan]
  /\ UNCHANGED <<rows, tokens, active>>

Respond(h) ==
  /\ request[h].at = "listed"
  /\ Goes(h, Idle)
  /\ span' = [span EXCEPT ![h] = NoSpan]
  /\ UNCHANGED <<rows, tokens, active>>
-----------------------------------------------------------------------------
HandlerStep(h) ==
  \/ \E n \in Name, w \in Password : RegisterBegins(h, n, w) \/ LoginBegins(h, n, w)
  \/ Create(h)
  \/ CreateFails(h)
  \/ FindByUsername(h)
  \/ Issue(h)
  \/ LoginFails(h)
  \/ \E p \in tokens : HeartBeat(h, p) \/ ActiveUsers(h, p)
  \/ StoreActive(h)
  \/ StoreActiveFails(h)
  \/ Keys(h)
  \/ MGet(h)
  \/ ListFails(h)
  \/ Respond(h)

UsersNext == \/ \E h \in Handler : HandlerStep(h)
             \/ \E p \in tokens : TokenExpires(p)
             \/ \E p \in active : RecordExpires(p)

UsersSafety == UsersInit /\ [][UsersNext]_usersVars

\* Redis drops a record whose time is over.
UsersSpec == /\ UsersSafety
             /\ \A p \in Principal : WF_usersVars(RecordExpires(p))
-----------------------------------------------------------------------------
\* A name means one user, whoever registers or logs in at the same time:
\* whatever the gateway holds about a user (a token, a heartbeat on its way, a
\* record, a list on its way out) has the ID that the one row of the name has.
OneUserPerName ==
  LET held == tokens \cup active
              \cup {request[h].who : h \in {k \in Handler : request[k].at = "beat"}}
              \cup UNION {request[h].users : h \in {k \in Handler : request[k].at = "listed"}}
  IN  /\ \A r, s \in rows : r.name = s.name \/ r.id = s.id => r = s
      /\ \A p \in held : \E r \in rows : r.id = p.id /\ r.name = p.name

\* Others may come and go between KEYS and MGET: a user whose record existed
\* during the whole of the listing is on the list, and everybody on the list
\* was active at some time of it.
ListMatchesSpan ==
  \A h \in Handler : request[h].at = "listed" =>
    /\ span[h].always \subseteq request[h].users
    /\ request[h].users \subseteq span[h].ever

\* A user who stops to send heartbeats is no longer active.
SilentUserForgotten ==
  \A p \in Principal :
    <>[](\A h \in Handler : request[h].at = "beat" => request[h].who # p)
      => <>[](p \notin active)
=============================================================================
