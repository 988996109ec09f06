------------------------------ MODULE Devices ------------------------------
(***************************************************************************)
(* Who may use the manager: the devices table (server/db.js), the hook     *)
(* that admits a request (server/auth.js), the routes under /api/auth      *)
(* (server/routes/auth.js), and the page of each browser, which registers  *)
(* it and waits for an approval (src/hooks/useAuth.js).                    *)
(*                                                                         *)
(* A browser stands for the token in its localStorage.  Its cookie is the  *)
(* same token once a registration has set it.  The hook and the handler of *)
(* a request without a body run in one turn, so that a device is admitted  *)
(* and acts in one step; a page learns of an answer later.                 *)
(***************************************************************************)

CONSTANT Browsers

VARIABLES device,   \* the row of a browser's token: "none", or what it may do
          cookie,   \* the browser sends its token
          page,     \* what useAuth shows
          answer    \* the answer on its way to the page, if any

deviceVars == <<device, cookie, page, answer>>

Rights == {"none", "pending", "approved", "admin"}
Answers == {"none", "loading", "unknown", "pending", "approved", "register"}

DeviceTypeOK ==
  /\ device \in [Browsers -> Rights] /\ cookie \in [Browsers -> BOOLEAN]
  /\ page \in [Browsers -> {"closed", "loading", "unknown", "pending", "approved"}]
  /\ answer \in [Browsers -> Answers]

DeviceInit ==
  /\ device = [b \in Browsers |-> "none"] /\ cookie = [b \in Browsers |-> FALSE]
  /\ page = [b \in Browsers |-> "closed"] /\ answer = [b \in Browsers |-> "none"]

Admitted(b) == cookie[b] /\ device[b] \in {"approved", "admin"}
Admin(b) == Admitted(b) /\ device[b] = "admin"
Shown(right) == IF right \in {"approved", "admin"} THEN "approved" ELSE "pending"

-----------------------------------------------------------------------------
(* The server.                                                             *)

\* createDevice: the first device, or one with the reset token, is an approved
\* administrator.  Counting and inserting is one transaction.
Right(reset) ==
  IF reset \/ \A b \in Browsers : device[b] = "none" THEN "admin" ELSE "pending"

\* POST /api/auth/register: a token on record keeps its row.  (reset: the request
\* carries ADMIN_RESET_TOKEN.)
Register(b, reset) ==
  /\ answer[b] = "register" /\ page[b] # "closed"
  /\ LET right == IF device[b] = "none" THEN Right(reset) ELSE device[b] IN
       /\ device' = [device EXCEPT ![b] = right]
       /\ answer' = [answer EXCEPT ![b] = Shown(right)]
  /\ cookie' = [cookie EXCEPT ![b] = TRUE]
  /\ UNCHANGED page

\* GET /api/auth/status, the first of a page or one of its polls; a request that
\* fails is an unknown status for the page.
Status(b) ==
  /\ page[b] \in {"loading", "pending"} /\ answer[b] = "none"
  /\ \/ /\ answer' = [answer EXCEPT ![b] =
                        IF cookie[b] /\ device[b] # "none" THEN Shown(device[b]) ELSE "unknown"]
        /\ cookie' = [cookie EXCEPT ![b] = @ /\ device[b] # "none"]
     \/ /\ answer' = [answer EXCEPT ![b] = "unknown"]
        /\ UNCHANGED cookie
  /\ UNCHANGED <<device, page>>

Approve(a, b) ==
  /\ Admin(a) /\ device[b] = "pending"
  /\ device' = [device EXCEPT ![b] = "approved"]
  /\ UNCHANGED <<cookie, page, answer>>

MutRevokeAnyone(a, b) ==
  /\ Admin(a) /\ device[b] # "none"
  /\ device' = [device EXCEPT ![b] = "none"]
  /\ UNCHANGED <<cookie, page, answer>>

\* An administrator revokes anyone but himself.
Revoke(a, b) ==
  /\ Admin(a) /\ a # b /\ device[b] # "none"
  /\ device' = [device EXCEPT ![b] = "none"]
  /\ UNCHANGED <<cookie, page, answer>>

\* The hook takes the cookie from a device it does not know.
TurnedAway(b) ==
  /\ cookie[b] /\ device[b] = "none" /\ page[b] = "approved"
  /\ cookie' = [cookie EXCEPT ![b] = FALSE]
  /\ UNCHANGED <<device, page, answer>>

-----------------------------------------------------------------------------
(* The page.                                                               *)

Open(b) ==
  /\ page[b] = "closed"
  /\ page' = [page EXCEPT ![b] = "loading"]
  /\ UNCHANGED <<device, cookie, answer>>

Close(b) ==
  /\ page[b] # "closed"
  /\ page' = [page EXCEPT ![b] = "closed"] /\ answer' = [answer EXCEPT ![b] = "none"]
  /\ UNCHANGED <<device, cookie>>

\* checkStatus and init: a page that loads registers an unknown device; a poll
\* shows what it got, and an unknown status ends the polling.
Receive(b) ==
  /\ answer[b] \in {"unknown", "pending", "approved"}
  /\ IF page[b] = "loading" /\ answer[b] = "unknown"
     THEN answer' = [answer EXCEPT ![b] = "register"]
     ELSE answer' = [answer EXCEPT ![b] = "none"]
  /\ page' = [page EXCEPT ![b] = answer[b]]
  /\ UNCHANGED <<device, cookie>>

DeviceNext ==
  \/ \E b \in Browsers :
       \/ Status(b) \/ TurnedAway(b) \/ Open(b) \/ Close(b) \/ Receive(b)
       \/ \E reset \in BOOLEAN : Register(b, reset)
  \/ \E a, b \in Browsers : Approve(a, b) \/ Revoke(a, b)

DeviceSpec == DeviceInit /\ [][DeviceNext]_deviceVars

-----------------------------------------------------------------------------
(* Properties.                                                             *)

\* Once a device is on record some administrator always is, however the
\* administrators approve and revoke each other: nobody is left to wait for an
\* approval that cannot come.  db.js, createDevice; routes/auth.js, DELETE.
AdminRemains ==
  (\E b \in Browsers : device[b] # "none") => \E a \in Browsers : device[a] = "admin"
=============================================================================
