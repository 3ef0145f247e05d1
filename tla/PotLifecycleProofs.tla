------------------------ MODULE PotLifecycleProofs ------------------------
(***************************************************************************)
(* A pot keeps an admin, pays by its mode, resolves its invitations and,   *)
(* once open, keeps its terms, for any number of users and of requests     *)
(* under way at the same time.                                             *)
(***************************************************************************)
EXTENDS PotLifecycle, TLAPS, FiniteSetTheorems

(* The requests under way, by the fields they carry. *)

PlainRequest == [pc : {"idle", "delete pot", "activate"}]

CreateRequest == [pc : {"config", "admin"}, mode : payoutModes, row : BOOLEAN, valid : BOOLEAN]

UpdateRequest == [pc : {"delete config", "insert config", "fields"}, from : payoutModes,
                  mode : payoutModes, row : BOOLEAN, terms : Terms]

RoleRequest == [pc : {"role", "insert member", "insert pending", "join"},
                target : Users, role : Roles]

TargetRequest == [pc : {"remove", "remove pending", "pending rows"}, target : Users]

ContributeRequest == [pc : {"contribution"}, amount : Amounts, refund : {"none", "half", "both"}]

Request == PlainRequest \union CreateRequest \union UpdateRequest \union RoleRequest
             \union TargetRequest \union ContributeRequest

\* Every variable keeps its type, and every request the fields its step reads.
TypeOK ==
    /\ pot \in [status : {"none", "draft", "open", "closed", "deleted"}, mode : payoutModes,
                type : Types \union {"public"}, terms : Terms \union {NoPot.terms}]
    /\ configs \in SUBSET payoutModes
    /\ members \in [Users -> {"none", "admin", "member"}]
    /\ pending \in [Users -> {"none", "admin", "member", "removed", "joined"}]
    /\ verified \in SUBSET Users
    /\ req \in [Requests -> Request]

(* The inductive invariant *)

Creating(r) == req[r].pc \in {"config", "admin"}
Updating(r) == req[r].pc \in {"delete config", "insert config", "fields"}
Joining(r)  == req[r].pc \in {"pending rows", "join"}

\* Nobody is, or has been asked to be, a member, and nobody is at work on it.
Unpeopled(others) ==
    /\ \A u \in Users : members[u] = "none" /\ pending[u] = "none"
    /\ \A q \in others : req[q].pc \in {"idle", "pending rows"}

\* Before it is created a pot has no configuration, and until its creator is its
\* admin it is in draft, nobody can act on it and no one else creates it.
CreatedAlone ==
    /\ pot.status = "none" => configs = {} /\ Unpeopled(Requests)
    /\ \A r \in Requests : Creating(r) => pot.status = "draft" /\ Unpeopled(Requests \ {r})

\* Someone other than u is an admin.
AnotherAdmin(u) == \E v \in Users \ {u} : members[v] = "admin"

\* At most one request is about to take an admin away, and it leaves another.
AdminLeft ==
    Exists /\ windows \intersect {"orphan", "admins"} = {} =>
        /\ (\A r \in Requests : ~Creating(r)) => \E u \in Users : members[u] = "admin"
        /\ \A q, r \in Demoting : q = r
        /\ \A r \in Demoting :
              (req[r].pc = "role" => req[r].role = "member") => AnotherAdmin(req[r].target)

\* The configuration of a mode.
ConfigOf(mode) == configs = {mode} \/ (mode = "manual" /\ configs = {})

\* A body that leaves no row is one of a manual pot.
RowsByMode ==
    \A r \in Requests : Creating(r) \/ Updating(r) => req[r].row \/ req[r].mode = "manual"

\* The configuration is the one of the mode, but while one request changes both.
ConfigFits ==
    Exists /\ windows \intersect {"orphan", "updates"} = {} =>
        /\ \A q, r \in Requests : Updating(q) /\ Updating(r) => q = r
        /\ \A r \in Requests : Updating(r) => req[r].from = pot.mode
        /\ \A r \in Requests : Creating(r) => req[r].mode = pot.mode
        /\ \A r \in Requests : req[r].pc \in {"config", "insert config"} => configs = {}
        /\ \A r \in Requests : req[r].pc = "fields" => ConfigOf(req[r].mode)
        /\ (\A r \in Requests : req[r].pc \notin {"config", "insert config", "fields"})
              => ConfigOf(pot.mode)

\* An e-mail is verified once, by one request, and that request takes up the
\* invitation it finds.
JoinedOnce ==
    /\ \A r \in Requests : Joining(r) => req[r].target \in verified
    /\ \A q, r \in Requests :
          Joining(q) /\ Joining(r) /\ req[q].target = req[r].target => q = r
    /\ Exists /\ "invitation" \notin windows =>
          \A r \in Requests : req[r].pc = "join" => Invited(req[r].target)
    /\ "invitation" \notin windows =>
          \A u \in Users : u \in verified /\ Invited(u) =>
              \E r \in Requests : Joining(r) /\ req[r].target = u

\* Who saw the pot in draft is done by the time it is open.
NoneDrafting ==
    pot.status \in {"open", "closed"} /\ "straddle" \notin windows =>
        \A r \in Requests : req[r].pc \notin Drafting

Inv ==
    /\ TypeOK
    /\ CreatedAlone
    /\ AdminLeft
    /\ RowsByMode
    /\ ConfigFits
    /\ JoinedOnce
    /\ NoneDrafting
-----------------------------------------------------------------------------
(* Requests and their fields *)

\* A request's step tells the fields it carries.
LEMMA FieldsOf ==
    ASSUME TypeOK, NEW r \in Requests
    PROVE  /\ req[r] \in Request
           /\ Creating(r) => req[r] \in CreateRequest
           /\ Updating(r) => req[r] \in UpdateRequest
           /\ req[r].pc \in {"role", "insert member", "insert pending", "join"}
                => req[r] \in RoleRequest
           /\ req[r].pc \in {"remove", "remove pending", "pending rows"}
                => req[r] \in TargetRequest
           /\ req[r].pc = "contribution" => req[r] \in ContributeRequest
BY DEF TypeOK, Request, PlainRequest, CreateRequest, UpdateRequest, RoleRequest,
       TargetRequest, ContributeRequest, Creating, Updating

\* A request given a member of Request keeps the type of them all.
LEMMA RequestsTyped ==
    ASSUME TypeOK, NEW r \in Requests
    PROVE  /\ \A x \in Request : Begin(r, x) => req' \in [Requests -> Request]
           /\ End(r) => req' \in [Requests -> Request]
<1>1. Idle \in Request
  BY DEF Idle, Request, PlainRequest
<1> QED
  BY <1>1 DEF TypeOK, Begin, End

\* A creation moves on with its fields.
LEMMA CreateMoves ==
    ASSUME TypeOK, NEW r \in Requests, req[r] \in CreateRequest, Goto(r, "admin")
    PROVE  /\ req' \in [Requests -> Request]
           /\ req'[r] = [pc |-> "admin", mode |-> req[r].mode, row |-> req[r].row,
                         valid |-> req[r].valid]
<1>1. [req[r] EXCEPT !.pc = "admin"] =
        [pc |-> "admin", mode |-> req[r].mode, row |-> req[r].row, valid |-> req[r].valid]
  BY DEF CreateRequest
<1>2. [pc |-> "admin", mode |-> req[r].mode, row |-> req[r].row, valid |-> req[r].valid]
        \in CreateRequest
  BY DEF CreateRequest
<1> QED
  BY <1>1, <1>2 DEF TypeOK, Goto, Request

\* So does an update.
LEMMA UpdateMoves ==
    ASSUME TypeOK, NEW r \in Requests, req[r] \in UpdateRequest,
           NEW s \in {"insert config", "fields"}, Goto(r, s)
    PROVE  /\ req' \in [Requests -> Request]
           /\ req'[r].pc = s /\ req'[r].from = req[r].from /\ req'[r].mode = req[r].mode
           /\ req'[r].row = req[r].row /\ req'[r].terms = req[r].terms
<1> DEFINE x == [req[r] EXCEPT !.pc = s]
<1>1. /\ x \in UpdateRequest
      /\ x.pc = s /\ x.from = req[r].from /\ x.mode = req[r].mode
      /\ x.row = req[r].row /\ x.terms = req[r].terms
  BY DEF UpdateRequest
<1>2. req' = [req EXCEPT ![r] = x]
  BY DEF Goto
<1> HIDE DEF x
<1>3. req'[r] = x /\ req' \in [Requests -> Request]
  BY <1>1, <1>2 DEF TypeOK, Request
<1> QED
  BY <1>1, <1>3

\* An invitation that is found is joined.
LEMMA ReadMoves ==
    ASSUME TypeOK, NEW r \in Requests, readPending(r), Invited(req[r].target)
    PROVE  /\ req' \in [Requests -> Request]
           /\ req'[r] = [pc |-> "join", target |-> req[r].target,
                         role |-> pending[req[r].target]]
           /\ \A q \in Requests \ {r} : req'[q] = req[q]
<1>1. req[r] \in TargetRequest
  BY FieldsOf DEF readPending, At
<1>2. [pc |-> "join", target |-> req[r].target, role |-> pending[req[r].target]] \in RoleRequest
  BY <1>1 DEF RoleRequest, TargetRequest, Invited, Roles
<1> DEFINE x == [pc |-> "join", target |-> req[r].target, role |-> pending[req[r].target]]
<1>3. req' = [req EXCEPT ![r] = x]
  BY DEF readPending
<1>4. x \in Request
  BY <1>2 DEF Request
<1> HIDE DEF x
<1>5. /\ req' \in [Requests -> Request] /\ req'[r] = x
      /\ \A q \in Requests \ {r} : req'[q] = req[q]
  BY <1>3, <1>4 DEF TypeOK
<1> QED
  BY <1>5 DEF x
-----------------------------------------------------------------------------
(* Types *)

\* Nothing is there at first.
LEMMA InitType == Init => TypeOK
BY LifecycleAssumption
   DEF Init, TypeOK, NoPot, Idle, Request, PlainRequest, payoutModes

\* Creating and updating a pot keep the types.
LEMMA PotTypes ==
    ASSUME TypeOK, NEW r \in Requests,
           \/ createPotHandler(r) \/ createConfig(r) \/ createAdmin(r)
           \/ updatePotHandler(r) \/ deleteExistingPayoutConfig(r)
           \/ insertPayoutConfig(r) \/ updateFields(r)
    PROVE  TypeOK'
<1>1. CASE createPotHandler(r)
  <2>1. PICK mode \in Modes, c \in Configs, type \in Types, t \in Terms :
               create(r, mode, c, type, t)
    BY <1>1 DEF createPotHandler
  <2>2. mode \in payoutModes
    BY LifecycleAssumption
  <2>3. hasConfigRow(mode, c) \in BOOLEAN /\ validatePayoutModeConfig(mode, c) \in BOOLEAN
    <3>1. /\ targetBasedPayoutConfigSchema(c) \in BOOLEAN
          /\ manualPayoutConfigSchema(c) \in BOOLEAN
          /\ recurringPayoutConfigSchema(c) \in BOOLEAN
          /\ scheduledPayoutConfigSchema(c) \in BOOLEAN
      BY DEF targetBasedPayoutConfigSchema, manualPayoutConfigSchema,
             recurringPayoutConfigSchema, scheduledPayoutConfigSchema
    <3>2. hasConfigRow(mode, c) \in BOOLEAN
      BY DEF hasConfigRow
    <3>3. \/ validatePayoutModeConfig(mode, c) = targetBasedPayoutConfigSchema(c)
          \/ validatePayoutModeConfig(mode, c) = manualPayoutConfigSchema(c)
          \/ validatePayoutModeConfig(mode, c) = recurringPayoutConfigSchema(c)
          \/ validatePayoutModeConfig(mode, c) = scheduledPayoutConfigSchema(c)
      BY <2>2 DEF validatePayoutModeConfig, payoutModes
    <3> QED
      BY <3>1, <3>2, <3>3
  <2>4. [pc |-> "config", mode |-> mode, row |-> hasConfigRow(mode, c),
         valid |-> validatePayoutModeConfig(mode, c)] \in Request
    BY <2>2, <2>3 DEF Request, CreateRequest
  <2>5. req' \in [Requests -> Request]
    BY <2>1, <2>4, RequestsTyped DEF create
  <2> QED
    BY <2>1, <2>2, <2>5 DEF create, TypeOK
<1>2. CASE createConfig(r)
  <2>1. req[r] \in CreateRequest
    BY <1>2, FieldsOf DEF createConfig, At, Creating
  <2>2. req' \in [Requests -> Request]
    <3>1. End(r) \/ Goto(r, "admin")
      BY <1>2 DEF createConfig
    <3> QED
      BY <2>1, <3>1, RequestsTyped, CreateMoves
  <2>3. configs' \in SUBSET payoutModes
    <3>1. configs' = configs \/ configs' = configs \union {req[r].mode}
      BY <1>2 DEF createConfig
    <3>2. req[r].mode \in payoutModes
      BY <2>1 DEF CreateRequest
    <3> QED
      BY <3>1, <3>2 DEF TypeOK
  <2> QED
    BY <1>2, <2>2, <2>3 DEF createConfig, TypeOK
<1>3. CASE createAdmin(r)
  BY <1>3, RequestsTyped, LifecycleAssumption DEF createAdmin, TypeOK
<1>4. CASE updatePotHandler(r)
  <2>1. PICK u \in Users, mode \in Modes, t \in Terms, withConfig \in BOOLEAN,
             c \in Configs \union {{}} : update(r, u, mode, withConfig, c, t)
    BY <1>4 DEF updatePotHandler
  <2>2. mode \in payoutModes /\ pot.mode \in payoutModes
    BY LifecycleAssumption DEF TypeOK
  <2>3. hasConfigRow(mode, c) \in BOOLEAN
    BY DEF hasConfigRow
  <2>4. [pc |-> IF withConfig THEN "delete config" ELSE "fields",
         from |-> pot.mode, mode |-> mode, row |-> hasConfigRow(mode, c), terms |-> t]
           \in Request
    BY <2>2, <2>3 DEF Request, UpdateRequest
  <2>5. req' \in [Requests -> Request]
    BY <2>1, <2>4, RequestsTyped DEF update
  <2> QED
    BY <2>1, <2>5 DEF update, TypeOK
<1>5. CASE deleteExistingPayoutConfig(r)
  <2>1. req' \in [Requests -> Request]
    BY <1>5, FieldsOf, UpdateMoves DEF deleteExistingPayoutConfig, At, Updating
  <2> QED
    BY <1>5, <2>1 DEF deleteExistingPayoutConfig, TypeOK
<1>6. CASE insertPayoutConfig(r)
  <2>1. req[r] \in UpdateRequest
    BY <1>6, FieldsOf DEF insertPayoutConfig, At, Updating
  <2>2. req' \in [Requests -> Request]
    <3>1. End(r) \/ Goto(r, "fields")
      BY <1>6 DEF insertPayoutConfig
    <3> QED
      BY <2>1, <3>1, RequestsTyped, UpdateMoves
  <2>3. configs' \in SUBSET payoutModes
    <3>1. configs' = configs \/ configs' = configs \union {req[r].mode}
      BY <1>6 DEF insertPayoutConfig
    <3>2. req[r].mode \in payoutModes
      BY <2>1 DEF UpdateRequest
    <3> QED
      BY <3>1, <3>2 DEF TypeOK
  <2> QED
    BY <1>6, <2>2, <2>3 DEF insertPayoutConfig, TypeOK
<1>7. CASE updateFields(r)
  <2>1. req[r] \in UpdateRequest
    BY <1>7, FieldsOf DEF updateFields, At, Updating
  <2>2. req' \in [Requests -> Request]
    BY <1>7, RequestsTyped DEF updateFields
  <2> QED
    BY <1>7, <2>1, <2>2 DEF updateFields, UpdateRequest, TypeOK
<1> QED
  BY <1>1, <1>2, <1>3, <1>4, <1>5, <1>6, <1>7

\* Deleting, activating and closing it do, and so do contributions.
LEMMA StatusTypes ==
    ASSUME TypeOK,
           \/ closePotHandler
           \/ \E r \in Requests :
                 \/ deleteDraftPotHandler(r) \/ deletePot(r) \/ activatePotHandler(r)
                 \/ openPot(r) \/ contributeHandler(r) \/ insertContribution(r)
    PROVE  TypeOK'
<1>1. CASE closePotHandler
  BY <1>1 DEF closePotHandler, close, TypeOK
<1>2. ASSUME NEW r \in Requests, deleteDraftPotHandler(r) \/ activatePotHandler(r)
      PROVE  TypeOK'
  <2>1. [pc |-> "delete pot"] \in Request /\ [pc |-> "activate"] \in Request
    BY DEF Request, PlainRequest
  <2> QED
    BY <1>2, <2>1, RequestsTyped
       DEF deleteDraftPotHandler, deleteDraft, activatePotHandler, activate, TypeOK
<1>3. ASSUME NEW r \in Requests, deletePot(r)
      PROVE  TypeOK'
  <2>1. req' \in [Requests -> Request]
    BY <1>3, RequestsTyped DEF deletePot
  <2>2. [NoPot EXCEPT !.status = "deleted"]
          = [status |-> "deleted", mode |-> "manual", type |-> "public", terms |-> NoPot.terms]
    BY DEF NoPot
  <2>3. UNCHANGED <<pot, configs, members, pending, verified>>
        \/ /\ pot' = [status |-> "deleted", mode |-> "manual", type |-> "public",
                      terms |-> NoPot.terms]
           /\ configs' = {} /\ verified' = verified
           /\ members' = [u \in Users |-> "none"] /\ pending' = [u \in Users |-> "none"]
    BY <1>3, <2>2 DEF deletePot
  <2> QED
    <3>1. CASE UNCHANGED <<pot, configs, members, pending, verified>>
      BY <2>1, <3>1 DEF TypeOK
    <3>2. CASE /\ pot' = [status |-> "deleted", mode |-> "manual", type |-> "public",
                          terms |-> NoPot.terms]
               /\ configs' = {} /\ verified' = verified
               /\ members' = [u \in Users |-> "none"] /\ pending' = [u \in Users |-> "none"]
      <4>1. NoPot.terms \in Terms \union {NoPot.terms} /\ "manual" \in payoutModes
        BY DEF payoutModes
      <4> QED
        BY <2>1, <3>2, <4>1 DEF TypeOK
    <3> QED
      BY <2>3, <3>1, <3>2
<1>4. ASSUME NEW r \in Requests, openPot(r) \/ insertContribution(r)
      PROVE  TypeOK'
  BY <1>4, RequestsTyped DEF openPot, insertContribution, TypeOK
<1>5. ASSUME NEW r \in Requests, contributeHandler(r)
      PROVE  TypeOK'
  <2>1. PICK u \in Users \union {"anyone"}, amount \in Amounts,
             refund \in {"none", "half", "both"} : contribute(r, u, amount, refund)
    BY <1>5 DEF contributeHandler
  <2>2. [pc |-> "contribution", amount |-> amount, refund |-> refund] \in Request
    BY DEF Request, ContributeRequest
  <2> QED
    BY <2>1, <2>2, RequestsTyped DEF contribute, TypeOK
<1> QED
  BY <1>1, <1>2, <1>3, <1>4, <1>5

\* Membership and invitations do.
LEMMA MemberTypes ==
    ASSUME TypeOK, NEW r \in Requests,
           \/ addMemberHandler(r) \/ updateMemberRoleHandler(r) \/ removeMemberHandler(r)
           \/ leavePotHandler(r) \/ removePendingMemberHandler(r)
           \/ \E u \in Users : verifyEmail(r, u)
           \/ writeRole(r) \/ deleteMember(r) \/ insertMember(r) \/ insertPending(r)
           \/ writeRemoved(r) \/ readPending(r) \/ activateForEmail(r) \/ activationFails(r)
    PROVE  TypeOK'
<1>1. CASE addMemberHandler(r) \/ updateMemberRoleHandler(r)
  <2>1. \A target \in Users, role \in Roles :
          /\ [pc |-> "role", target |-> target, role |-> role] \in Request
          /\ [pc |-> "insert member", target |-> target, role |-> role] \in Request
          /\ [pc |-> "insert pending", target |-> target, role |-> role] \in Request
    BY DEF Request, RoleRequest
  <2> QED
    BY <1>1, <2>1, RequestsTyped
       DEF addMemberHandler, addMember, updateMemberRoleHandler, updateRole, TypeOK
<1>2. CASE removeMemberHandler(r) \/ leavePotHandler(r) \/ removePendingMemberHandler(r)
           \/ \E u \in Users : verifyEmail(r, u)
  <2>1. \A target \in Users :
          /\ [pc |-> "remove", target |-> target] \in Request
          /\ [pc |-> "remove pending", target |-> target] \in Request
          /\ [pc |-> "pending rows", target |-> target] \in Request
    BY DEF Request, TargetRequest
  <2> QED
    BY <1>2, <2>1, RequestsTyped
       DEF removeMemberHandler, leavePotHandler, remove, removePendingMemberHandler,
           removePending, verifyEmail, TypeOK
<1>3. CASE writeRole(r) \/ insertMember(r) \/ insertPending(r) \/ activateForEmail(r)
  <2>1. req[r].role \in Roles
    BY <1>3, FieldsOf
       DEF writeRole, insertMember, insertPending, activateForEmail, At, RoleRequest
  <2>2. req' \in [Requests -> Request]
    BY <1>3, RequestsTyped DEF writeRole, insertMember, insertPending, activateForEmail
  <2> QED
    BY <1>3, <2>1, <2>2
       DEF writeRole, insertMember, insertPending, activateForEmail, Roles, TypeOK
<1>4. CASE deleteMember(r) \/ writeRemoved(r) \/ activationFails(r)
  BY <1>4, RequestsTyped DEF deleteMember, writeRemoved, activationFails, TypeOK
<1>5. CASE readPending(r)
  <2>1. req' \in [Requests -> Request]
    BY <1>5, ReadMoves, RequestsTyped DEF readPending
  <2> QED
    BY <1>5, <2>1 DEF readPending, TypeOK
<1> QED
  BY <1>1, <1>2, <1>3, <1>4, <1>5

\* Every step keeps the types.
LEMMA NextType ==
    ASSUME TypeOK, [Next]_vars
    PROVE  TypeOK'
<1>1. CASE UNCHANGED vars
  BY <1>1 DEF vars, TypeOK
<1>2. CASE Next
  BY <1>2, PotTypes, StatusTypes, MemberTypes DEF Next, authenticated, continue
<1> QED
  BY <1>1, <1>2
-----------------------------------------------------------------------------
(* What the steps leave alone *)

\* Every other request stays where it is.
Same(r) == \A q \in Requests \ {r} : req'[q] = req[q]

\* The requests under way are a function on the slots.
LEMMA ReqFn == TypeOK => req \in [Requests -> Request]
BY DEF TypeOK

\* A request that ends leaves its slot idle and the others alone.
LEMMA Ended ==
    ASSUME TypeOK, NEW r \in Requests, End(r)
    PROVE  req'[r].pc = "idle" /\ Same(r)
BY ReqFn DEF End, Idle, Same

\* windows only grow.
LEMMA WindowsGrow ==
    ASSUME NEW w, NEW hit, Window(w, hit)
    PROVE  windows \subseteq windows' /\ (hit => w \in windows')
BY DEF Window

\* A request of an admin that only notes what to do next.
Asking(r) ==
    deleteDraftPotHandler(r) \/ activatePotHandler(r) \/ addMemberHandler(r)
      \/ removePendingMemberHandler(r)

\* A handler of a draft pot that only reads before its write: it found the pot in
\* draft and an admin asking.
LEMMA AskingStep ==
    ASSUME TypeOK, NEW r \in Requests, Asking(r)
    PROVE  /\ req[r].pc = "idle" /\ Same(r)
           /\ req'[r].pc \in {"delete pot", "activate", "insert member", "insert pending",
                              "remove pending"}
           /\ UNCHANGED <<pot, configs, members, pending, verified, windows>>
           /\ pot.status = "draft" /\ \E u \in Users : members[u] = "admin"
<1>1. CASE deleteDraftPotHandler(r)
  <2>1. req[r].pc = "idle" /\ req'[r].pc = "delete pot" /\ Same(r)
    <3> DEFINE x == [pc |-> "delete pot"]
    <3>1. Begin(r, x)
      BY <1>1 DEF deleteDraftPotHandler, deleteDraft
    <3>2. x.pc = "delete pot"
      OBVIOUS
    <3> HIDE DEF x
    <3>3. req[r].pc = "idle" /\ req'[r] = x /\ Same(r)
      BY <3>1, ReqFn DEF Begin, Idle, Same
    <3> QED
      BY <3>2, <3>3
  <2> QED
    BY <1>1, <2>1 DEF deleteDraftPotHandler, deleteDraft, assertIsAdmin
<1>2. CASE activatePotHandler(r)
  <2>1. req[r].pc = "idle" /\ req'[r].pc = "activate" /\ Same(r)
    <3> DEFINE x == [pc |-> "activate"]
    <3>1. Begin(r, x)
      BY <1>2 DEF activatePotHandler, activate
    <3>2. x.pc = "activate"
      OBVIOUS
    <3> HIDE DEF x
    <3>3. req[r].pc = "idle" /\ req'[r] = x /\ Same(r)
      BY <3>1, ReqFn DEF Begin, Idle, Same
    <3> QED
      BY <3>2, <3>3
  <2> QED
    BY <1>2, <2>1 DEF activatePotHandler, activate, assertIsAdmin
<1>3. CASE addMemberHandler(r)
  <2>1. PICK u \in Users, target \in Users, role \in Roles : addMember(r, u, target, role)
    BY <1>3 DEF addMemberHandler
  <2> QED
    <3> DEFINE step == IF target \in verified THEN "insert member" ELSE "insert pending"
               x == [pc |-> step, target |-> target, role |-> role]
    <3>1. x.pc \in {"insert member", "insert pending"}
      OBVIOUS
    <3>2. Begin(r, x)
      BY <2>1 DEF addMember
    <3> HIDE DEF x
    <3>3. req[r].pc = "idle" /\ req'[r] = x /\ Same(r)
      BY <3>2, ReqFn DEF Same, Begin, Idle
    <3> QED
      BY <2>1, <3>1, <3>3 DEF addMember, assertIsAdmin, assertMembershipIsOpen
<1>4. CASE removePendingMemberHandler(r)
  <2>0. PICK u \in Users, target \in Users : removePending(r, u, target)
    BY <1>4 DEF removePendingMemberHandler
  <2>1. req[r].pc = "idle" /\ req'[r].pc = "remove pending" /\ Same(r)
    <3> DEFINE x == [pc |-> "remove pending", target |-> target]
    <3>1. Begin(r, x)
      BY <2>0 DEF removePending
    <3>2. x.pc = "remove pending"
      OBVIOUS
    <3> HIDE DEF x
    <3>3. req[r].pc = "idle" /\ req'[r] = x /\ Same(r)
      BY <3>1, ReqFn DEF Begin, Idle, Same
    <3> QED
      BY <3>2, <3>3
  <2> QED
    BY <2>0, <2>1
       DEF removePending, assertIsAdmin, assertMembershipIsOpen
<1> QED
  BY <1>1, <1>2, <1>3, <1>4 DEF Asking

\* A request to take a member's role or membership away.
Demanding(r) == updateMemberRoleHandler(r) \/ removeMemberHandler(r) \/ leavePotHandler(r)

\* A handler that changes or removes a member: it saw that an admin would be left
\* (countAdmins), unless it overlaps another such handler.
LEMMA DemandingStep ==
    ASSUME TypeOK, NEW r \in Requests, Demanding(r)
    PROVE  /\ req[r].pc = "idle" /\ Same(r)
           /\ req'[r].pc \in {"role", "remove"}
           /\ UNCHANGED <<pot, configs, members, pending, verified>>
           /\ pot.status = "draft" /\ \E u \in Users : members[u] # "none"
           /\ windows \subseteq windows' /\ (Demoting # {} => "admins" \in windows')
           /\ req'[r].target \in Users
           /\ (req'[r].pc = "role" => req'[r].role = "member") => keepsAnAdmin(req'[r].target)
<1>1. CASE updateMemberRoleHandler(r)
  <2>1. PICK u \in Users, target \in Users, role \in Roles : updateRole(r, u, target, role)
    BY <1>1 DEF updateMemberRoleHandler
  <2>2. windows \subseteq windows' /\ (Demoting # {} => "admins" \in windows')
    BY <2>1, WindowsGrow DEF updateRole
  <2> QED
    BY <2>1, <2>2, ReqFn DEF updateRole, isMember, assertMembershipIsOpen, Same, Begin, End, Idle
<1>2. CASE removeMemberHandler(r) \/ leavePotHandler(r)
  <2>1. PICK u \in Users, target \in Users : remove(r, u, target)
    BY <1>2 DEF removeMemberHandler, leavePotHandler
  <2>2. windows \subseteq windows' /\ (Demoting # {} => "admins" \in windows')
    BY <2>1, WindowsGrow DEF remove
  <2> QED
    BY <2>1, <2>2, ReqFn DEF remove, isMember, assertMembershipIsOpen, Same, Begin, End, Idle
<1> QED
  BY <1>1, <1>2 DEF Demanding

\* A contribution touches nothing here.
LEMMA ContributionStep ==
    ASSUME TypeOK, NEW r \in Requests, contributeHandler(r) \/ insertContribution(r)
    PROVE  /\ Same(r)
           /\ UNCHANGED <<pot, configs, members, pending, verified, windows>>
           /\ \/ req[r].pc = "idle" /\ req'[r].pc = "contribution" /\ pot.status = "open"
              \/ req[r].pc = "contribution" /\ req'[r].pc = "idle"
<1>1. CASE contributeHandler(r)
  BY <1>1, ReqFn DEF contributeHandler, contribute, Same, Begin, End, Idle
<1>2. CASE insertContribution(r)
  BY <1>2, ReqFn DEF insertContribution, At, Same, Idle, Begin, End
<1> QED
  BY <1>1, <1>2

\* The write of a change of members.
Peopling(r) == writeRole(r) \/ deleteMember(r) \/ insertMember(r)

\* The write of a change of members.
LEMMA PeoplingStep ==
    ASSUME TypeOK, NEW r \in Requests, Peopling(r)
    PROVE  /\ req[r].pc \in {"role", "remove", "insert member"} /\ req'[r].pc = "idle"
           /\ Same(r)
           /\ UNCHANGED <<pot, configs, pending, verified, windows>>
<1>1. /\ req[r].pc \in {"role", "remove", "insert member"} /\ End(r)
      /\ UNCHANGED <<pot, configs, pending, verified, windows>>
  BY DEF Peopling, writeRole, deleteMember, insertMember, At
<1> QED
  BY <1>1, Ended

\* The write of a change of invitations.
LEMMA InvitingStep ==
    ASSUME TypeOK, NEW r \in Requests, insertPending(r) \/ writeRemoved(r)
    PROVE  /\ req[r].pc \in {"insert pending", "remove pending"} /\ req'[r].pc = "idle"
           /\ Same(r)
           /\ UNCHANGED <<pot, configs, members, verified>>
           /\ windows \subseteq windows'
<1>1. /\ req[r].pc \in {"insert pending", "remove pending"} /\ End(r)
      /\ UNCHANGED <<pot, configs, members, verified>>
  BY DEF insertPending, writeRemoved, At
<1>2. windows \subseteq windows'
  BY DEF insertPending, writeRemoved, Window
<1> QED
  BY <1>1, <1>2, Ended

\* Verification, and what follows it.
Verifying(r) ==
    \/ \E u \in Users : verifyEmail(r, u)
    \/ readPending(r) \/ activateForEmail(r) \/ activationFails(r)

\* The steps of an e-mail verification: a join follows an invitation that was read.
LEMMA VerifyingStep ==
    ASSUME TypeOK, NEW r \in Requests, Verifying(r)
    PROVE  /\ req[r].pc \in {"idle", "pending rows", "join"}
           /\ req'[r].pc \in {"idle", "pending rows", "join"}
           /\ req'[r].pc = "join" => req[r].pc = "pending rows" /\ Invited(req[r].target)
                                       /\ req[r].target \in Users
           /\ Same(r)
           /\ UNCHANGED <<pot, configs>>
           /\ windows \subseteq windows'
           /\ req[r].pc # "join" => UNCHANGED <<members, pending>>
<1>1. CASE \E u \in Users : verifyEmail(r, u)
  <2>0. PICK u \in Users : verifyEmail(r, u)
    BY <1>1
  <2>1. req[r].pc = "idle" /\ req'[r].pc = "pending rows" /\ Same(r)
    <3> DEFINE x == [pc |-> "pending rows", target |-> u]
    <3>1. Begin(r, x)
      BY <2>0 DEF verifyEmail
    <3>2. x.pc = "pending rows"
      OBVIOUS
    <3> HIDE DEF x
    <3>3. req[r].pc = "idle" /\ req'[r] = x /\ Same(r)
      BY <3>1, ReqFn DEF Begin, Idle, Same
    <3> QED
      BY <3>2, <3>3
  <2> QED
    BY <2>0, <2>1 DEF verifyEmail
<1>2. CASE readPending(r)
  <2>1. req[r] \in TargetRequest /\ req[r].pc = "pending rows"
    BY <1>2, FieldsOf DEF readPending, At
  <2>2. req[r].target \in Users
    BY <2>1 DEF TargetRequest
  <2>3. CASE Invited(req[r].target)
    <3>1. req'[r].pc = "join" /\ Same(r)
      <4> DEFINE x == [pc |-> "join", target |-> req[r].target,
                       role |-> pending[req[r].target]]
      <4>1. x.pc = "join"
        OBVIOUS
      <4>2. req'[r] = x /\ Same(r)
        BY <1>2, <2>3, ReadMoves DEF Same
      <4> HIDE DEF x
      <4> QED
        BY <4>1, <4>2
    <3> QED
      BY <1>2, <2>1, <2>2, <2>3, <3>1 DEF readPending
  <2>4. CASE ~Invited(req[r].target)
    <3>1. req'[r].pc = "idle" /\ Same(r)
      BY <1>2, <2>4, Ended DEF readPending
    <3> QED
      BY <1>2, <2>1, <3>1 DEF readPending
  <2> QED
    BY <2>3, <2>4
<1>3. CASE activateForEmail(r)
  BY <1>3, ReqFn DEF activateForEmail, At, Same, Idle, Begin, End
<1>4. CASE activationFails(r)
  BY <1>4, ReqFn DEF activationFails, Same, Idle, Begin, End, Window
<1> QED
  BY <1>1, <1>2, <1>3, <1>4 DEF Verifying

\* The creation of the pot.
LEMMA CreateStep ==
    ASSUME TypeOK, NEW r \in Requests, createPotHandler(r)
    PROVE  /\ req[r].pc = "idle" /\ Same(r) /\ req'[r].pc = "config"
           /\ pot.status = "none" /\ pot'.status = "draft"
           /\ req'[r].mode = pot'.mode
           /\ req'[r].row \/ req'[r].mode = "manual"
           /\ UNCHANGED <<configs, members, pending, verified, windows>>
<1>1. PICK mode \in Modes, c \in Configs, type \in Types, t \in Terms :
             create(r, mode, c, type, t)
  BY DEF createPotHandler
<1>2. req'[r] = [pc |-> "config", mode |-> mode, row |-> hasConfigRow(mode, c),
                 valid |-> validatePayoutModeConfig(mode, c)]
  BY <1>1, ReqFn DEF create, Begin, End, Idle
<1>3. hasConfigRow(mode, c) \/ mode = "manual"
  BY DEF hasConfigRow
<1> QED
  BY <1>1, <1>2, <1>3, ReqFn DEF create, Same, Begin, End, Idle

\* The configuration of a new pot is inserted, or the creation breaks off.
LEMMA CreateConfigStep ==
    ASSUME TypeOK, NEW r \in Requests, createConfig(r)
    PROVE  /\ req[r].pc = "config" /\ Same(r) /\ windows \subseteq windows'
           /\ UNCHANGED <<pot, members, pending, verified>>
           /\ \/ req'[r].pc = "idle" /\ configs' = configs /\ "orphan" \in windows'
              \/ /\ req'[r].pc = "admin" /\ windows' = windows
                 /\ req'[r].mode = req[r].mode /\ req'[r].row = req[r].row
                 /\ configs' = IF req[r].row THEN configs \union {req[r].mode} ELSE configs
<1>1. req[r].pc = "config" /\ req[r] \in CreateRequest
  BY FieldsOf DEF createConfig, At, Creating
<1>2. CASE End(r) /\ Window("orphan", TRUE) /\ UNCHANGED configs
  BY <1>1, <1>2, ReqFn DEF createConfig, Same, Idle, Begin, End, Window
<1>3. CASE /\ configs' = IF req[r].row THEN configs \union {req[r].mode} ELSE configs
           /\ Goto(r, "admin") /\ UNCHANGED windows
  BY <1>1, <1>3, ReqFn, CreateMoves DEF createConfig, Same, Begin, End, Goto, Idle
<1> QED
  BY <1>2, <1>3 DEF createConfig

\* The creator becomes the admin of a new pot.
LEMMA CreateAdminStep ==
    ASSUME TypeOK, NEW r \in Requests, createAdmin(r)
    PROVE  /\ req[r].pc = "admin" /\ req'[r].pc = "idle" /\ Same(r)
           /\ UNCHANGED <<pot, configs, pending, verified, windows>>
           /\ members'[Creator] = "admin"
BY ReqFn, LifecycleAssumption DEF createAdmin, At, Same, Idle, TypeOK, Begin, End

\* The steps of an update.
LEMMA UpdateStep ==
    ASSUME TypeOK, NEW r \in Requests, updatePotHandler(r)
    PROVE  /\ req[r].pc = "idle" /\ Same(r) /\ req'[r].pc \in {"delete config", "fields"}
           /\ UNCHANGED <<pot, configs, members, pending, verified>>
           /\ pot.status = "draft" /\ \E u \in Users : members[u] = "admin"
           /\ windows \subseteq windows'
           /\ (\E q \in Requests : Updating(q)) => "updates" \in windows'
           /\ req'[r].from = pot.mode
           /\ req'[r].pc = "fields" => req'[r].mode = pot.mode
           /\ req'[r].row \/ req'[r].mode = "manual"
<1>1. PICK u \in Users, mode \in Modes, t \in Terms, withConfig \in BOOLEAN,
           c \in Configs \union {{}} : update(r, u, mode, withConfig, c, t)
  BY DEF updatePotHandler
<1> DEFINE step == IF withConfig THEN "delete config" ELSE "fields"
           x == [pc |-> step, from |-> pot.mode, mode |-> mode, row |-> hasConfigRow(mode, c),
                 terms |-> t]
<1>2. Begin(r, x)
  BY <1>1 DEF update
<1>3. hasConfigRow(mode, c) \/ mode = "manual"
  BY DEF hasConfigRow
<1>4. /\ x.pc = step /\ x.from = pot.mode /\ x.mode = mode /\ x.row = hasConfigRow(mode, c)
      /\ step \in {"delete config", "fields"} /\ (step = "fields" => ~withConfig)
  OBVIOUS
<1>5. windows \subseteq windows' /\ ((\E q \in Requests : Updating(q)) => "updates" \in windows')
  BY <1>1, WindowsGrow DEF update, Updating
<1> HIDE DEF x, step
<1>6. req[r].pc = "idle" /\ req'[r] = x /\ Same(r)
  BY <1>2, ReqFn DEF Same, Begin, Idle
<1>7. /\ UNCHANGED <<pot, configs, members, pending, verified>>
      /\ pot.status = "draft" /\ members[u] = "admin"
      /\ ~withConfig => mode = pot.mode
  BY <1>1 DEF update, assertIsAdmin, updateAllowed
<1> QED
  BY <1>3, <1>4, <1>5, <1>6, <1>7

\* An update deletes the configuration of the mode it read.
LEMMA DeleteConfigStep ==
    ASSUME TypeOK, NEW r \in Requests, deleteExistingPayoutConfig(r)
    PROVE  /\ req[r].pc = "delete config" /\ req'[r].pc = "insert config" /\ Same(r)
           /\ UNCHANGED <<pot, members, pending, verified, windows>>
           /\ configs' = configs \ {req[r].from}
           /\ req'[r].from = req[r].from /\ req'[r].mode = req[r].mode
           /\ req'[r].row = req[r].row
<1>1. req[r] \in UpdateRequest
  BY FieldsOf DEF deleteExistingPayoutConfig, At, Updating
<1> QED
  BY <1>1, ReqFn, UpdateMoves DEF deleteExistingPayoutConfig, At, Same, Begin, End, Goto, Idle

\* An update inserts the configuration of its own mode, or fails half-way.
LEMMA InsertConfigStep ==
    ASSUME TypeOK, NEW r \in Requests, insertPayoutConfig(r)
    PROVE  /\ req[r].pc = "insert config" /\ Same(r) /\ windows \subseteq windows'
           /\ UNCHANGED <<pot, members, pending, verified>>
           /\ \/ /\ req'[r].pc = "fields"
                 /\ configs' = IF req[r].row THEN configs \union {req[r].mode} ELSE configs
                 /\ req'[r].from = req[r].from /\ req'[r].mode = req[r].mode
                 /\ req'[r].row = req[r].row
              \/ /\ req'[r].pc = "idle" /\ configs' = configs
                 /\ req[r].mode \in configs \/ ~Exists \/ "updates" \in windows'
<1>1. req[r].pc = "insert config" /\ req[r] \in UpdateRequest
  BY FieldsOf DEF insertPayoutConfig, At, Updating
<1>2. CASE /\ configs' = IF req[r].row THEN configs \union {req[r].mode} ELSE configs
           /\ Goto(r, "fields") /\ UNCHANGED windows
  <2>1. /\ req'[r].pc = "fields" /\ req'[r].from = req[r].from
        /\ req'[r].mode = req[r].mode /\ req'[r].row = req[r].row
    BY <1>1, <1>2, UpdateMoves
  <2>2. Same(r)
    BY <1>2, ReqFn DEF Same, Goto
  <2> QED
    BY <1>1, <1>2, <2>1, <2>2 DEF insertPayoutConfig
<1>3. CASE End(r) /\ (req[r].mode \in configs \/ ~Exists) /\ UNCHANGED <<configs, windows>>
  BY <1>1, <1>3, ReqFn DEF insertPayoutConfig, Same, Idle, Begin, End
<1>4. CASE End(r) /\ Window("updates", TRUE) /\ UNCHANGED configs
  BY <1>1, <1>4, ReqFn DEF insertPayoutConfig, Same, Idle, Begin, End, Window
<1> QED
  BY <1>2, <1>3, <1>4 DEF insertPayoutConfig

\* An update writes the fields of the pot, its mode only where the body changes it.
LEMMA FieldsStep ==
    ASSUME TypeOK, NEW r \in Requests, updateFields(r)
    PROVE  /\ req[r].pc = "fields" /\ req'[r].pc = "idle" /\ Same(r)
           /\ UNCHANGED <<configs, members, pending, verified, windows>>
           /\ pot'.status = pot.status
           /\ Exists => pot'.mode = IF req[r].mode # req[r].from THEN req[r].mode ELSE pot.mode
<1>1. req[r].pc = "fields" /\ req'[r].pc = "idle" /\ Same(r)
  BY ReqFn DEF updateFields, At, Same, Idle, Begin, End
<1>2. pot'.status = pot.status
  BY DEF updateFields, TypeOK
<1>3. Exists => pot'.mode = IF req[r].mode # req[r].from THEN req[r].mode ELSE pot.mode
  BY DEF updateFields, TypeOK
<1> QED
  BY <1>1, <1>2, <1>3 DEF updateFields

\* A pot is deleted, opened and closed.
LEMMA DeleteStep ==
    ASSUME TypeOK, NEW r \in Requests, deletePot(r)
    PROVE  /\ req[r].pc = "delete pot" /\ req'[r].pc = "idle" /\ Same(r)
           /\ verified' = verified /\ windows \subseteq windows'
           /\ \/ UNCHANGED <<pot, configs, members, pending>>
              \/ /\ pot'.status = "deleted"
                 /\ \A u \in Users : pending'[u] = "none"
<1>1. req[r].pc = "delete pot" /\ req'[r].pc = "idle" /\ Same(r)
  BY ReqFn DEF deletePot, At, Same, Idle, Begin, End
<1>2. [NoPot EXCEPT !.status = "deleted"].status = "deleted"
  BY DEF NoPot
<1>3. windows \subseteq windows'
  BY WindowsGrow DEF deletePot
<1> QED
  BY <1>1, <1>2, <1>3 DEF deletePot

\* A pot is opened, and whoever still works on the draft is recorded.
LEMMA OpenStep ==
    ASSUME TypeOK, NEW r \in Requests, openPot(r)
    PROVE  /\ req[r].pc = "activate" /\ req'[r].pc = "idle" /\ Same(r)
           /\ UNCHANGED <<configs, members, pending, verified>>
           /\ windows \subseteq windows' /\ (OthersDrafting(r) => "straddle" \in windows')
           /\ pot'.mode = pot.mode
           /\ pot'.status = IF Exists THEN "open" ELSE pot.status
<1>1. req[r].pc = "activate" /\ req'[r].pc = "idle" /\ Same(r)
  BY ReqFn DEF openPot, At, Same, Idle, Begin, End
<1>2. windows \subseteq windows' /\ (OthersDrafting(r) => "straddle" \in windows')
  BY WindowsGrow DEF openPot
<1>3. pot'.mode = pot.mode /\ pot'.status = IF Exists THEN "open" ELSE pot.status
  BY DEF openPot, TypeOK
<1> QED
  BY <1>1, <1>2, <1>3 DEF openPot

\* An open pot is closed and nothing else changes.
LEMMA CloseStep ==
    ASSUME TypeOK, closePotHandler
    PROVE  /\ UNCHANGED <<configs, members, pending, verified, req, windows>>
           /\ pot.status = "open" /\ pot' = [pot EXCEPT !.status = "closed"]
           /\ pot'.status = "closed" /\ pot'.mode = pot.mode
BY DEF closePotHandler, close, TypeOK

\* Next, by the groups above.
LEMMA NextSteps ==
    ASSUME Next
    PROVE  \/ closePotHandler
           \/ \E r \in Requests :
                 \/ Asking(r) \/ Demanding(r) \/ contributeHandler(r) \/ insertContribution(r)
                 \/ Peopling(r) \/ insertPending(r) \/ writeRemoved(r) \/ Verifying(r)
                 \/ createPotHandler(r) \/ createConfig(r) \/ createAdmin(r)
                 \/ updatePotHandler(r) \/ deleteExistingPayoutConfig(r)
                 \/ insertPayoutConfig(r) \/ updateFields(r) \/ deletePot(r) \/ openPot(r)
BY DEF Next, authenticated, continue, Asking, Demanding, Peopling, Verifying
-----------------------------------------------------------------------------
(* Creation *)

\* Once someone is a member, the pot is no longer in draft, or a request is at a step
\* only an admin's request gets to, the creation is over.
LEMMA Established ==
    ASSUME CreatedAlone,
           \/ \E u \in Users : members[u] # "none"
           \/ pot.status \notin {"none", "draft"}
           \/ \E r \in Requests : req[r].pc \notin {"idle", "pending rows", "config", "admin"}
    PROVE  pot.status # "none" /\ \A q \in Requests : ~Creating(q)
<1>1. CASE \E u \in Users : members[u] # "none"
  BY <1>1 DEF CreatedAlone, Unpeopled
<1>2. CASE pot.status \notin {"none", "draft"}
  BY <1>2 DEF CreatedAlone
<1>3. ASSUME NEW r \in Requests, req[r].pc \notin {"idle", "pending rows", "config", "admin"}
      PROVE  pot.status # "none" /\ \A q \in Requests : ~Creating(q)
  <2>1. pot.status # "none"
    BY <1>3 DEF CreatedAlone, Unpeopled
  <2>2. ASSUME NEW q \in Requests, Creating(q) PROVE FALSE
    <3>1. r # q
      BY <1>3, <2>2 DEF Creating
    <3> QED
      BY <1>3, <2>2, <3>1 DEF CreatedAlone, Unpeopled
  <2> QED
    BY <2>1, <2>2
<1> QED
  BY <1>1, <1>2, <1>3

\* The creation stays over.
LEMMA StaysOver ==
    ASSUME pot'.status # "none", NEW r \in Requests, Same(r),
           \A q \in Requests : ~Creating(q), req'[r].pc \notin {"config", "admin"}
    PROVE  CreatedAlone'
BY DEF CreatedAlone, Creating, Same

\* Nothing is there at first.
LEMMA InitInv == Init => Inv
<1> SUFFICES ASSUME Init PROVE Inv
  OBVIOUS
<1>1. TypeOK
  BY InitType
<1>2. \A r \in Requests : req[r].pc = "idle"
  BY DEF Init, Idle
<1>3. pot.status = "none"
  BY DEF Init, NoPot
<1>4. CreatedAlone
  BY <1>2, <1>3 DEF CreatedAlone, Unpeopled, Creating, Init
<1>5. AdminLeft /\ ConfigFits
  BY <1>3 DEF AdminLeft, ConfigFits, Exists
<1>6. RowsByMode /\ NoneDrafting
  BY <1>2, <1>3 DEF RowsByMode, Creating, Updating, NoneDrafting
<1>7. JoinedOnce
  BY <1>2, <1>3 DEF JoinedOnce, Joining, Exists, Init, Invited
<1> QED
  BY <1>1, <1>4, <1>5, <1>6, <1>7 DEF Inv

\* Every step keeps the creation to itself.
LEMMA NextCreated ==
    ASSUME TypeOK, CreatedAlone, Next
    PROVE  CreatedAlone'
<1>1. CASE closePotHandler
  <2>1. pot.status # "none" /\ \A q \in Requests : ~Creating(q)
    BY <1>1, CloseStep, Established
  <2> QED
    BY <1>1, <2>1, CloseStep DEF CreatedAlone, Creating
<1>2. ASSUME NEW r \in Requests, Asking(r) \/ Demanding(r) \/ updatePotHandler(r)
      PROVE  CreatedAlone'
  <2>1. \E u \in Users : members[u] # "none"
    BY <1>2, AskingStep, DemandingStep, UpdateStep
  <2>2. pot.status # "none" /\ \A q \in Requests : ~Creating(q)
    BY <2>1, Established
  <2>3. Same(r) /\ req'[r].pc \notin {"config", "admin"} /\ pot' = pot
    BY <1>2, AskingStep, DemandingStep, UpdateStep
  <2> QED
    BY <2>2, <2>3, StaysOver
<1>3. ASSUME NEW r \in Requests, contributeHandler(r) \/ insertContribution(r)
      PROVE  CreatedAlone'
  <2>1. pot.status # "none" /\ \A q \in Requests : ~Creating(q)
    BY <1>3, ContributionStep, Established
  <2>2. Same(r) /\ req'[r].pc \notin {"config", "admin"} /\ pot' = pot
    BY <1>3, ContributionStep
  <2> QED
    BY <2>1, <2>2, StaysOver
<1>4. ASSUME NEW r \in Requests,
             Peopling(r) \/ insertPending(r) \/ writeRemoved(r)
               \/ deleteExistingPayoutConfig(r) \/ insertPayoutConfig(r)
      PROVE  CreatedAlone'
  <2>1. /\ req[r].pc \notin {"idle", "pending rows", "config", "admin"}
        /\ Same(r) /\ req'[r].pc \notin {"config", "admin"} /\ pot' = pot
    BY <1>4, PeoplingStep, InvitingStep, DeleteConfigStep, InsertConfigStep
  <2>2. pot.status # "none" /\ \A q \in Requests : ~Creating(q)
    BY <2>1, Established
  <2> QED
    BY <2>1, <2>2, StaysOver
<1>5. ASSUME NEW r \in Requests, updateFields(r) \/ deletePot(r) \/ openPot(r)
      PROVE  CreatedAlone'
  <2>1. /\ req[r].pc \notin {"idle", "pending rows", "config", "admin"}
        /\ Same(r) /\ req'[r].pc \notin {"config", "admin"}
        /\ pot'.status \in {pot.status, "deleted", "open"}
    BY <1>5, FieldsStep, DeleteStep, OpenStep
  <2>2. pot.status # "none" /\ \A q \in Requests : ~Creating(q)
    BY <2>1, Established
  <2> QED
    BY <2>1, <2>2, StaysOver
<1>6. ASSUME NEW r \in Requests, Verifying(r)
      PROVE  CreatedAlone'
  <2>1. CASE req[r].pc = "join"
    <3>1. pot.status # "none" /\ \A q \in Requests : ~Creating(q)
      BY <2>1, Established
    <3> QED
      <4>1. Same(r) /\ pot' = pot /\ req'[r].pc \notin {"config", "admin"}
        BY <1>6, VerifyingStep
      <4> QED
        BY <3>1, <4>1, StaysOver
  <2>2. CASE req[r].pc # "join"
    <3>1. /\ UNCHANGED <<pot, configs, members, pending>> /\ Same(r)
          /\ req[r].pc \in {"idle", "pending rows"}
          /\ req'[r].pc \in {"idle", "pending rows", "join"}
          /\ req'[r].pc = "join" => \E u \in Users : pending[u] # "none"
      BY <1>6, <2>2, VerifyingStep DEF Invited
    <3>2. pot.status = "none" => Unpeopled(Requests)'
      BY <3>1 DEF CreatedAlone, Unpeopled, Same
    <3>3. ASSUME NEW q \in Requests, Creating(q)'
          PROVE  pot.status = "draft" /\ Unpeopled(Requests \ {q})'
      <4>1. q # r /\ Creating(q)
        BY <3>1, <3>3 DEF Creating, Same
      <4>2. pot.status = "draft" /\ Unpeopled(Requests \ {q})
        BY <4>1 DEF CreatedAlone
      <4> QED
        BY <3>1, <4>1, <4>2 DEF Unpeopled, Same
    <3> QED
      BY <3>1, <3>2, <3>3 DEF CreatedAlone
  <2> QED
    BY <2>1, <2>2
<1>7. ASSUME NEW r \in Requests, createPotHandler(r)
      PROVE  CreatedAlone'
  <2>1. /\ req[r].pc = "idle" /\ Same(r) /\ pot.status = "none" /\ pot'.status = "draft"
        /\ UNCHANGED <<members, pending>>
    BY <1>7, CreateStep
  <2>2. Unpeopled(Requests)
    BY <2>1 DEF CreatedAlone
  <2>3. ASSUME NEW q \in Requests, Creating(q)'
        PROVE  q = r /\ Unpeopled(Requests \ {r})'
    BY <2>1, <2>2, <2>3 DEF Unpeopled, Same, Creating
  <2> QED
    BY <2>1, <2>3 DEF CreatedAlone
<1>8. ASSUME NEW r \in Requests, createConfig(r)
      PROVE  CreatedAlone'
  <2>1. /\ req[r].pc = "config" /\ Same(r) /\ UNCHANGED <<pot, members, pending>>
        /\ req'[r].pc \in {"idle", "admin"}
    BY <1>8, CreateConfigStep
  <2>2. pot.status = "draft" /\ Unpeopled(Requests \ {r})
    BY <2>1 DEF CreatedAlone, Creating
  <2>3. ASSUME NEW q \in Requests, Creating(q)'
        PROVE  q = r /\ Unpeopled(Requests \ {r})'
    BY <2>1, <2>2, <2>3 DEF Unpeopled, Same, Creating
  <2> QED
    BY <2>1, <2>2, <2>3 DEF CreatedAlone
<1>9. ASSUME NEW r \in Requests, createAdmin(r)
      PROVE  CreatedAlone'
  <2>1. req[r].pc = "admin" /\ req'[r].pc = "idle" /\ Same(r) /\ pot' = pot
    BY <1>9, CreateAdminStep
  <2>2. pot.status = "draft" /\ Unpeopled(Requests \ {r})
    BY <2>1 DEF CreatedAlone, Creating
  <2>3. \A q \in Requests : ~Creating(q)'
    BY <2>1, <2>2 DEF Unpeopled, Same, Creating
  <2> QED
    BY <2>1, <2>2, <2>3 DEF CreatedAlone
<1> QED
  BY <1>1, <1>2, <1>3, <1>4, <1>5, <1>6, <1>7, <1>8, <1>9, NextSteps
-----------------------------------------------------------------------------
(* Rows, and who is drafting *)

\* Every step keeps what a request without a row is for.
LEMMA NextRows ==
    ASSUME TypeOK, RowsByMode, Next
    PROVE  RowsByMode'
<1>1. CASE closePotHandler
  BY <1>1, CloseStep DEF RowsByMode, Creating, Updating
<1>2. ASSUME NEW r \in Requests, Same(r),
             ~(Creating(r)' \/ Updating(r)') \/ req'[r].row \/ req'[r].mode = "manual"
      PROVE  RowsByMode'
  BY <1>2 DEF RowsByMode, Creating, Updating, Same
<1>3. ASSUME NEW r \in Requests,
             Asking(r) \/ Demanding(r) \/ contributeHandler(r) \/ insertContribution(r)
               \/ Peopling(r) \/ insertPending(r) \/ writeRemoved(r) \/ Verifying(r)
               \/ createAdmin(r) \/ updateFields(r) \/ deletePot(r) \/ openPot(r)
      PROVE  RowsByMode'
  <2>1. Same(r) /\ req'[r].pc \notin {"config", "admin", "delete config", "insert config", "fields"}
    <3>1. CASE \/ Asking(r) \/ Demanding(r) \/ contributeHandler(r) \/ insertContribution(r)
               \/ Peopling(r)
      BY <3>1, AskingStep, DemandingStep, ContributionStep, PeoplingStep
    <3>2. CASE \/ insertPending(r) \/ writeRemoved(r) \/ Verifying(r)
               \/ createAdmin(r) \/ updateFields(r) \/ deletePot(r) \/ openPot(r)
      BY <3>2, InvitingStep, VerifyingStep, CreateAdminStep, FieldsStep, DeleteStep, OpenStep
    <3> QED
      BY <1>3, <3>1, <3>2
  <2> QED
    BY <2>1, <1>2 DEF Creating, Updating
<1>4. ASSUME NEW r \in Requests, createPotHandler(r) \/ updatePotHandler(r)
      PROVE  RowsByMode'
  BY <1>4, <1>2, CreateStep, UpdateStep
<1>5. ASSUME NEW r \in Requests,
             createConfig(r) \/ deleteExistingPayoutConfig(r) \/ insertPayoutConfig(r)
      PROVE  RowsByMode'
  <2>1. /\ Same(r) /\ req[r].pc \in {"config", "delete config", "insert config"}
        /\ req'[r].pc = "idle" \/ (req'[r].row = req[r].row /\ req'[r].mode = req[r].mode)
    BY <1>5, CreateConfigStep, DeleteConfigStep, InsertConfigStep
  <2>2. req[r].row \/ req[r].mode = "manual"
    BY <2>1 DEF RowsByMode, Creating, Updating
  <2> QED
    BY <2>1, <2>2, <1>2 DEF Creating, Updating
<1> QED
  BY <1>1, <1>3, <1>4, <1>5, NextSteps

\* Every step keeps the open pot free of those who saw it in draft.
LEMMA NextDrafting ==
    ASSUME TypeOK, NoneDrafting, Next
    PROVE  NoneDrafting'
<1>1. CASE closePotHandler
  BY <1>1, CloseStep DEF NoneDrafting
<1>2. ASSUME NEW r \in Requests, Same(r), windows \subseteq windows',
             pot'.status = pot.status \/ pot'.status \in {"draft", "deleted"},
             req'[r].pc \notin Drafting \/ pot'.status = "draft" \/ req[r].pc \in Drafting
      PROVE  NoneDrafting'
  BY <1>2 DEF NoneDrafting, Same
<1>3. ASSUME NEW r \in Requests, Asking(r) \/ Demanding(r) \/ updatePotHandler(r)
      PROVE  NoneDrafting'
  <2>1. Same(r) /\ windows \subseteq windows' /\ pot' = pot /\ pot.status = "draft"
    BY <1>3, AskingStep, DemandingStep, UpdateStep
  <2> QED
    BY <2>1, <1>2
<1>4. ASSUME NEW r \in Requests,
             contributeHandler(r) \/ insertContribution(r) \/ Peopling(r)
               \/ insertPending(r) \/ writeRemoved(r) \/ Verifying(r)
               \/ createAdmin(r) \/ updateFields(r) \/ deletePot(r)
      PROVE  NoneDrafting'
  <2>1. /\ Same(r) /\ windows \subseteq windows'
        /\ req'[r].pc \in {"idle", "contribution", "pending rows", "join"}
        /\ pot'.status = pot.status \/ pot'.status = "deleted"
    BY <1>4, ContributionStep, PeoplingStep, InvitingStep, VerifyingStep, CreateAdminStep,
       FieldsStep, DeleteStep
  <2> QED
    BY <2>1, <1>2 DEF Drafting
<1>5. ASSUME NEW r \in Requests, createPotHandler(r)
      PROVE  NoneDrafting'
  BY <1>5, <1>2, CreateStep
<1>6. ASSUME NEW r \in Requests,
             createConfig(r) \/ deleteExistingPayoutConfig(r) \/ insertPayoutConfig(r)
      PROVE  NoneDrafting'
  <2>1. /\ Same(r) /\ windows \subseteq windows' /\ pot' = pot
        /\ req[r].pc \in {"config", "delete config", "insert config"}
    BY <1>6, CreateConfigStep, DeleteConfigStep, InsertConfigStep
  <2> QED
    BY <2>1, <1>2 DEF Drafting
<1>7. ASSUME NEW r \in Requests, openPot(r)
      PROVE  NoneDrafting'
  <2>1. Same(r) /\ req'[r].pc = "idle" /\ (OthersDrafting(r) => "straddle" \in windows')
    BY <1>7, OpenStep
  <2>2. "straddle" \notin windows' => \A q \in Requests : req'[q].pc \notin Drafting
    BY <2>1 DEF OthersDrafting, Same, Drafting
  <2> QED
    BY <2>2 DEF NoneDrafting
<1> QED
  BY <1>1, <1>3, <1>4, <1>5, <1>6, <1>7, NextSteps
-----------------------------------------------------------------------------
(* Admins *)

\* countAdmins counts the admins.
LEMMA AdminsCounted ==
    /\ countAdmins \in Nat
    /\ countAdmins > 0 <=> \E u \in Users : members[u] = "admin"
    /\ \A u \in Users : members[u] = "admin" /\ countAdmins > 1 => AnotherAdmin(u)
<1> DEFINE A == {u \in Users : members[u] = "admin"}
<1>1. IsFiniteSet(A) /\ Cardinality(A) \in Nat
  BY LifecycleAssumption, FS_Subset, FS_CardinalityType
<1>2. Cardinality(A) = 0 <=> A = {}
  BY <1>1, FS_EmptySet
<1>3. ASSUME NEW u \in Users, members[u] = "admin", ~AnotherAdmin(u)
      PROVE  Cardinality(A) = 1
  <2>1. A = {u}
    BY <1>3 DEF AnotherAdmin
  <2> QED
    BY <2>1, FS_Singleton
<1> QED
  BY <1>1, <1>2, <1>3 DEF countAdmins

\* Admins stay, and nobody starts or ends a demotion.
LEMMA AdminFrame ==
    ASSUME AdminLeft, NEW r \in Requests, Same(r), windows \subseteq windows',
           Exists' => Exists, r \notin Demoting, r \notin Demoting',
           Creating(r) => Creating(r)',
           \A u \in Users : members[u] = "admin" => members'[u] = "admin"
    PROVE  AdminLeft'
<1> SUFFICES ASSUME Exists', windows' \intersect {"orphan", "admins"} = {}
             PROVE  /\ (\A q \in Requests : ~Creating(q)') => \E u \in Users : members'[u] = "admin"
                    /\ \A p, q \in Demoting' : p = q
                    /\ \A q \in Demoting' :
                          (req'[q].pc = "role" => req'[q].role = "member")
                             => AnotherAdmin(req[q].target)'
  BY DEF AdminLeft, Exists
<1>1. /\ (\A q \in Requests : ~Creating(q)) => \E u \in Users : members[u] = "admin"
      /\ \A p, q \in Demoting : p = q
      /\ \A q \in Demoting :
            (req[q].pc = "role" => req[q].role = "member") => AnotherAdmin(req[q].target)
  BY DEF AdminLeft
<1>2. Demoting' = Demoting /\ \A q \in Demoting : req'[q] = req[q]
  BY DEF Demoting, Same
<1>3. (\A q \in Requests : ~Creating(q)') => \A q \in Requests : ~Creating(q)
  BY DEF Creating, Same
<1>4. \A q \in Demoting' : (req'[q].pc = "role" => req'[q].role = "member")
                             => AnotherAdmin(req[q].target)'
  BY <1>1, <1>2 DEF AnotherAdmin
<1> QED
  BY <1>1, <1>2, <1>3, <1>4

\* Every step leaves an admin.
LEMMA NextAdmins ==
    ASSUME TypeOK, TypeOK', CreatedAlone, AdminLeft, Next
    PROVE  AdminLeft'
<1>1. CASE closePotHandler
  <2>1. /\ UNCHANGED <<members, req, windows>> /\ Exists
    BY <1>1, CloseStep DEF Exists
  <2> QED
    BY <2>1 DEF AdminLeft, Demoting, Creating, AnotherAdmin
<1>2. ASSUME NEW r \in Requests,
             Asking(r) \/ contributeHandler(r) \/ insertContribution(r) \/ insertPending(r)
               \/ writeRemoved(r) \/ updatePotHandler(r) \/ deleteExistingPayoutConfig(r)
               \/ insertPayoutConfig(r)
      PROVE  AdminLeft'
  <2>1. /\ Same(r) /\ windows \subseteq windows' /\ UNCHANGED <<pot, members>>
        /\ req[r].pc \notin {"role", "remove", "config", "admin"}
        /\ req'[r].pc \notin {"role", "remove"}
    BY <1>2, AskingStep, ContributionStep, InvitingStep, UpdateStep, DeleteConfigStep,
       InsertConfigStep
  <2>2. Exists' = Exists /\ r \notin Demoting /\ r \notin Demoting' /\ ~Creating(r)
    BY <2>1 DEF Exists, Demoting, Creating
  <2> QED
    BY <2>1, <2>2, AdminFrame
<1>3. ASSUME NEW r \in Requests, updateFields(r) \/ openPot(r)
      PROVE  AdminLeft'
  <2>1. /\ Same(r) /\ windows \subseteq windows' /\ UNCHANGED members
        /\ req[r].pc \in {"fields", "activate"} /\ req'[r].pc = "idle"
        /\ Exists' => Exists
    BY <1>3, FieldsStep, OpenStep DEF Exists
  <2>2. r \notin Demoting /\ r \notin Demoting' /\ ~Creating(r)
    BY <2>1 DEF Demoting, Creating
  <2> QED
    BY <2>1, <2>2, AdminFrame
<1>4. ASSUME NEW r \in Requests, deletePot(r)
      PROVE  AdminLeft'
  <2>1. CASE pot'.status = "deleted"
    BY <2>1 DEF AdminLeft, Exists
  <2>2. CASE pot'.status # "deleted"
    <3>1. /\ Same(r) /\ windows \subseteq windows' /\ UNCHANGED <<pot, members>>
          /\ req[r].pc = "delete pot" /\ req'[r].pc = "idle"
      BY <1>4, <2>2, DeleteStep
    <3>2. Exists' = Exists /\ r \notin Demoting /\ r \notin Demoting' /\ ~Creating(r)
      BY <3>1 DEF Exists, Demoting, Creating
    <3> QED
      BY <3>1, <3>2, AdminFrame
  <2> QED
    BY <2>1, <2>2
<1>5. ASSUME NEW r \in Requests, Verifying(r)
      PROVE  AdminLeft'
  <2>1. /\ Same(r) /\ windows \subseteq windows' /\ UNCHANGED pot
        /\ req[r].pc \in {"idle", "pending rows", "join"}
        /\ req'[r].pc \in {"idle", "pending rows", "join"}
    BY <1>5, VerifyingStep
  <2>2. \A u \in Users : members[u] = "admin" => members'[u] = "admin"
    <3>1. CASE activateForEmail(r)
      BY <3>1 DEF activateForEmail, isMember, TypeOK
    <3>2. CASE UNCHANGED members
      BY <3>2
    <3> QED
      BY <1>5, <3>1, <3>2 DEF Verifying, verifyEmail, readPending, activationFails
  <2>3. Exists' = Exists /\ r \notin Demoting /\ r \notin Demoting' /\ ~Creating(r)
    BY <2>1 DEF Exists, Demoting, Creating
  <2> QED
    BY <2>1, <2>2, <2>3, AdminFrame
<1>6. ASSUME NEW r \in Requests, insertMember(r)
      PROVE  AdminLeft'
  <2>1. /\ Same(r) /\ windows \subseteq windows' /\ UNCHANGED pot
        /\ req[r].pc = "insert member" /\ req'[r].pc = "idle"
    BY <1>6, PeoplingStep DEF Peopling, insertMember, At
  <2>2. \A u \in Users : members[u] = "admin" => members'[u] = "admin"
    BY <1>6 DEF insertMember, isMember, TypeOK
  <2>3. Exists' = Exists /\ r \notin Demoting /\ r \notin Demoting' /\ ~Creating(r)
    BY <2>1 DEF Exists, Demoting, Creating
  <2> QED
    BY <2>1, <2>2, <2>3, AdminFrame
<1>7. ASSUME NEW r \in Requests, createPotHandler(r)
      PROVE  AdminLeft'
  <2>1. /\ req'[r].pc = "config" /\ Same(r) /\ pot.status = "none"
    BY <1>7, CreateStep
  <2>2. Unpeopled(Requests)
    BY <2>1 DEF CreatedAlone
  <2>3. Creating(r)' /\ Demoting' = {}
    BY <2>1, <2>2 DEF Unpeopled, Same, Creating, Demoting
  <2> QED
    BY <2>3 DEF AdminLeft
<1>8. ASSUME NEW r \in Requests, createConfig(r)
      PROVE  AdminLeft'
  <2>1. CASE "orphan" \in windows'
    BY <2>1 DEF AdminLeft
  <2>2. CASE "orphan" \notin windows'
    <3>1. /\ req[r].pc = "config" /\ Same(r) /\ UNCHANGED <<pot, members, windows>>
          /\ req'[r].pc = "admin"
      BY <1>8, <2>2, CreateConfigStep
    <3>2. /\ Exists' = Exists /\ r \notin Demoting /\ r \notin Demoting' /\ Creating(r)'
          /\ windows \subseteq windows'
      BY <3>1 DEF Exists, Demoting, Creating
    <3> QED
      BY <3>1, <3>2, AdminFrame
  <2> QED
    BY <2>1, <2>2
<1>9. ASSUME NEW r \in Requests, createAdmin(r)
      PROVE  AdminLeft'
  <2>1. /\ req[r].pc = "admin" /\ req'[r].pc = "idle" /\ Same(r)
        /\ members'[Creator] = "admin" /\ Creator \in Users
    BY <1>9, CreateAdminStep, LifecycleAssumption
  <2>2. Unpeopled(Requests \ {r})
    BY <2>1 DEF CreatedAlone, Creating
  <2>3. Demoting' = {}
    BY <2>1, <2>2 DEF Unpeopled, Same, Demoting
  <2> QED
    BY <2>1, <2>3 DEF AdminLeft
<1>10. ASSUME NEW r \in Requests, Demanding(r)
       PROVE  AdminLeft'
  <2>1. /\ req[r].pc = "idle" /\ Same(r) /\ req'[r].pc \in {"role", "remove"}
        /\ UNCHANGED <<pot, members>>
        /\ \E u \in Users : members[u] # "none"
        /\ windows \subseteq windows' /\ (Demoting # {} => "admins" \in windows')
        /\ req'[r].target \in Users
        /\ (req'[r].pc = "role" => req'[r].role = "member") => keepsAnAdmin(req'[r].target)
    BY <1>10, DemandingStep
  <2>2. SUFFICES ASSUME Exists', windows' \intersect {"orphan", "admins"} = {}
                 PROVE  /\ \E u \in Users : members'[u] = "admin"
                        /\ \A p, q \in Demoting' : p = q
                        /\ \A q \in Demoting' :
                              (req'[q].pc = "role" => req'[q].role = "member")
                                 => AnotherAdmin(req[q].target)'
    BY DEF AdminLeft, Exists
  <2>3. \A q \in Requests : ~Creating(q)
    BY <2>1, Established
  <2>4. \E u \in Users : members[u] = "admin"
    BY <2>1, <2>2, <2>3 DEF AdminLeft, Exists
  <2>5. Demoting = {}
    BY <2>1, <2>2
  <2>6. Demoting' = {r}
    BY <2>1, <2>5 DEF Demoting, Same
  <2>7. ASSUME keepsAnAdmin(req'[r].target) PROVE AnotherAdmin(req'[r].target)
    <3> DEFINE t == req'[r].target
    <3>1. t \in Users /\ (members[t] = "admin" => countAdmins > 1)
      BY <2>1, <2>7 DEF keepsAnAdmin
    <3> HIDE DEF t
    <3>2. CASE members[t] = "admin"
      BY <3>1, <3>2, AdminsCounted DEF t
    <3>3. CASE members[t] # "admin"
      BY <2>4, <3>3 DEF AnotherAdmin, t
    <3> QED
      BY <3>2, <3>3
  <2>8. (req'[r].pc = "role" => req'[r].role = "member") => AnotherAdmin(req[r].target)'
    BY <2>1, <2>7 DEF AnotherAdmin
  <2> QED
    BY <2>1, <2>4, <2>6, <2>8
<1>11. ASSUME NEW r \in Requests, writeRole(r) \/ deleteMember(r)
       PROVE  AdminLeft'
  <2>1. /\ req[r].pc \in {"role", "remove"} /\ req'[r].pc = "idle" /\ Same(r)
        /\ UNCHANGED <<pot, windows>>
    BY <1>11, PeoplingStep DEF Peopling, writeRole, deleteMember, At
  <2>2. SUFFICES ASSUME Exists, windows \intersect {"orphan", "admins"} = {}
                 PROVE  (\E u \in Users : members'[u] = "admin") /\ Demoting' = {}
    BY <2>1 DEF AdminLeft, Exists
  <2>3. /\ \A p, q \in Demoting : p = q
        /\ r \in Demoting
        /\ (req[r].pc = "role" => req[r].role = "member") => AnotherAdmin(req[r].target)
    BY <2>1, <2>2 DEF AdminLeft, Demoting
  <2>4. Demoting' = {}
    BY <2>1, <2>3 DEF Demoting, Same
  <2>5. \A q \in Requests : ~Creating(q)
    BY <2>1, Established
  <2>6. \E u \in Users : members[u] = "admin"
    BY <2>2, <2>5 DEF AdminLeft
  <2>7. /\ req[r].pc = "role" => req[r].role \in Roles
        /\ req[r].target \in Users
    BY <2>1, FieldsOf DEF RoleRequest, TargetRequest
  <2>8. CASE req[r].pc = "role" => req[r].role = "member"
    <3>1. PICK v \in Users \ {req[r].target} : members[v] = "admin"
      BY <2>3, <2>8 DEF AnotherAdmin
    <3>2. members'[v] = "admin"
      BY <1>11, <3>1 DEF writeRole, deleteMember, TypeOK
    <3> QED
      BY <2>4, <3>2
  <2>9. CASE req[r].pc = "role" /\ req[r].role = "admin"
    <3>1. writeRole(r)
      BY <1>11, <2>9 DEF deleteMember, At
    <3>2. \A u \in Users : members[u] = "admin" => members'[u] = "admin"
      BY <2>7, <2>9, <3>1 DEF writeRole, TypeOK
    <3> QED
      BY <2>4, <2>6, <3>2
  <2> QED
    BY <2>7, <2>8, <2>9 DEF Roles
<1> QED
  BY <1>1, <1>2, <1>3, <1>4, <1>5, <1>6, <1>7, <1>8, <1>9, <1>10, <1>11, NextSteps
     DEF Peopling
-----------------------------------------------------------------------------
(* Configurations *)

\* A step that is no part of a creation or an update leaves the configuration alone.
LEMMA ConfigFrame ==
    ASSUME ConfigFits, NEW r \in Requests, Same(r), windows \subseteq windows',
           Exists' => Exists, configs' = configs, pot'.mode = pot.mode,
           ~Creating(r) \/ req[r].pc = "admin", ~Updating(r),
           ~Creating(r)', ~Updating(r)'
    PROVE  ConfigFits'
<1> SUFFICES ASSUME Exists', windows' \intersect {"orphan", "updates"} = {}
             PROVE  /\ \A p, q \in Requests : Updating(p)' /\ Updating(q)' => p = q
                    /\ \A q \in Requests : Updating(q)' => req'[q].from = pot'.mode
                    /\ \A q \in Requests : Creating(q)' => req'[q].mode = pot'.mode
                    /\ \A q \in Requests :
                          req'[q].pc \in {"config", "insert config"} => configs' = {}
                    /\ \A q \in Requests : req'[q].pc = "fields" => ConfigOf(req[q].mode)'
                    /\ (\A q \in Requests : req'[q].pc \notin {"config", "insert config", "fields"})
                          => ConfigOf(pot.mode)'
  BY DEF ConfigFits
<1>1. Exists /\ windows \intersect {"orphan", "updates"} = {}
  OBVIOUS
<1>2. \A q \in Requests : Updating(q)' => Updating(q) /\ req'[q] = req[q]
  BY DEF Same, Updating
<1>3. \A q \in Requests : Creating(q)' => Creating(q) /\ req'[q] = req[q]
  BY DEF Same, Creating
<1>4. \A q \in Requests : req'[q].pc \in {"config", "insert config", "fields"} =>
          req'[q] = req[q]
  BY <1>2, <1>3 DEF Updating, Creating
<1>6. (\A q \in Requests : req'[q].pc \notin {"config", "insert config", "fields"})
         => \A q \in Requests : req[q].pc \notin {"config", "insert config", "fields"}
  BY DEF Same, Creating, Updating
<1>7. /\ \A p, q \in Requests : Updating(p) /\ Updating(q) => p = q
      /\ \A q \in Requests : Updating(q) => req[q].from = pot.mode
      /\ \A q \in Requests : Creating(q) => req[q].mode = pot.mode
      /\ \A q \in Requests : req[q].pc \in {"config", "insert config"} => configs = {}
      /\ \A q \in Requests : req[q].pc = "fields" => ConfigOf(req[q].mode)
      /\ (\A q \in Requests : req[q].pc \notin {"config", "insert config", "fields"})
            => ConfigOf(pot.mode)
  BY <1>1 DEF ConfigFits
<1>8. /\ \A p, q \in Requests : Updating(p)' /\ Updating(q)' => p = q
      /\ \A q \in Requests : Updating(q)' => req'[q].from = pot'.mode
      /\ \A q \in Requests : Creating(q)' => req'[q].mode = pot'.mode
  BY <1>2, <1>3, <1>7
<1>9. \A q \in Requests : req'[q].pc \in {"config", "insert config"} => configs' = {}
  BY <1>4, <1>7
<1>10. \A q \in Requests : req'[q].pc = "fields" => ConfigOf(req[q].mode)'
  BY <1>4, <1>7 DEF ConfigOf
<1>11. (\A q \in Requests : req'[q].pc \notin {"config", "insert config", "fields"})
         => ConfigOf(pot.mode)'
  BY <1>6, <1>7 DEF ConfigOf
<1> QED
  BY <1>8, <1>9, <1>10, <1>11

\* What ConfigFits says when its premise holds.
LEMMA ConfigFacts ==
    ASSUME ConfigFits, Exists, windows \intersect {"orphan", "updates"} = {}
    PROVE  /\ \A p, q \in Requests : Updating(p) /\ Updating(q) => p = q
           /\ \A q \in Requests : Updating(q) => req[q].from = pot.mode
           /\ \A q \in Requests : Creating(q) => req[q].mode = pot.mode
           /\ \A q \in Requests : req[q].pc \in {"config", "insert config"} => configs = {}
           /\ \A q \in Requests : req[q].pc = "fields" => ConfigOf(req[q].mode)
           /\ (\A q \in Requests : req[q].pc \notin {"config", "insert config", "fields"})
                 => ConfigOf(pot.mode)
BY DEF ConfigFits

\* A step of the one creation, or of the one update, that leaves no other.
LEMMA ConfigAlone ==
    ASSUME NEW r \in Requests, \A q \in Requests \ {r} : ~Updating(q)' /\ ~Creating(q)',
           Updating(r)' => req'[r].from = pot'.mode,
           Creating(r)' => req'[r].mode = pot'.mode,
           req'[r].pc \in {"config", "insert config"} => configs' = {},
           req'[r].pc = "fields" => ConfigOf(req[r].mode)',
           req'[r].pc \notin {"config", "insert config", "fields"} => ConfigOf(pot.mode)'
    PROVE  ConfigFits'
<1>1. \A q \in Requests \ {r} : req'[q].pc \notin {"config", "admin", "delete config", "insert config", "fields"}
  BY DEF Updating, Creating
<1>2. /\ \A p, q \in Requests : Updating(p)' /\ Updating(q)' => p = q
      /\ \A q \in Requests : Updating(q)' => req'[q].from = pot'.mode
      /\ \A q \in Requests : Creating(q)' => req'[q].mode = pot'.mode
  OBVIOUS
<1>3. /\ \A q \in Requests : req'[q].pc \in {"config", "insert config"} => configs' = {}
      /\ \A q \in Requests : req'[q].pc = "fields" => ConfigOf(req[q].mode)'
      /\ (\A q \in Requests : req'[q].pc \notin {"config", "insert config", "fields"})
            => ConfigOf(pot.mode)'
  BY <1>1
<1> QED
  BY <1>2, <1>3 DEF ConfigFits

\* Every step keeps the configuration to the mode.
LEMMA NextConfigs ==
    ASSUME TypeOK, CreatedAlone, RowsByMode, ConfigFits, Next
    PROVE  ConfigFits'
<1>0. \A r \in Requests : Same(r) /\ (\A q \in Requests \ {r} : ~Updating(q) /\ ~Creating(q))
        => \A q \in Requests \ {r} : ~Updating(q)' /\ ~Creating(q)'
  BY DEF Same, Updating, Creating
<1>1. CASE closePotHandler
  <2>1. /\ UNCHANGED <<configs, req, windows>> /\ Exists /\ pot'.mode = pot.mode
    BY <1>1, CloseStep DEF Exists
  <2> QED
    BY <2>1 DEF ConfigFits, ConfigOf, Creating, Updating
<1>2. ASSUME NEW r \in Requests,
             Asking(r) \/ Demanding(r) \/ contributeHandler(r) \/ insertContribution(r)
               \/ Peopling(r) \/ insertPending(r) \/ writeRemoved(r) \/ Verifying(r)
               \/ createAdmin(r)
      PROVE  ConfigFits'
  <2>1. /\ Same(r) /\ windows \subseteq windows' /\ UNCHANGED <<pot, configs>>
        /\ req[r].pc \notin {"config", "delete config", "insert config", "fields"}
        /\ req'[r].pc \notin {"config", "admin", "delete config", "insert config", "fields"}
    <3>1. CASE \/ Asking(r) \/ Demanding(r) \/ contributeHandler(r) \/ insertContribution(r)
               \/ Peopling(r)
      BY <3>1, AskingStep, DemandingStep, ContributionStep, PeoplingStep
    <3>2. CASE insertPending(r) \/ writeRemoved(r) \/ Verifying(r) \/ createAdmin(r)
      BY <3>2, InvitingStep, VerifyingStep, CreateAdminStep
    <3> QED
      BY <1>2, <3>1, <3>2
  <2>2. /\ Exists' = Exists /\ ~Updating(r) /\ ~Updating(r)' /\ ~Creating(r)'
        /\ ~Creating(r) \/ req[r].pc = "admin"
    BY <2>1 DEF Exists, Updating, Creating
  <2> QED
    BY <2>1, <2>2, ConfigFrame
<1>3. ASSUME NEW r \in Requests, openPot(r)
      PROVE  ConfigFits'
  <2>1. /\ Same(r) /\ windows \subseteq windows' /\ configs' = configs /\ pot'.mode = pot.mode
        /\ req[r].pc = "activate" /\ req'[r].pc = "idle" /\ (Exists' => Exists)
    BY <1>3, OpenStep DEF Exists
  <2>2. ~Updating(r) /\ ~Updating(r)' /\ ~Creating(r)' /\ ~Creating(r)
    BY <2>1 DEF Updating, Creating
  <2> QED
    BY <2>1, <2>2, ConfigFrame
<1>4. ASSUME NEW r \in Requests, deletePot(r)
      PROVE  ConfigFits'
  <2>1. CASE pot'.status = "deleted"
    BY <2>1 DEF ConfigFits, Exists
  <2>2. CASE pot'.status # "deleted"
    <3>1. /\ Same(r) /\ windows \subseteq windows' /\ UNCHANGED <<pot, configs>>
          /\ req[r].pc = "delete pot" /\ req'[r].pc = "idle"
      BY <1>4, <2>2, DeleteStep
    <3>2. Exists' = Exists /\ ~Updating(r) /\ ~Updating(r)' /\ ~Creating(r)' /\ ~Creating(r)
      BY <3>1 DEF Exists, Updating, Creating
    <3> QED
      BY <3>1, <3>2, ConfigFrame
  <2> QED
    BY <2>1, <2>2
<1>5. ASSUME NEW r \in Requests, createPotHandler(r)
      PROVE  ConfigFits'
  <2>1. /\ Same(r) /\ req'[r].pc = "config" /\ pot.status = "none"
        /\ req'[r].mode = pot'.mode /\ configs' = configs
    BY <1>5, CreateStep
  <2>2. configs = {} /\ \A q \in Requests : ~Updating(q) /\ ~Creating(q)
    BY <2>1 DEF CreatedAlone, Unpeopled, Updating, Creating
  <2>3. ~Updating(r)' /\ \A q \in Requests \ {r} : ~Updating(q)' /\ ~Creating(q)'
    BY <1>0, <2>1, <2>2 DEF Updating
  <2> QED
    BY <2>1, <2>2, <2>3, ConfigAlone
<1>6. ASSUME NEW r \in Requests, createConfig(r)
      PROVE  ConfigFits'
  <2>1. CASE "orphan" \in windows' \/ ~Exists' \/ windows' \intersect {"orphan", "updates"} # {}
    BY <2>1 DEF ConfigFits
  <2>2. CASE Exists' /\ windows' \intersect {"orphan", "updates"} = {}
    <3>1. /\ req[r].pc = "config" /\ Same(r) /\ UNCHANGED <<pot, windows>>
          /\ req'[r].pc = "admin" /\ req'[r].mode = req[r].mode
          /\ configs' = IF req[r].row THEN configs \union {req[r].mode} ELSE configs
      BY <1>6, <2>2, CreateConfigStep
    <3>2. Exists /\ Creating(r)
      BY <2>2, <3>1 DEF Exists, Creating
    <3>3. \A q \in Requests \ {r} : ~Updating(q) /\ ~Creating(q)
      BY <3>2 DEF CreatedAlone, Unpeopled, Updating, Creating
    <3>4. configs = {} /\ req[r].mode = pot.mode
      BY <2>2, <3>1, <3>2, ConfigFacts
    <3>5. req[r].row \/ req[r].mode = "manual"
      BY <3>2 DEF RowsByMode
    <3>6. ConfigOf(pot.mode)'
      BY <3>1, <3>4, <3>5 DEF ConfigOf
    <3>7. ~Updating(r)' /\ \A q \in Requests \ {r} : ~Updating(q)' /\ ~Creating(q)'
      BY <1>0, <3>1, <3>3 DEF Updating
    <3> QED
      BY <3>1, <3>4, <3>6, <3>7, ConfigAlone
  <2> QED
    BY <2>1, <2>2
<1>7. ASSUME NEW r \in Requests, updatePotHandler(r)
      PROVE  ConfigFits'
  <2>1. CASE ~Exists' \/ windows' \intersect {"orphan", "updates"} # {}
    BY <2>1 DEF ConfigFits
  <2>2. CASE Exists' /\ windows' \intersect {"orphan", "updates"} = {}
    <3>1. /\ Same(r) /\ req'[r].pc \in {"delete config", "fields"}
          /\ UNCHANGED <<pot, configs>> /\ \E u \in Users : members[u] = "admin"
          /\ windows \subseteq windows'
          /\ (\E q \in Requests : Updating(q)) => "updates" \in windows'
          /\ req'[r].from = pot.mode
          /\ req'[r].pc = "fields" => req'[r].mode = pot.mode
      BY <1>7, UpdateStep
    <3>2. \A q \in Requests : ~Updating(q) /\ ~Creating(q)
      BY <2>2, <3>1, Established
    <3>3. ConfigOf(pot.mode)
      <4>1. \A q \in Requests : req[q].pc \notin {"config", "insert config", "fields"}
        BY <3>2 DEF Updating, Creating
      <4>2. Exists /\ windows \intersect {"orphan", "updates"} = {}
        BY <2>2, <3>1 DEF Exists
      <4> QED
        BY <4>1, <4>2, ConfigFacts
    <3>4. ConfigOf(pot.mode)' /\ (req'[r].pc = "fields" => ConfigOf(req[r].mode)')
      BY <3>1, <3>3 DEF ConfigOf
    <3>5. ~Creating(r)' /\ \A q \in Requests \ {r} : ~Updating(q)' /\ ~Creating(q)'
      BY <1>0, <3>1, <3>2 DEF Creating
    <3> QED
      BY <3>1, <3>4, <3>5, ConfigAlone
  <2> QED
    BY <2>1, <2>2
<1>8. ASSUME NEW r \in Requests,
             deleteExistingPayoutConfig(r) \/ insertPayoutConfig(r) \/ updateFields(r),
             Exists', windows' \intersect {"orphan", "updates"} = {}
      PROVE  /\ Exists /\ windows \intersect {"orphan", "updates"} = {} /\ Updating(r)
             /\ Same(r) /\ \A q \in Requests \ {r} : ~Updating(q)' /\ ~Creating(q)'
             /\ req[r].from = pot.mode /\ (req[r].row \/ req[r].mode = "manual")
  <2>1. /\ req[r].pc \in {"delete config", "insert config", "fields"} /\ Same(r)
        /\ windows \subseteq windows' /\ pot'.status = pot.status
    BY <1>8, DeleteConfigStep, InsertConfigStep, FieldsStep
  <2>2. Exists /\ windows \intersect {"orphan", "updates"} = {} /\ Updating(r)
    BY <1>8, <2>1 DEF Exists, Updating
  <2>3. \A q \in Requests : ~Creating(q)
    BY <2>1, Established
  <2>4. req[r].from = pot.mode /\ \A q \in Requests : Updating(q) => q = r
    BY <2>2, ConfigFacts
  <2>5. \A q \in Requests \ {r} : ~Updating(q)' /\ ~Creating(q)'
    BY <1>0, <2>1, <2>3, <2>4
  <2> QED
    BY <2>1, <2>2, <2>4, <2>5 DEF RowsByMode
<1>9. ASSUME NEW r \in Requests, deleteExistingPayoutConfig(r)
      PROVE  ConfigFits'
  <2>1. CASE ~Exists' \/ windows' \intersect {"orphan", "updates"} # {}
    BY <2>1 DEF ConfigFits
  <2>2. CASE Exists' /\ windows' \intersect {"orphan", "updates"} = {}
    <3>1. /\ Exists /\ windows \intersect {"orphan", "updates"} = {} /\ Updating(r)
          /\ \A q \in Requests \ {r} : ~Updating(q)' /\ ~Creating(q)'
          /\ req[r].from = pot.mode
      BY <1>8, <1>9, <2>2
    <3>2. /\ req[r].pc = "delete config" /\ req'[r].pc = "insert config" /\ Same(r)
          /\ pot' = pot /\ configs' = configs \ {req[r].from} /\ req'[r].from = req[r].from
      BY <1>9, DeleteConfigStep
    <3>3. \A q \in Requests : req[q].pc \notin {"config", "insert config", "fields"}
      BY <3>1, <3>2 DEF Same, Updating, Creating
    <3>4. ConfigOf(pot.mode)
      BY <3>1, <3>3, ConfigFacts
    <3>5. configs' = {}
      BY <3>1, <3>2, <3>4 DEF ConfigOf
    <3>6. ~Creating(r)'
      BY <3>2 DEF Creating
    <3> QED
      BY <3>1, <3>2, <3>5, <3>6, ConfigAlone
  <2> QED
    BY <2>1, <2>2
<1>10. ASSUME NEW r \in Requests, insertPayoutConfig(r)
       PROVE  ConfigFits'
  <2>1. CASE ~Exists' \/ windows' \intersect {"orphan", "updates"} # {}
    BY <2>1 DEF ConfigFits
  <2>2. CASE Exists' /\ windows' \intersect {"orphan", "updates"} = {}
    <3>1. /\ Exists /\ windows \intersect {"orphan", "updates"} = {} /\ Updating(r)
          /\ \A q \in Requests \ {r} : ~Updating(q)' /\ ~Creating(q)'
          /\ req[r].from = pot.mode /\ (req[r].row \/ req[r].mode = "manual")
      BY <1>8, <1>10, <2>2
    <3>2. req[r].pc = "insert config" /\ pot' = pot
      BY <1>10, InsertConfigStep
    <3>3. configs = {}
      BY <3>1, <3>2, ConfigFacts
    <3>4. /\ req'[r].pc = "fields"
          /\ configs' = IF req[r].row THEN configs \union {req[r].mode} ELSE configs
          /\ req'[r].from = req[r].from /\ req'[r].mode = req[r].mode
      BY <1>10, <2>2, <3>1, <3>3, InsertConfigStep
    <3>5. ConfigOf(req[r].mode)'
      BY <3>1, <3>3, <3>4 DEF ConfigOf
    <3>6. ~Creating(r)'
      BY <3>4 DEF Creating
    <3> QED
      BY <3>1, <3>2, <3>4, <3>5, <3>6, ConfigAlone
  <2> QED
    BY <2>1, <2>2
<1>11. ASSUME NEW r \in Requests, updateFields(r)
       PROVE  ConfigFits'
  <2>1. CASE ~Exists' \/ windows' \intersect {"orphan", "updates"} # {}
    BY <2>1 DEF ConfigFits
  <2>2. CASE Exists' /\ windows' \intersect {"orphan", "updates"} = {}
    <3>1. /\ Exists /\ windows \intersect {"orphan", "updates"} = {} /\ Updating(r)
          /\ \A q \in Requests \ {r} : ~Updating(q)' /\ ~Creating(q)'
          /\ req[r].from = pot.mode
      BY <1>8, <1>11, <2>2
    <3>2. /\ req[r].pc = "fields" /\ req'[r].pc = "idle" /\ configs' = configs
          /\ pot'.mode = IF req[r].mode # req[r].from THEN req[r].mode ELSE pot.mode
      BY <1>11, <3>1, FieldsStep
    <3>3. ConfigOf(req[r].mode) /\ pot'.mode = req[r].mode
      BY <3>1, <3>2, ConfigFacts
    <3>4. ConfigOf(pot.mode)' /\ ~Creating(r)' /\ ~Updating(r)'
      BY <3>2, <3>3 DEF ConfigOf, Creating, Updating
    <3> QED
      BY <3>1, <3>2, <3>4, ConfigAlone
  <2> QED
    BY <2>1, <2>2
<1> QED
  BY <1>1, <1>2, <1>3, <1>4, <1>5, <1>6, <1>7, <1>9, <1>10, <1>11, NextSteps
-----------------------------------------------------------------------------
(* Invitations *)

\* A step of a request that takes up no invitation.
LEMMA JoinFrame ==
    ASSUME JoinedOnce, NEW r \in Requests, Same(r), ~Joining(r), ~Joining(r)',
           verified' = verified, windows \subseteq windows',
           Exists' /\ "invitation" \notin windows' =>
               \A q \in Requests : req[q].pc = "join" => Invited(req[q].target)',
           "invitation" \notin windows' => \A u \in verified : Invited(u)' => Invited(u)
    PROVE  JoinedOnce'
<1>1. \A q \in Requests : Joining(q)' => Joining(q) /\ req'[q] = req[q]
  BY DEF Joining, Same
<1>2. \A q \in Requests : Joining(q) => Joining(q)' /\ req'[q] = req[q]
  BY DEF Joining, Same
<1>3. \A q \in Requests : Joining(q)' => req'[q].target \in verified'
  BY <1>1 DEF JoinedOnce
<1>4. \A p, q \in Requests :
        Joining(p)' /\ Joining(q)' /\ req'[p].target = req'[q].target => p = q
  BY <1>1 DEF JoinedOnce
<1>5. Exists' /\ "invitation" \notin windows' =>
        \A q \in Requests : req'[q].pc = "join" => Invited(req[q].target)'
  BY <1>1 DEF Joining
<1>6. "invitation" \notin windows' =>
        \A u \in Users : u \in verified' /\ Invited(u)' =>
            \E q \in Requests : Joining(q)' /\ req'[q].target = u
  <2> SUFFICES ASSUME "invitation" \notin windows', NEW u \in Users, u \in verified, Invited(u)'
               PROVE  \E q \in Requests : Joining(q)' /\ req'[q].target = u
    OBVIOUS
  <2>1. PICK q \in Requests : Joining(q) /\ req[q].target = u
    BY DEF JoinedOnce
  <2> QED
    BY <1>2, <2>1
<1> QED
  BY <1>3, <1>4, <1>5, <1>6 DEF JoinedOnce

\* The request of a verification ends, with its invitation settled or a window hit.
LEMMA JoinEnds ==
    ASSUME TypeOK, JoinedOnce, NEW r \in Requests, Same(r), Joining(r), ~Joining(r)',
           UNCHANGED <<pot, verified>>, windows \subseteq windows',
           \/ "invitation" \in windows'
           \/ /\ pending'[req[r].target] \notin {"admin", "member"}
              /\ \A u \in Users \ {req[r].target} : pending'[u] = pending[u]
    PROVE  JoinedOnce'
<1>1. \A q \in Requests \ {r} : (Joining(q)' <=> Joining(q)) /\ req'[q] = req[q]
  BY DEF Joining, Same
<1>2. \A q \in Requests : Joining(q)' => q # r /\ Joining(q) /\ req'[q] = req[q]
  BY <1>1
<1>3. \A q \in Requests : Joining(q)' => req'[q].target \in verified'
  BY <1>2 DEF JoinedOnce
<1>4. \A p, q \in Requests :
        Joining(p)' /\ Joining(q)' /\ req'[p].target = req'[q].target => p = q
  BY <1>2 DEF JoinedOnce
<1>5. Exists' /\ "invitation" \notin windows' =>
        \A q \in Requests : req'[q].pc = "join" => Invited(req[q].target)'
  <2> SUFFICES ASSUME Exists', "invitation" \notin windows', NEW q \in Requests,
                      req'[q].pc = "join"
               PROVE  Invited(req[q].target)'
    OBVIOUS
  <2>1. q # r /\ Joining(q) /\ req'[q] = req[q]
    BY <1>2 DEF Joining
  <2>2. req[q].target # req[r].target
    BY <2>1 DEF JoinedOnce
  <2>3. req[q].target \in Users
    BY <2>1, FieldsOf DEF RoleRequest
  <2>4. Invited(req[q].target)
    BY <2>1 DEF JoinedOnce, Exists
  <2> QED
    BY <2>1, <2>2, <2>3, <2>4 DEF Invited
<1>6. "invitation" \notin windows' =>
        \A v \in Users : v \in verified' /\ Invited(v)' =>
            \E q \in Requests : Joining(q)' /\ req'[q].target = v
  <2> SUFFICES ASSUME "invitation" \notin windows', NEW v \in Users, v \in verified',
                      Invited(v)'
               PROVE  \E q \in Requests : Joining(q)' /\ req'[q].target = v
    OBVIOUS
  <2>1. v # req[r].target /\ Invited(v)
    BY DEF Invited
  <2>2. PICK q \in Requests : Joining(q) /\ req[q].target = v
    BY <2>1 DEF JoinedOnce
  <2>3. q # r
    BY <2>1, <2>2
  <2> QED
    BY <1>1, <2>2, <2>3
<1> QED
  BY <1>3, <1>4, <1>5, <1>6 DEF JoinedOnce

\* Every step keeps track of the invitations of those who verified.
LEMMA NextJoined ==
    ASSUME TypeOK, CreatedAlone, JoinedOnce, Next
    PROVE  JoinedOnce'
<1>0. Exists /\ "invitation" \notin windows =>
        \A q \in Requests : req[q].pc = "join" => Invited(req[q].target)
  BY DEF JoinedOnce
<1>1. CASE closePotHandler
  <2>1. UNCHANGED <<pending, verified, req, windows>> /\ Exists
    BY <1>1, CloseStep DEF Exists
  <2> QED
    BY <2>1 DEF JoinedOnce, Joining, Invited
<1>2. ASSUME NEW r \in Requests,
             Asking(r) \/ Demanding(r) \/ contributeHandler(r) \/ insertContribution(r)
               \/ Peopling(r) \/ createConfig(r) \/ createAdmin(r) \/ updatePotHandler(r)
               \/ deleteExistingPayoutConfig(r) \/ insertPayoutConfig(r)
               \/ updateFields(r) \/ openPot(r)
      PROVE  JoinedOnce'
  <2>1. /\ Same(r) /\ windows \subseteq windows' /\ UNCHANGED <<pending, verified>>
        /\ req[r].pc \notin {"pending rows", "join"}
        /\ req'[r].pc \notin {"pending rows", "join"}
        /\ Exists' => Exists
    <3>1. CASE updateFields(r) \/ openPot(r)
      BY <3>1, FieldsStep, OpenStep DEF Exists
    <3>2. CASE \/ Asking(r) \/ Demanding(r) \/ contributeHandler(r) \/ insertContribution(r)
               \/ Peopling(r)
      BY <3>2, AskingStep, DemandingStep, ContributionStep, PeoplingStep DEF Exists
    <3>3. CASE createConfig(r) \/ createAdmin(r)
      BY <3>3, CreateConfigStep, CreateAdminStep DEF Exists
    <3>4. CASE updatePotHandler(r) \/ deleteExistingPayoutConfig(r) \/ insertPayoutConfig(r)
      BY <3>4, UpdateStep, DeleteConfigStep, InsertConfigStep DEF Exists
    <3> QED
      BY <1>2, <3>1, <3>2, <3>3, <3>4
  <2>2. ~Joining(r) /\ ~Joining(r)'
    BY <2>1 DEF Joining
  <2>3. \A u : Invited(u) <=> pending[u] \in {"admin", "member"}
    BY DEF Invited
  <2>4. Exists' /\ "invitation" \notin windows' =>
          \A q \in Requests : req[q].pc = "join" => Invited(req[q].target)'
    <3> SUFFICES ASSUME Exists', "invitation" \notin windows', NEW q \in Requests,
                        req[q].pc = "join"
                 PROVE  Invited(req[q].target)'
      OBVIOUS
    <3>1. q # r /\ req'[q] = req[q] /\ Invited(req[q].target)
      BY <1>0, <2>1 DEF Same
    <3> QED
      BY <2>1, <3>1 DEF Invited
  <2>5. \A u \in verified : Invited(u)' => Invited(u)
    BY <2>1 DEF Invited
  <2> QED
    BY <2>1, <2>2, <2>4, <2>5, JoinFrame
<1>3. ASSUME NEW r \in Requests, createPotHandler(r)
      PROVE  JoinedOnce'
  <2>1. /\ Same(r) /\ windows' = windows /\ UNCHANGED <<pending, verified>>
        /\ req[r].pc = "idle" /\ req'[r].pc = "config" /\ pot.status = "none"
    BY <1>3, CreateStep
  <2>2. \A q \in Requests : req[q].pc # "join"
    BY <2>1 DEF CreatedAlone, Unpeopled
  <2>3. ~Joining(r) /\ ~Joining(r)' /\ \A u \in verified : Invited(u)' => Invited(u)
    BY <2>1 DEF Joining, Invited
  <2> QED
    BY <2>1, <2>2, <2>3, JoinFrame
<1>4. ASSUME NEW r \in Requests, deletePot(r)
      PROVE  JoinedOnce'
  <2>1. /\ Same(r) /\ windows \subseteq windows' /\ verified' = verified
        /\ req[r].pc = "delete pot" /\ req'[r].pc = "idle"
        /\ \/ UNCHANGED <<pot, pending>>
           \/ pot'.status = "deleted" /\ \A u \in Users : pending'[u] = "none"
    BY <1>4, DeleteStep
  <2>2. ~Joining(r) /\ ~Joining(r)'
    BY <2>1 DEF Joining
  <2>3. \A u \in verified : Invited(u)' => Invited(u)
    BY <2>1 DEF Invited, TypeOK
  <2>4. Exists' => UNCHANGED pending /\ Exists
    BY <2>1 DEF Exists
  <2>5. Exists' /\ "invitation" \notin windows' =>
          \A q \in Requests : req[q].pc = "join" => Invited(req[q].target)'
    <3> SUFFICES ASSUME Exists', "invitation" \notin windows', NEW q \in Requests,
                        req[q].pc = "join"
                 PROVE  Invited(req[q].target)'
      OBVIOUS
    <3>1. q # r /\ req'[q] = req[q] /\ Invited(req[q].target)
      BY <1>0, <2>1, <2>4 DEF Same
    <3> QED
      BY <2>4, <3>1 DEF Invited
  <2> QED
    BY <2>1, <2>2, <2>3, <2>5, JoinFrame
<1>5. ASSUME NEW r \in Requests, insertPending(r) \/ writeRemoved(r)
      PROVE  JoinedOnce'
  <2>1. /\ Same(r) /\ windows \subseteq windows' /\ UNCHANGED <<pot, verified>>
        /\ req[r].pc \in {"insert pending", "remove pending"} /\ req'[r].pc = "idle"
    BY <1>5, InvitingStep
  <2>2. ~Joining(r) /\ ~Joining(r)' /\ Exists' = Exists
    BY <2>1 DEF Joining, Exists
  <2>3. req[r].target \in Users /\ (req[r].pc = "insert pending" => req[r].role \in Roles)
    BY <2>1, FieldsOf DEF RoleRequest, TargetRequest
  <2>4. "invitation" \notin windows' => \A u \in verified : Invited(u)' => Invited(u)
    <3>1. CASE insertPending(r)
      <4>1. "invitation" \notin windows' => req[r].target \notin verified
        BY <3>1 DEF insertPending, Window
      <4>2. \A u \in Users : u # req[r].target => pending'[u] = pending[u]
        BY <3>1 DEF insertPending, TypeOK
      <4> QED
        BY <4>1, <4>2 DEF Invited, TypeOK
    <3>2. CASE writeRemoved(r)
      <4>1. \A u \in Users : pending'[u] = pending[u] \/ pending'[u] = "removed"
        BY <2>3, <3>2 DEF writeRemoved, TypeOK
      <4> QED
        BY <4>1 DEF Invited, TypeOK
    <3> QED
      BY <1>5, <3>1, <3>2
  <2>5. Exists' /\ "invitation" \notin windows' =>
          \A q \in Requests : req[q].pc = "join" => Invited(req[q].target)'
    <3> SUFFICES ASSUME Exists', "invitation" \notin windows', NEW q \in Requests,
                        req[q].pc = "join"
                 PROVE  Invited(req[q].target)'
      OBVIOUS
    <3>1. q # r /\ req'[q] = req[q] /\ Invited(req[q].target)
      BY <1>0, <2>1, <2>2 DEF Same
    <3>2. req[q].target \in Users
      BY FieldsOf DEF RoleRequest
    <3>3. CASE insertPending(r)
      <4>1. pending'[req[q].target] \in {pending[req[q].target], req[r].role}
        BY <2>3, <3>2, <3>3 DEF insertPending, TypeOK
      <4>2. req[r].role \in Roles
        BY <2>3, <3>3 DEF insertPending, At
      <4> QED
        BY <3>1, <4>1, <4>2 DEF Invited, Roles
    <3>4. CASE writeRemoved(r)
      <4>1. req[q].target # req[r].target
        BY <3>4 DEF writeRemoved, Window
      <4>2. pending'[req[q].target] = pending[req[q].target]
        BY <2>3, <3>2, <3>4, <4>1 DEF writeRemoved, TypeOK
      <4> QED
        BY <3>1, <4>2 DEF Invited
    <3> QED
      BY <1>5, <3>3, <3>4
  <2> QED
    BY <2>1, <2>2, <2>4, <2>5, JoinFrame
<1>6. ASSUME NEW r \in Requests, NEW u \in Users, verifyEmail(r, u)
      PROVE  JoinedOnce'
  <2>1. /\ Same(r) /\ windows' = windows /\ UNCHANGED <<pot, pending>>
        /\ req[r].pc = "idle" /\ req'[r].pc = "pending rows" /\ req'[r].target = u
        /\ verified' = verified \union {u} /\ u \notin verified
    <3> DEFINE x == [pc |-> "pending rows", target |-> u]
    <3>1. Begin(r, x)
      BY <1>6 DEF verifyEmail
    <3>2. x.pc = "pending rows" /\ x.target = u
      OBVIOUS
    <3> HIDE DEF x
    <3>3. req[r].pc = "idle" /\ req'[r] = x /\ Same(r)
      BY <3>1, ReqFn DEF Begin, Idle, Same
    <3> QED
      BY <1>6, <3>2, <3>3 DEF verifyEmail
  <2>2. Joining(r)' /\ ~Joining(r) /\ Exists' = Exists
    BY <2>1 DEF Joining, Exists
  <2>3. \A q \in Requests \ {r} : (Joining(q)' <=> Joining(q)) /\ req'[q] = req[q]
    BY <2>1 DEF Joining, Same
  <2>4. \A q \in Requests : Joining(q) => req[q].target \in verified /\ req[q].target # u
    BY <2>1 DEF JoinedOnce
  <2>5. \A q \in Requests : Joining(q)' => req'[q].target \in verified'
    BY <2>1, <2>3, <2>4
  <2>6. \A p, q \in Requests :
          Joining(p)' /\ Joining(q)' /\ req'[p].target = req'[q].target => p = q
    <3> SUFFICES ASSUME NEW p \in Requests, NEW q \in Requests, Joining(p)', Joining(q)',
                        req'[p].target = req'[q].target, p # q
                 PROVE  FALSE
      OBVIOUS
    <3>1. CASE p = r
      <4>1. q # r /\ Joining(q) /\ req'[q] = req[q]
        BY <2>3, <3>1
      <4> QED
        BY <2>1, <2>4, <3>1, <4>1
    <3>2. CASE q = r
      <4>1. p # r /\ Joining(p) /\ req'[p] = req[p]
        BY <2>3, <3>2
      <4> QED
        BY <2>1, <2>4, <3>2, <4>1
    <3>3. CASE p # r /\ q # r
      <4>1. Joining(p) /\ Joining(q) /\ req[p].target = req[q].target
        BY <2>3, <3>3
      <4> QED
        BY <4>1 DEF JoinedOnce
    <3> QED
      BY <3>1, <3>2, <3>3
  <2>7. Exists' /\ "invitation" \notin windows' =>
          \A q \in Requests : req'[q].pc = "join" => Invited(req[q].target)'
    <3> SUFFICES ASSUME Exists', "invitation" \notin windows', NEW q \in Requests,
                        req'[q].pc = "join"
                 PROVE  Invited(req[q].target)'
      OBVIOUS
    <3>1. q # r
      BY <2>1
    <3>2. req'[q] = req[q] /\ Invited(req[q].target)
      BY <1>0, <2>1, <2>2, <2>3, <3>1
    <3> QED
      BY <2>1, <3>2 DEF Invited
  <2>8. "invitation" \notin windows' =>
          \A v \in Users : v \in verified' /\ Invited(v)' =>
              \E q \in Requests : Joining(q)' /\ req'[q].target = v
    <3> SUFFICES ASSUME "invitation" \notin windows', NEW v \in Users, v \in verified',
                        Invited(v)'
                 PROVE  \E q \in Requests : Joining(q)' /\ req'[q].target = v
      OBVIOUS
    <3>1. CASE v = u
      BY <2>1, <2>2, <3>1
    <3>2. CASE v # u
      <4>1. v \in verified /\ Invited(v)
        BY <2>1, <3>2 DEF Invited
      <4>2. PICK q \in Requests : Joining(q) /\ req[q].target = v
        BY <2>1, <4>1 DEF JoinedOnce
      <4>3. q # r
        BY <2>2, <4>2
      <4> QED
        BY <2>3, <4>2, <4>3
    <3> QED
      BY <3>1, <3>2
  <2> QED
    BY <2>5, <2>6, <2>7, <2>8 DEF JoinedOnce
<1>7. ASSUME NEW r \in Requests, readPending(r)
      PROVE  JoinedOnce'
  <2>0. /\ req[r].pc = "pending rows" /\ Joining(r)
        /\ UNCHANGED <<pot, pending, verified, windows>>
    BY <1>7 DEF readPending, At, Joining
  <2>1. CASE ~Invited(req[r].target)
    <3>1. req'[r].pc = "idle" /\ Same(r)
      BY <1>7, <2>1, Ended DEF readPending
    <3>2. ~Joining(r)'
      BY <3>1 DEF Joining
    <3> QED
      BY <2>0, <2>1, <3>1, <3>2, JoinEnds DEF Invited
  <2>2. CASE Invited(req[r].target)
    <3>1. req'[r].pc = "join" /\ req'[r].target = req[r].target /\ Same(r)
      <4> DEFINE x == [pc |-> "join", target |-> req[r].target,
                       role |-> pending[req[r].target]]
      <4>1. x.pc = "join" /\ x.target = req[r].target
        OBVIOUS
      <4>2. req'[r] = x /\ Same(r)
        BY <1>7, <2>2, ReadMoves DEF Same
      <4> HIDE DEF x
      <4> QED
        BY <4>1, <4>2
    <3>2. \A q \in Requests : (Joining(q)' <=> Joining(q)) /\ (Joining(q) => req'[q].target = req[q].target)
      BY <2>0, <3>1 DEF Same, Joining
    <3>3. Exists' = Exists
      BY <2>0 DEF Exists
    <3>4. Exists' /\ "invitation" \notin windows' =>
            \A q \in Requests : req'[q].pc = "join" => Invited(req[q].target)'
      <4> SUFFICES ASSUME Exists', "invitation" \notin windows', NEW q \in Requests,
                          req'[q].pc = "join"
                   PROVE  Invited(req[q].target)'
        OBVIOUS
      <4>1. Invited(req[q].target) /\ req'[q].target = req[q].target
        BY <1>0, <2>0, <2>2, <3>1, <3>3 DEF Same
      <4> QED
        BY <2>0, <4>1 DEF Invited
    <3>5. /\ \A q \in Requests : Joining(q)' => req'[q].target \in verified'
          /\ \A p, q \in Requests :
                Joining(p)' /\ Joining(q)' /\ req'[p].target = req'[q].target => p = q
      BY <2>0, <3>2 DEF JoinedOnce
    <3>6. "invitation" \notin windows' =>
            \A v \in Users : v \in verified' /\ Invited(v)' =>
                \E q \in Requests : Joining(q)' /\ req'[q].target = v
      <4> SUFFICES ASSUME "invitation" \notin windows', NEW v \in Users, v \in verified',
                          Invited(v)'
                   PROVE  \E q \in Requests : Joining(q)' /\ req'[q].target = v
        OBVIOUS
      <4>1. v \in verified /\ Invited(v)
        BY <2>0 DEF Invited
      <4>2. PICK q \in Requests : Joining(q) /\ req[q].target = v
        BY <2>0, <4>1 DEF JoinedOnce
      <4> QED
        BY <3>2, <4>2
    <3> QED
      BY <3>4, <3>5, <3>6 DEF JoinedOnce
  <2> QED
    BY <2>1, <2>2
<1>8. ASSUME NEW r \in Requests, activateForEmail(r)
      PROVE  JoinedOnce'
  <2>1. /\ req[r].pc = "join" /\ Joining(r) /\ End(r)
        /\ UNCHANGED <<pot, verified, windows>>
    BY <1>8 DEF activateForEmail, At, Joining
  <2>2. Same(r) /\ ~Joining(r)'
    BY <2>1, Ended DEF Joining
  <2>3. req[r].target \in Users
    BY <2>1, FieldsOf DEF RoleRequest
  <2>4. /\ pending'[req[r].target] \notin {"admin", "member"}
        /\ \A u \in Users \ {req[r].target} : pending'[u] = pending[u]
    BY <1>8, <2>3 DEF activateForEmail, TypeOK
  <2> QED
    BY <2>1, <2>2, <2>4, JoinEnds
<1>9. ASSUME NEW r \in Requests, activationFails(r)
      PROVE  JoinedOnce'
  <2>1. Joining(r) /\ End(r) /\ UNCHANGED <<pot, verified>>
    BY <1>9 DEF activationFails, Joining
  <2>2. Same(r) /\ ~Joining(r)'
    BY <2>1, Ended DEF Joining
  <2>3. windows \subseteq windows' /\ "invitation" \in windows'
    BY <1>9 DEF activationFails, Window
  <2> QED
    BY <2>1, <2>2, <2>3, JoinEnds
<1> QED
  BY <1>1, <1>2, <1>3, <1>4, <1>5, <1>6, <1>7, <1>8, <1>9, NextSteps DEF Verifying
-----------------------------------------------------------------------------
(* The theorems *)

\* A step that is not one of Next leaves everything as it is.
LEMMA InvStutters ==
    ASSUME Inv, UNCHANGED vars
    PROVE  Inv'
<1>1. UNCHANGED <<pot, configs, members, pending, verified, req, windows>>
  BY DEF vars
<1>2. TypeOK' /\ CreatedAlone'
  BY <1>1 DEF Inv, TypeOK, CreatedAlone, Unpeopled, Creating
<1>3. AdminLeft'
  BY <1>1 DEF Inv, AdminLeft, Exists, Creating, Demoting, AnotherAdmin
<1>4. RowsByMode' /\ NoneDrafting'
  BY <1>1 DEF Inv, RowsByMode, NoneDrafting, Creating, Updating
<1>5. ConfigFits'
  BY <1>1 DEF Inv, ConfigFits, ConfigOf, Exists, Creating, Updating
<1>6. JoinedOnce'
  BY <1>1 DEF Inv, JoinedOnce, Joining, Invited, Exists
<1> QED
  BY <1>2, <1>3, <1>4, <1>5, <1>6 DEF Inv

\* The invariant holds throughout every behaviour, for any users and any number of
\* requests that overlap.
THEOREM Invariance == Spec => []Inv
<1>1. Inv /\ [Next]_vars => Inv'
  <2> SUFFICES ASSUME Inv, [Next]_vars PROVE Inv'
    OBVIOUS
  <2>1. CASE UNCHANGED vars
    BY <2>1, InvStutters
  <2>2. CASE Next
    <3>1. TypeOK'
      BY <2>2, NextType DEF Inv
    <3> QED
      BY <2>2, <3>1, NextCreated, NextAdmins, NextRows, NextConfigs, NextJoined,
         NextDrafting DEF Inv
  <2> QED
    BY <2>1, <2>2
<1> QED
  BY <1>1, InitInv, PTL DEF Spec

\* A pot always keeps an admin, unless its creation broke off or two requests each
\* counted the other's admin (PotMembersService.updateRole and remove).
THEOREM AlwaysAnAdmin == Spec => []KeepsAnAdmin
<1>1. Inv => KeepsAnAdmin
  BY AdminsCounted DEF Inv, AdminLeft, KeepsAnAdmin, Creating
<1> QED
  BY <1>1, Invariance, PTL

\* With no request under way, every request is idle.
LEMMA QuietIdle ==
    Quiet => \A r \in Requests : req[r].pc = "idle"
<1>1. Idle.pc = "idle"
  BY DEF Idle
<1> QED
  BY <1>1 DEF Quiet

\* Between requests a pot has the configuration of its mode and no other, unless its
\* creation broke off or an update failed half-way or overlapped another
\* (PotsService.update).
THEOREM AlwaysPaysByItsMode == Spec => []PaysByItsMode
<1>1. ASSUME Inv PROVE PaysByItsMode
  <2> SUFFICES ASSUME Quiet, Exists, windows \intersect {"orphan", "updates"} = {}
               PROVE  configs = {pot.mode} \/ (pot.mode = "manual" /\ configs = {})
    BY DEF PaysByItsMode
  <2>1. \A r \in Requests : req[r].pc \notin {"config", "insert config", "fields"}
    BY QuietIdle
  <2> QED
    BY <1>1, <2>1, ConfigFacts DEF Inv, ConfigOf
<1> QED
  BY <1>1, Invariance, PTL

\* Nobody who verified an e-mail is left with an invitation that waits, unless the two
\* crossed or the joining failed (PendingMembersService.activateForEmail).
THEOREM InvitationsAlwaysResolve == Spec => []InvitationsResolve
<1>1. ASSUME Inv PROVE InvitationsResolve
  <2>1. Quiet => \A r \in Requests : ~Joining(r)
    BY QuietIdle DEF Joining
  <2> QED
    BY <1>1, <2>1 DEF Inv, JoinedOnce, InvitationsResolve
<1> QED
  BY <1>1, Invariance, PTL

\* What TermsFrozen says of one step.
Frozen ==
    pot.status \in {"open", "closed"} /\ "straddle" \notin windows =>
        /\ pot' = [pot EXCEPT !.status = pot'.status]
        /\ pot'.status \in {pot.status, "closed"}
        /\ configs' = configs
        /\ \A u \in Users : members'[u] # members[u] =>
              members[u] = "none" /\ (Invited(u) \/ "invitation" \in windows)

\* No step changes an open pot's terms.
LEMMA NextFrozen ==
    ASSUME Inv, [Next]_vars
    PROVE  Frozen
<1>0. SUFFICES ASSUME pot.status \in {"open", "closed"}, "straddle" \notin windows
               PROVE  /\ pot' = [pot EXCEPT !.status = pot'.status]
                      /\ pot'.status \in {pot.status, "closed"}
                      /\ configs' = configs
                      /\ \A u \in Users : members'[u] # members[u] =>
                            members[u] = "none" /\ (Invited(u) \/ "invitation" \in windows)
  BY DEF Frozen
<1>1. TypeOK /\ \A r \in Requests : req[r].pc \notin Drafting
  BY <1>0 DEF Inv, NoneDrafting
<1>2. pot = [pot EXCEPT !.status = pot.status]
  BY <1>1 DEF TypeOK
<1>3. ASSUME UNCHANGED <<pot, configs, members>>
      PROVE  /\ pot' = [pot EXCEPT !.status = pot'.status]
             /\ pot'.status \in {pot.status, "closed"}
             /\ configs' = configs
             /\ \A u \in Users : members'[u] = members[u]
  BY <1>2, <1>3
<1>4. CASE closePotHandler
  <2>1. pot' = [pot EXCEPT !.status = "closed"] /\ pot'.status = "closed"
        /\ UNCHANGED <<configs, members>>
    BY <1>1, <1>4, CloseStep
  <2> QED
    BY <2>1
<1>5. ASSUME NEW r \in Requests, activateForEmail(r)
      PROVE  /\ pot' = pot /\ configs' = configs
             /\ \A u \in Users : members'[u] # members[u] =>
                   members[u] = "none" /\ (Invited(u) \/ "invitation" \in windows)
  <2>1. req[r].pc = "join" /\ UNCHANGED <<pot, configs>>
    BY <1>5 DEF activateForEmail, At
  <2>2. Exists
    BY <1>0 DEF Exists
  <2>3. Invited(req[r].target) \/ "invitation" \in windows
    BY <2>1, <2>2 DEF Inv, JoinedOnce
  <2>4. \A u \in Users : members'[u] # members[u] => u = req[r].target /\ members[u] = "none"
    BY <1>1, <1>5 DEF activateForEmail, isMember, TypeOK
  <2> QED
    BY <2>1, <2>3, <2>4
<1>6. ASSUME NEW r \in Requests,
             contributeHandler(r) \/ insertContribution(r) \/ (Verifying(r) /\ ~activateForEmail(r))
      PROVE  UNCHANGED <<pot, configs, members>>
  BY <1>1, <1>6, ContributionStep
     DEF Verifying, verifyEmail, readPending, activationFails
<1>7. ASSUME NEW r \in Requests, Asking(r) \/ Demanding(r) \/ updatePotHandler(r)
                                   \/ createPotHandler(r)
      PROVE  FALSE
  BY <1>0, <1>1, <1>7, AskingStep, DemandingStep, UpdateStep, CreateStep
<1>8. ASSUME NEW r \in Requests,
             Peopling(r) \/ insertPending(r) \/ writeRemoved(r) \/ createConfig(r)
               \/ createAdmin(r) \/ deleteExistingPayoutConfig(r) \/ insertPayoutConfig(r)
               \/ updateFields(r) \/ deletePot(r) \/ openPot(r)
      PROVE  FALSE
  <2>1. req[r].pc \in Drafting
    BY <1>1, <1>8, PeoplingStep, InvitingStep, CreateConfigStep, CreateAdminStep,
       DeleteConfigStep, InsertConfigStep, FieldsStep, DeleteStep, OpenStep DEF Drafting
  <2> QED
    BY <1>1, <2>1
<1>9. CASE UNCHANGED vars
  BY <1>3, <1>9 DEF vars
<1>10. CASE Next
  <2>1. \/ closePotHandler
        \/ \E r \in Requests : activateForEmail(r)
        \/ UNCHANGED <<pot, configs, members>>
    BY <1>10, <1>6, <1>7, <1>8, NextSteps
  <2> QED
    BY <1>2, <1>3, <1>4, <1>5, <2>1
<1> QED
  BY <1>9, <1>10

\* From activation on neither the terms of a pot nor, but for invitations still to be
\* taken up, its members change, and it does not reopen or disappear, whatever requests
\* overlap, unless one that saw the pot in draft straddled the activation.
THEOREM TermsStayFrozen == Spec => TermsFrozen
<1>1. Inv /\ [Next]_vars => [Frozen]_vars
  BY NextFrozen
<1>2. TermsFrozen <=> [][Frozen]_vars
  BY DEF TermsFrozen, Frozen
<1> QED
  BY <1>1, <1>2, Invariance, PTL DEF Spec
=============================================================================
