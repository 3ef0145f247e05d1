---------------------------- MODULE PotLifecycle ----------------------------
(***************************************************************************)
(* A pot's life before money moves: its creation, its terms (payout mode   *)
(* and configuration, limits, refund type), its members and invitations,   *)
(* activation and closing, and the contributions it accepts                *)
(* (pots.service.ts, pot-members.service.ts, pending-members.service.ts,   *)
(* pot-authorization.ts, contributions.service.ts create, and the routes   *)
(* and handlers in front of them).                                         *)
(*                                                                         *)
(* A request first reads and checks, then writes; no transaction and, but  *)
(* for two unique indexes, no condition on the writes connects the two, so *)
(* requests that overlap act on what they read.  The reads of one request  *)
(* are one step here, each write that others can see is another.           *)
(***************************************************************************)
EXTENDS Integers, FiniteSets

CONSTANTS
    Users,       \* the creator and the people invited
    Creator,
    Requests,    \* requests that may be under way at the same time
    Modes,       \* payout modes in play, a subset of payoutModes
    Configs,     \* payoutConfig bodies, each the set of the fields it has
    Types,       \* a subset of {"public", "private"}
    Terms,       \* records of limits (minContribution, maxContribution) and refundType
    Amounts,     \* amounts of contributions
    MaxContributions, \* bound on the contributions of the pot
    MaxWindows   \* bound on the kinds of window a behaviour hits

payoutModes == {"target_based", "manual", "recurring", "scheduled"}

ASSUME LifecycleAssumption ==
    /\ IsFiniteSet(Users) /\ Creator \in Users
    /\ Modes \subseteq payoutModes
    /\ MaxContributions \in Nat /\ MaxWindows \in Nat

VARIABLES
    pot,            \* the row of pots, with status "none" before and "deleted" after
    configs,        \* the modes whose configuration table has a row for the pot
    members,        \* pot_members: the role of each user, or "none"
    pending,        \* pot_pending_members: for each user's e-mail "none", the role of a
                    \* pending row, "removed" or "joined"
    verified,       \* users whose e-mail is verified
    contributions,  \* contributions accepted
    req,            \* the requests under way
    windows         \* history: which unprotected windows were hit

vars == <<pot, configs, members, pending, verified, contributions, req, windows>>

NoPot == [status |-> "none", mode |-> "manual", type |-> "public",
          terms |-> [limits |-> <<0, 0>>, refundType |-> "admin"]]

Exists == pot.status \notin {"none", "deleted"}

Idle == [pc |-> "idle"]

Init ==
    /\ pot = NoPot
    /\ configs = {}
    /\ members = [u \in Users |-> "none"]
    /\ pending = [u \in Users |-> "none"]
    /\ verified = {Creator}
    /\ contributions = {}
    /\ req = [r \in Requests |-> Idle]
    /\ windows = {}

Begin(r, request) == req[r] = Idle /\ req' = [req EXCEPT ![r] = request]
Goto(r, step)     == req' = [req EXCEPT ![r].pc = step]
End(r)            == req' = [req EXCEPT ![r] = Idle]
At(r, step)       == req[r].pc = step

\* Behaviours are followed up to MaxWindows kinds of window.
Window(w, hit) ==
    /\ windows' = IF hit THEN windows \union {w} ELSE windows
    /\ Cardinality(windows') <= MaxWindows

\* Requests that saw the pot in draft and have yet to write.
Drafting == {"config", "admin", "delete config", "insert config", "fields", "activate",
             "delete pot", "role", "remove", "insert member", "insert pending",
             "remove pending"}
OthersDrafting(r) == \E q \in Requests \ {r} : req[q].pc \in Drafting
-----------------------------------------------------------------------------
(* pots.schema.ts *)

destinationSchema == {"destinationAccount", "destinationBank"}

\* The refinements of a target: one of its two conditions, and more than the fee.
targetBasedPayoutConfigSchema(c) ==
    /\ destinationSchema \subseteq c
    /\ c \intersect {"targetDate", "targetAmount"} # {}
    /\ "target within the fee" \notin c

manualPayoutConfigSchema(c) == ("destinationAccount" \in c) = ("destinationBank" \in c)

recurringPayoutConfigSchema(c) ==
    destinationSchema \union {"amount", "intervalDays", "nextRunAt"} \subseteq c

scheduledPayoutConfigSchema(c) == "legs" \in c

\* The body the route accepts: required fields only, since AJV knows no refinements.
createPotSchema(mode, c) ==
    CASE mode = "target_based" -> destinationSchema \subseteq c
      [] mode = "manual"       -> TRUE
      [] mode = "recurring"    -> recurringPayoutConfigSchema(c)
      [] mode = "scheduled"    -> scheduledPayoutConfigSchema(c)

\* The service parses the body again, with the schema of the mode.
validatePayoutModeConfig(mode, c) ==
    CASE mode = "target_based" -> targetBasedPayoutConfigSchema(c)
      [] mode = "manual"       -> manualPayoutConfigSchema(c)
      [] mode = "recurring"    -> recurringPayoutConfigSchema(c)
      [] mode = "scheduled"    -> scheduledPayoutConfigSchema(c)

\* A manual pot without a fixed destination has no row.
hasConfigRow(mode, c) == mode # "manual" \/ destinationSchema \subseteq c
-----------------------------------------------------------------------------
(* pot-authorization.ts *)

isMember(u) == members[u] # "none"

assertIsAdmin(u) == Exists /\ members[u] = "admin"

getViewablePotOrThrow(u) ==
    Exists /\ (pot.type = "private" => u \in Users /\ isMember(u))

countAdmins == Cardinality({u \in Users : members[u] = "admin"})

\* Mutant of assertMembershipIsOpen: the pot's status is not looked at.
assertMembershipIsOpenAlways == TRUE

assertMembershipIsOpen == pot.status = "draft"
-----------------------------------------------------------------------------
(* PotsService: create, update, deleteDraft, activate, close *)

\* The pot's row comes first, the validation after it.
create(r, mode, c, type, terms) ==
    /\ pot.status = "none"
    /\ createPotSchema(mode, c)
    /\ Begin(r, [pc |-> "config", mode |-> mode, row |-> hasConfigRow(mode, c),
                 valid |-> validatePayoutModeConfig(mode, c)])
    /\ pot' = [status |-> "draft", mode |-> mode, type |-> type, terms |-> terms]
    /\ UNCHANGED <<configs, members, pending, verified, contributions, windows>>

\* A configuration that does not validate, or whose account cannot be looked up,
\* throws, and the row stays behind without configuration or members.
createConfig(r) ==
    /\ At(r, "config")
    /\ \/ /\ ~req[r].valid
          /\ End(r)
          /\ Window("orphan", TRUE)
          /\ UNCHANGED configs
       \/ /\ req[r].valid
          /\ configs' = IF req[r].row
                        THEN configs \union {req[r].mode} ELSE configs
          /\ Goto(r, "admin")
          /\ UNCHANGED windows
       \/ /\ req[r].valid /\ req[r].row
          /\ End(r)
          /\ Window("orphan", TRUE)
          /\ UNCHANGED configs
    /\ UNCHANGED <<pot, members, pending, verified, contributions>>

createAdmin(r) ==
    /\ At(r, "admin")
    /\ members' = [members EXCEPT ![Creator] = "admin"]
    /\ End(r)
    /\ UNCHANGED <<pot, configs, pending, verified, contributions, windows>>

\* Mutant of updateAllowed: a change of mode needs no configuration.
updateAllowedWithoutConfig(mode, withConfig, c) ==
    /\ pot.status = "draft"
    /\ withConfig => validatePayoutModeConfig(mode, c)

\* Draft only; a configuration must fit the mode it is for, the pot's own unless
\* another is given; another mode needs a configuration.
updateAllowed(mode, withConfig, c) ==
    /\ pot.status = "draft"
    /\ withConfig => validatePayoutModeConfig(mode, c)
    /\ ~withConfig => mode = pot.mode

update(r, u, mode, withConfig, c, terms) ==
    /\ assertIsAdmin(u)
    /\ updateAllowed(mode, withConfig, c)
    /\ Begin(r, [pc |-> IF withConfig THEN "delete config" ELSE "fields",
                 from |-> pot.mode, mode |-> mode, row |-> hasConfigRow(mode, c),
                 terms |-> terms])
    /\ Window("updates", \E q \in Requests :
                             req[q].pc \in {"delete config", "insert config", "fields"})
    /\ UNCHANGED <<pot, configs, members, pending, verified, contributions>>

deleteExistingPayoutConfig(r) ==
    /\ At(r, "delete config")
    /\ configs' = configs \ {req[r].from}
    /\ Goto(r, "insert config")
    /\ UNCHANGED <<pot, members, pending, verified, contributions, windows>>

\* The lookup may fail with the old configuration gone; a row that is already there,
\* or a pot that no longer is, makes the INSERT fail.
insertPayoutConfig(r) ==
    LET row == req[r].row IN
    /\ At(r, "insert config")
    /\ \/ /\ row => req[r].mode \notin configs /\ Exists
          /\ configs' = IF row THEN configs \union {req[r].mode} ELSE configs
          /\ Goto(r, "fields")
          /\ UNCHANGED windows
       \/ /\ row /\ (req[r].mode \in configs \/ ~Exists)
          /\ End(r)
          /\ UNCHANGED <<configs, windows>>
       \/ /\ row
          /\ End(r)
          /\ Window("updates", TRUE)
          /\ UNCHANGED configs
    /\ UNCHANGED <<pot, members, pending, verified, contributions>>

\* The mode and the other fields, whatever the pot's status is by now.
updateFields(r) ==
    /\ At(r, "fields")
    /\ pot' = IF ~Exists THEN pot
              ELSE [pot EXCEPT !.mode = IF req[r].mode # req[r].from THEN req[r].mode ELSE @,
                               !.terms = req[r].terms]
    /\ End(r)
    /\ UNCHANGED <<configs, members, pending, verified, contributions, windows>>

deleteDraft(r, u) ==
    /\ assertIsAdmin(u)
    /\ pot.status = "draft"
    /\ Begin(r, [pc |-> "delete pot"])
    /\ UNCHANGED <<pot, configs, members, pending, verified, contributions, windows>>

\* The row goes, with all that refers to it, unless a contribution does.
deletePot(r) ==
    /\ At(r, "delete pot")
    /\ End(r)
    /\ \/ /\ contributions = {}
          /\ pot' = [NoPot EXCEPT !.status = "deleted"]
          /\ configs' = {}
          /\ members' = [u \in Users |-> "none"]
          /\ pending' = [u \in Users |-> "none"]
          /\ Window("straddle", OthersDrafting(r) \/ pot.status # "draft")
       \/ /\ contributions # {}
          /\ UNCHANGED <<pot, configs, members, pending, windows>>
    /\ UNCHANGED <<verified, contributions>>

activate(r, u) ==
    /\ assertIsAdmin(u)
    /\ pot.status = "draft"
    /\ Begin(r, [pc |-> "activate"])
    /\ UNCHANGED <<pot, configs, members, pending, verified, contributions, windows>>

openPot(r) ==
    /\ At(r, "activate")
    /\ pot' = IF ~Exists THEN pot ELSE [pot EXCEPT !.status = "open"]
    /\ End(r)
    /\ Window("straddle", OthersDrafting(r) \/ pot.status # "draft")
    /\ UNCHANGED <<configs, members, pending, verified, contributions>>

\* The checks of the balance and of the lock are Disbursement's subject.
close(u) ==
    /\ assertIsAdmin(u)
    /\ pot.status = "open"
    /\ pot' = [pot EXCEPT !.status = "closed"]
    /\ UNCHANGED <<configs, members, pending, verified, contributions, req, windows>>

-----------------------------------------------------------------------------
(* PotMembersService and PendingMembersService *)

\* Mutant of keepsAnAdmin: the count is not looked at.
keepsAnAdminUnchecked(u) == TRUE

keepsAnAdmin(u) == members[u] = "admin" => countAdmins > 1

\* Requests that counted the admins and are about to take one away.
Demoting == {q \in Requests : req[q].pc \in {"role", "remove"}}

updateRole(r, u, target, role) ==
    /\ assertIsAdmin(u)
    /\ assertMembershipIsOpen
    /\ isMember(target)
    /\ role = "member" => keepsAnAdmin(target)
    /\ Begin(r, [pc |-> "role", target |-> target, role |-> role])
    /\ Window("admins", Demoting # {})
    /\ UNCHANGED <<pot, configs, members, pending, verified, contributions>>

writeRole(r) ==
    /\ At(r, "role")
    /\ members' = IF isMember(req[r].target)
                  THEN [members EXCEPT ![req[r].target] = req[r].role] ELSE members
    /\ End(r)
    /\ UNCHANGED <<pot, configs, pending, verified, contributions, windows>>

\* An admin removes a member, or a member leaves.
remove(r, u, target) ==
    /\ Exists
    /\ assertIsAdmin(u) \/ u = target
    /\ assertMembershipIsOpen
    /\ isMember(target)
    /\ keepsAnAdmin(target)
    /\ Begin(r, [pc |-> "remove", target |-> target])
    /\ Window("admins", Demoting # {})
    /\ UNCHANGED <<pot, configs, members, pending, verified, contributions>>

deleteMember(r) ==
    /\ At(r, "remove")
    /\ members' = [members EXCEPT ![req[r].target] = "none"]
    /\ End(r)
    /\ UNCHANGED <<pot, configs, pending, verified, contributions, windows>>

\* Someone with a verified e-mail becomes a member, anyone else is noted.
addMember(r, u, target, role) ==
    /\ assertIsAdmin(u)
    /\ assertMembershipIsOpen
    /\ target \in verified => ~isMember(target)
    /\ Begin(r, [pc |-> IF target \in verified THEN "insert member" ELSE "insert pending",
                 target |-> target, role |-> role])
    /\ UNCHANGED <<pot, configs, members, pending, verified, contributions, windows>>

\* The INSERT fails if the member is there by now, or the pot no longer is.
insertMember(r) ==
    /\ At(r, "insert member")
    /\ members' = IF isMember(req[r].target) \/ ~Exists THEN members
                  ELSE [members EXCEPT ![req[r].target] = req[r].role]
    /\ End(r)
    /\ UNCHANGED <<pot, configs, pending, verified, contributions, windows>>

Invited(u) == pending[u] \in {"admin", "member"}

\* One pending row per pot and e-mail.  The person may have verified meanwhile.
insertPending(r) ==
    /\ At(r, "insert pending")
    /\ pending' = IF Invited(req[r].target) \/ ~Exists THEN pending
                  ELSE [pending EXCEPT ![req[r].target] = req[r].role]
    /\ Window("invitation", req[r].target \in verified)
    /\ End(r)
    /\ UNCHANGED <<pot, configs, members, verified, contributions>>

removePending(r, u, target) ==
    /\ assertIsAdmin(u)
    /\ assertMembershipIsOpen
    /\ Invited(target)
    /\ Begin(r, [pc |-> "remove pending", target |-> target])
    /\ UNCHANGED <<pot, configs, members, pending, verified, contributions, windows>>

writeRemoved(r) ==
    /\ At(r, "remove pending")
    /\ pending' = IF pending[req[r].target] = "none" THEN pending
                  ELSE [pending EXCEPT ![req[r].target] = "removed"]
    /\ Window("invitation", \E q \in Requests : req[q].pc = "join" /\ req[q].target = req[r].target)
    /\ End(r)
    /\ UNCHANGED <<pot, configs, members, verified, contributions>>

\* AuthService.verifyEmail, then activateForEmail.
verifyEmail(r, u) ==
    /\ u \notin verified
    /\ verified' = verified \union {u}
    /\ Begin(r, [pc |-> "pending rows", target |-> u])
    /\ UNCHANGED <<pot, configs, members, pending, contributions, windows>>

readPending(r) ==
    /\ At(r, "pending rows")
    /\ IF Invited(req[r].target)
       THEN req' = [req EXCEPT ![r] = [pc |-> "join", target |-> @.target, role |-> pending[@.target]]]
       ELSE End(r)
    /\ UNCHANGED <<pot, configs, members, pending, verified, contributions, windows>>

\* Mutant of activateForEmail: the invitation is not marked.
activateForEmailUnmarked(r) ==
    /\ At(r, "join")
    /\ members' = IF isMember(req[r].target) \/ ~Exists THEN members
                  ELSE [members EXCEPT ![req[r].target] = req[r].role]
    /\ End(r)
    /\ UNCHANGED <<pot, configs, pending, verified, contributions, windows>>

\* The pot's status is not looked at, nor the row again.
activateForEmail(r) ==
    /\ At(r, "join")
    /\ members' = IF isMember(req[r].target) \/ ~Exists THEN members
                  ELSE [members EXCEPT ![req[r].target] = req[r].role]
    /\ pending' = IF pending[req[r].target] = "none" THEN pending
                  ELSE [pending EXCEPT ![req[r].target] = "joined"]
    /\ End(r)
    /\ UNCHANGED <<pot, configs, verified, contributions, windows>>

\* A statement of activateForEmail fails: the code is used up, and nothing comes
\* back to the invitation.
activationFails(r) ==
    /\ req[r].pc \in {"pending rows", "join"}
    /\ Window("invitation", TRUE)
    /\ End(r)
    /\ UNCHANGED <<pot, configs, members, pending, verified, contributions>>
-----------------------------------------------------------------------------
(* ContributionsService.create *)

\* Within the limits; a refund account is given whole or not at all, and only to a
\* pot that refunds its contributors.
acceptable(amount, refund) ==
    /\ amount >= pot.terms.limits[1] /\ amount <= pot.terms.limits[2]
    /\ IF pot.terms.refundType = "contributors" THEN refund # "half" ELSE refund = "none"

\* A virtual account is made for the contributor, who may be anonymous.
contribute(r, u, amount, refund) ==
    /\ getViewablePotOrThrow(u)
    /\ pot.status = "open"
    /\ acceptable(amount, refund)
    /\ Cardinality(contributions) < MaxContributions
    /\ Begin(r, [pc |-> "contribution", amount |-> amount, refund |-> refund])
    /\ UNCHANGED <<pot, configs, members, pending, verified, contributions, windows>>

\* The row is written, unless the provider gave no account or the pot is gone.
insertContribution(r) ==
    /\ At(r, "contribution")
    /\ \/ /\ Exists
          /\ contributions' = contributions \union {[amount |-> req[r].amount, refund |-> req[r].refund]}
       \/ UNCHANGED contributions
    /\ End(r)
    /\ UNCHANGED <<pot, configs, members, pending, verified, windows>>
-----------------------------------------------------------------------------
(* pots.controller.ts and pots.route.ts: who may ask, and with what body *)

createPotHandler(r) ==
    \E mode \in Modes, c \in Configs, type \in Types, t \in Terms : create(r, mode, c, type, t)

updatePotHandler(r) ==
    \E u \in Users, mode \in Modes, t \in Terms :
        update(r, u, mode, FALSE, {}, t) \/ \E c \in Configs : update(r, u, mode, TRUE, c, t)

deleteDraftPotHandler(r) == \E u \in Users : deleteDraft(r, u)

activatePotHandler(r) == \E u \in Users : activate(r, u)

closePotHandler == \E u \in Users : close(u)

Roles == {"admin", "member"}

addMemberHandler(r) ==
    \E u, target \in Users, role \in Roles : addMember(r, u, target, role)

updateMemberRoleHandler(r) ==
    \E u, target \in Users, role \in Roles : updateRole(r, u, target, role)

removeMemberHandler(r) == \E u, target \in Users : remove(r, u, target)

leavePotHandler(r) == \E u \in Users : remove(r, u, u)

removePendingMemberHandler(r) == \E u, target \in Users : removePending(r, u, target)

\* "anyone" stands for a caller without a session.
contributeHandler(r) ==
    \E u \in Users \union {"anyone"}, amount \in Amounts, refund \in {"none", "half", "both"} :
        contribute(r, u, amount, refund)

\* The routes behind authenticate: everything but reading and contributing.
authenticated(r) ==
    \/ createPotHandler(r) \/ updatePotHandler(r) \/ deleteDraftPotHandler(r)
    \/ activatePotHandler(r) \/ addMemberHandler(r) \/ updateMemberRoleHandler(r)
    \/ removeMemberHandler(r) \/ leavePotHandler(r) \/ removePendingMemberHandler(r)

continue(r) ==
    \/ createConfig(r) \/ createAdmin(r) \/ deleteExistingPayoutConfig(r)
    \/ insertPayoutConfig(r) \/ updateFields(r) \/ deletePot(r) \/ openPot(r)
    \/ writeRole(r) \/ deleteMember(r) \/ insertMember(r) \/ insertPending(r)
    \/ writeRemoved(r) \/ readPending(r) \/ activateForEmail(r) \/ activationFails(r)
    \/ insertContribution(r)

Next ==
    \/ \E r \in Requests :
          \/ authenticated(r) \/ contributeHandler(r) \/ continue(r)
          \/ \E u \in Users : verifyEmail(r, u)
    \/ closePotHandler

Spec == Init /\ [][Next]_vars
-----------------------------------------------------------------------------
(* Properties *)

Quiet == \A r \in Requests : req[r] = Idle

\* A pot always keeps an admin ("a pot must always keep at least one",
\* pot-members.service.ts), unless its creation broke off or two requests each
\* counted the other's admin.
KeepsAnAdmin ==
    Exists /\ (\A r \in Requests : req[r].pc \notin {"config", "admin"})
        => countAdmins > 0 \/ windows \intersect {"orphan", "admins"} # {}

\* The pot pays by the rule its mode names and by no other: its configuration is the
\* one of its mode, unless its creation broke off or an update failed half-way or
\* overlapped another.  An update that straddles the activation still ends with both.
PaysByItsMode ==
    Quiet /\ Exists /\ windows \intersect {"orphan", "updates"} = {}
        => configs = {pot.mode} \/ (pot.mode = "manual" /\ configs = {})

\* What contributors agreed to stands: from activation on neither the terms nor, but
\* for invitations that are still to be taken up, the members change, and no pot
\* reopens or disappears.
TermsFrozen ==
    [][pot.status \in {"open", "closed"} /\ "straddle" \notin windows =>
          /\ pot' = [pot EXCEPT !.status = pot'.status]
          /\ pot'.status \in {pot.status, "closed"}
          /\ configs' = configs
          /\ \A u \in Users : members'[u] # members[u] =>
                members[u] = "none" /\ (Invited(u) \/ "invitation" \in windows)]_vars

\* Nobody who verified an e-mail is left waiting ("resolves into real membership
\* automatically"), unless the invitation and the verification crossed or the
\* joining failed.
InvitationsResolve ==
    Quiet /\ "invitation" \notin windows =>
        \A u \in Users : ~(u \in verified /\ Invited(u))
=============================================================================
