------------------------------ MODULE PotWizard ------------------------------
(***************************************************************************)
(* The pages on which a pot is drafted: the wizard of pots/new/page.tsx,   *)
(* the form of pots/[id]/edit/page.tsx, the config steps they share, the   *)
(* account lookup each destination card runs (useBankAccountLookup.ts),    *)
(* and the create and update requests they send.                           *)
(*                                                                         *)
(* A step of the page is one React commit: an event or the lookups that    *)
(* have answered, and then the sync effect of every card whose             *)
(* confirmedName changed, each run with the form of that same render.      *)
(*                                                                         *)
(* Account number and bank are one destination: "blank", "half" (one of    *)
(* the two), "short" (a number of fewer than ten digits) or an account.    *)
(* A name is the account it belongs to.  minContribution stands for the    *)
(* three optional limits, which the code treats alike.                     *)
(***************************************************************************)
EXTENDS Integers, Sequences, FiniteSets, FiniteSetsExt, SequencesExt

CONSTANTS
    Accounts,      \* complete destinations
    Typed,         \* amounts a user types: tenths of a kobo, and whether a point ends them
    Dates,
    Stored,        \* drafts that are there before the page is opened
    OUTBOUND_FEE,  \* in kobo
    MaxLegs,       \* bound on the legs
    MaxEdits,      \* bound on the edits on a page
    MaxSubmits     \* bound on the requests sent

None     == "none"
NoConfig == [d |-> None]
Null     == -1   \* null or undefined, of an amount
Blank    == [tenths |-> 0, point |-> FALSE, blank |-> TRUE]

Destinations == {"blank", "half", "short"} \union Accounts
Singles == {"target_based", "manual", "recurring"}
Modes   == Singles \union {"scheduled"}

\* The legs stand in the order of their numbers.
Numbered(legs) == \A i \in DOMAIN legs : legs[i].seq = i - 1

\* The configs a page sends and the backend keeps for a mode.
Configs(m) ==
    LET Day == Dates \union {None}
    IN  CASE m = "manual"    -> [d : Destinations \union {None}]
          [] m = "recurring" -> [d : Destinations, amount : Nat, interval : Nat, date : Day]
          [] m = "scheduled" -> [ordered : BOOLEAN,
                                 legs : Seq([d : Destinations, seq : Nat, amount : Nat, date : Day])]
          [] OTHER           -> [d : Destinations, date : Day, amount : Nat \union {Null}]

\* A draft that such a page has made.  Its config is lost when an update fails half-way.
isDraft(p) ==
    /\ p \in [row : {TRUE}, admin : BOOLEAN, mode : Modes, min : Nat \union {Null}, config : {p.config}]
    /\ p.config # NoConfig =>
          p.config \in Configs(p.mode) /\ (p.mode = "scheduled" => Numbered(p.config.legs))

ASSUME WizardAssumption ==
    /\ Accounts \intersect {None, "blank", "half", "short", "error"} = {}
    /\ Typed \subseteq [tenths : Nat, point : BOOLEAN, blank : {FALSE}]
    /\ None \notin Dates /\ OUTBOUND_FEE \in Nat
    /\ \A p \in Stored : isDraft(p)
    /\ MaxLegs \in Nat /\ MaxEdits \in [{"new", "edit"} -> Nat] /\ MaxSubmits \in Nat

VARIABLES
    step,     \* of the wizard; "edit" and "preview" are the tabs of the edit page, "pot" neither
    form,     \* WizardState
    cards,    \* useBankAccountLookup of each mounted destination card
    sub,      \* the request under way
    pot,      \* the draft in the database, as getPot would return it
    edits, submits,
    vouched,  \* history: accounts a lookup has named for this page or the stored draft
    kept,     \* history: names a leg kept although its card had none
    saved     \* history: what the last accepted request was made from

wizardVars == <<step, form, cards, sub, pot, edits, submits, vouched, kept, saved>>

emptyLeg(sequenceOrder) ==
    [d |-> "blank", name |-> None, seq |-> sequenceOrder, amount |-> Blank, date |-> None]

initialWizardState ==
    [titled |-> FALSE, min |-> Blank, mode |-> None,
     dest |-> [m \in Singles |-> [d |-> "blank", name |-> None]],
     date |-> [m \in Singles |-> None], amount |-> [m \in Singles |-> Blank],
     interval |-> 30, ordered |-> TRUE, legs |-> <<>>]

NoPot  == [row |-> FALSE]
NoSave == [form |-> initialWizardState, before |-> 0]

WizardInit ==
    /\ pot \in Stored \union {NoPot}
    /\ step = IF pot = NoPot THEN "basics" ELSE "pot"
    /\ form = initialWizardState
    /\ cards = <<>>
    /\ sub = [pc |-> "idle"]
    /\ edits = 0 /\ submits = 0
    /\ vouched = {} /\ kept = {} /\ saved = NoSave
-----------------------------------------------------------------------------
(* lib/money.ts and wizard-helpers.ts *)

isPositiveAmount(raw) == ~raw.blank /\ raw.tenths > 0

isValidTargetAmount(raw) == isPositiveAmount(raw) /\ raw.tenths > 10 * OUTBOUND_FEE

isValidIntervalDays(days) == days >= 1

\* Cut to the kobo; a text that ends in a point is no amount.
toNairaAmount(raw) == IF raw.blank \/ raw.point THEN Null ELSE raw.tenths \div 10

wireAmount(raw) == IF toNairaAmount(raw) = Null THEN 0 ELSE toNairaAmount(raw)

\* What is not positive, or no amount, is left out of the request.
limitInput(raw) == IF isPositiveAmount(raw) THEN toNairaAmount(raw) ELSE Null

Given(d) == d \notin {"blank", "half"}

buildPayoutConfig(f) ==
    CASE f.mode = "manual" ->
           [d |-> IF Given(f.dest["manual"].d) THEN f.dest["manual"].d ELSE None]
      [] f.mode = "recurring" ->
           [d |-> f.dest["recurring"].d, amount |-> wireAmount(f.amount["recurring"]),
            interval |-> f.interval, date |-> f.date["recurring"]]
      [] f.mode = "scheduled" ->
           [ordered |-> f.ordered,
            legs |-> [i \in DOMAIN f.legs |-> [d |-> f.legs[i].d, seq |-> f.legs[i].seq,
                        amount |-> wireAmount(f.legs[i].amount), date |-> f.legs[i].date]]]
      [] OTHER ->
           [d |-> f.dest["target_based"].d, date |-> f.date["target_based"],
            amount |-> IF f.amount["target_based"].blank THEN Null
                       ELSE wireAmount(f.amount["target_based"])]

Confirmed(slot) == Given(slot.d) /\ slot.name # None

isConfigStepValid(f) ==
    CASE f.mode = "manual" ->
           \/ f.dest["manual"].d = "blank"
           \/ Confirmed(f.dest["manual"])
      [] f.mode = "recurring" ->
           /\ Confirmed(f.dest["recurring"])
           /\ isPositiveAmount(f.amount["recurring"])
           /\ isValidIntervalDays(f.interval)
           /\ f.date["recurring"] # None
      [] f.mode = "scheduled" ->
           /\ Len(f.legs) > 0
           /\ \A i \in DOMAIN f.legs :
                Confirmed(f.legs[i]) /\ isPositiveAmount(f.legs[i].amount) /\ f.legs[i].date # None
      [] f.mode = "target_based" ->
           /\ Confirmed(f.dest["target_based"])
           /\ f.date["target_based"] # None \/ isValidTargetAmount(f.amount["target_based"])
      [] OTHER -> FALSE
-----------------------------------------------------------------------------
(* The destination cards and their lookups *)

\* The cards on the screen: one for a single destination, one a leg, a placeholder when
\* there is no leg yet.
Cards(f, s) ==
    IF s \notin {"config", "edit"} \/ f.mode = None THEN {}
    ELSE IF f.mode \in Singles THEN {1} ELSE 1 .. Max({1, Len(f.legs)})

slotAt(f, i) ==
    IF f.mode \in Singles THEN f.dest[f.mode]
    ELSE IF i \in DOMAIN f.legs THEN f.legs[i] ELSE emptyLeg(0)

\* onUpdate of a card; the placeholder becomes the first leg.
updateLeg(f, i, field, value) ==
    [f EXCEPT !.legs = [(IF @ = <<>> THEN <<emptyLeg(0)>> ELSE @) EXCEPT ![i][field] = value]]

setSlot(f, i, field, value) ==
    IF f.mode \in Singles THEN [f EXCEPT !.dest[f.mode][field] = value]
    ELSE updateLeg(f, i, field, value)

\* Mutant of confirmedName: not tagged to the pair it was resolved for.
confirmedNameUntagged(card) == card.confirmed

confirmedName(card) == IF card.confirmed = card.at THEN card.confirmed ELSE None

\* The effect that looks a destination up once it is complete.
mountCard(d) ==
    [at |-> d, confirmed |-> None, looking |-> d \in Accounts, landed |-> None]

\* A render: an answer that has come is taken, a changed destination cancels its lookup.
rerenderCard(card, d) ==
    LET taken == [card EXCEPT !.confirmed = IF card.landed \in Accounts THEN card.landed ELSE @,
                              !.landed = None, !.looking = @ /\ card.landed = None]
    IN  IF d = card.at THEN taken ELSE [taken EXCEPT !.at = d, !.looking = d \in Accounts]

\* The cards whose sync effect writes: the name has changed and the form has another.
syncWriters(f, shown, changed) ==
    {i \in changed : slotAt(f, i).name # confirmedName(shown[i])}

\* Each writes the whole form of this render with its own name in it: the last one stands.
syncEffects(f, shown, writers) ==
    IF writers = {} THEN f
    ELSE setSlot(f, Max(writers), "name", confirmedName(shown[Max(writers)]))

\* The page commits form f at step s; remount: all cards are new ones.
Commit(f, s, remount) ==
    LET old(i) == ~remount /\ i \in DOMAIN cards
        shown  == [i \in Cards(f, s) |->
                     IF old(i) THEN rerenderCard(cards[i], slotAt(f, i).d)
                     ELSE mountCard(slotAt(f, i).d)]
        changed == {i \in DOMAIN shown :
                      ~old(i) \/ confirmedName(shown[i]) # confirmedName(cards[i])}
        writers == syncWriters(f, shown, changed)
    IN  /\ cards' = shown
        /\ form' = syncEffects(f, shown, writers)
        /\ step' = s
        /\ kept' = kept \union ({slotAt(form', i).name :
                                   i \in {j \in DOMAIN shown : confirmedName(shown[j]) = None}} \ {None})

\* lookupBankAccount answers, with a name or an error; the state it sets is rendered later.
lookupAnswers(i) ==
    /\ cards[i].looking /\ cards[i].landed = None
    /\ \E ok \in BOOLEAN :
         /\ cards' = [cards EXCEPT ![i].landed = IF ok THEN cards[i].at ELSE "error"]
         /\ vouched' = IF ok THEN vouched \union {cards[i].at} ELSE vouched
    /\ UNCHANGED <<step, form, sub, pot, edits, submits, kept, saved>>

\* React renders what has been set meanwhile, in one commit.
render ==
    /\ \E i \in DOMAIN cards : cards[i].landed # None
    /\ Commit(form, step, FALSE)
    /\ UNCHANGED <<sub, pot, edits, submits, vouched, saved>>
-----------------------------------------------------------------------------
(* The fields *)

Edited(steps) ==
    /\ step \in steps
    /\ edits < MaxEdits[IF step = "edit" THEN "edit" ELSE "new"]
    /\ edits' = edits + 1

Patch(f) ==
    /\ Commit(f, step, FALSE)
    /\ UNCHANGED <<sub, pot, submits, vouched, saved>>

BasicsStep ==
    /\ Edited({"basics", "edit"})
    /\ \/ Patch([form EXCEPT !.titled = ~@])
       \/ \E raw \in Typed \union {Blank} : Patch([form EXCEPT !.min = raw])

\* Another mode mounts another config step.
PayoutModeStep(m) ==
    /\ Edited({"mode", "edit"}) /\ m # form.mode
    /\ Commit([form EXCEPT !.mode = m], step, TRUE)
    /\ UNCHANGED <<sub, pot, submits, vouched, saved>>

destinationEdited == \E d \in Destinations : Patch(setSlot(form, 1, "d", d))
amountEdited      == \E raw \in Typed \union {Blank} : Patch([form EXCEPT !.amount[form.mode] = raw])
dateEdited        == \E date \in Dates \union {None} : Patch([form EXCEPT !.date[form.mode] = date])

TargetBasedConfigStep ==
    /\ Edited({"config", "edit"}) /\ form.mode = "target_based"
    /\ destinationEdited \/ amountEdited \/ dateEdited

ManualConfigStep ==
    /\ Edited({"config", "edit"}) /\ form.mode = "manual"
    /\ destinationEdited

RecurringConfigStep ==
    /\ Edited({"config", "edit"}) /\ form.mode = "recurring"
    /\ \/ destinationEdited \/ amountEdited \/ dateEdited
       \/ \E days \in {0, 30} : Patch([form EXCEPT !.interval = days])

ScheduledConfigStep ==
    /\ Edited({"config", "edit"}) /\ form.mode = "scheduled"
    /\ Patch([form EXCEPT !.ordered = ~@])

LegCard(i) ==
    /\ Edited({"config", "edit"}) /\ form.mode = "scheduled"
    /\ \/ \E d \in Destinations : Patch(updateLeg(form, i, "d", d))
       \/ \E raw \in Typed \union {Blank} : Patch(updateLeg(form, i, "amount", raw))
       \/ \E date \in Dates \union {None} : Patch(updateLeg(form, i, "date", date))

\* Added after the legs shown, the placeholder included.
addLeg ==
    /\ Edited({"config", "edit"}) /\ form.mode = "scheduled"
    /\ LET legs == IF form.legs = <<>> THEN <<emptyLeg(0)>> ELSE form.legs
       IN  /\ Len(legs) < MaxLegs
           /\ Patch([form EXCEPT !.legs = Append(legs, emptyLeg(Len(legs)))])

\* Mutant of legsWithout: the rest keep their numbers.
legsWithoutRenumbering(legs, i) == RemoveAt(legs, i)

legsWithout(legs, i) ==
    LET rest == RemoveAt(legs, i) IN [j \in DOMAIN rest |-> [rest[j] EXCEPT !.seq = j - 1]]

\* The cards are keyed by position: those behind the removed leg take over other legs.
removeLeg(i) ==
    /\ Edited({"config", "edit"}) /\ form.mode = "scheduled"
    /\ Len(form.legs) > 1 /\ i \in DOMAIN form.legs
    /\ Patch([form EXCEPT !.legs = legsWithout(@, i)])
-----------------------------------------------------------------------------
(* The pages *)

wizardSteps == <<"basics", "mode", "config", "review">>
stepIndex   == CHOOSE i \in DOMAIN wizardSteps : wizardSteps[i] = step
InWizard    == step \in Range(wizardSteps)

canAdvance ==
    CASE step = "basics" -> form.titled
      [] step = "mode"   -> form.mode # None
      [] step = "config" -> isConfigStepValid(form)
      [] OTHER -> FALSE

goNext ==
    /\ InWizard /\ canAdvance /\ sub.pc = "idle"
    /\ Commit(form, wizardSteps[stepIndex + 1], TRUE)
    /\ UNCHANGED <<sub, pot, edits, submits, vouched, saved>>

goBack ==
    /\ InWizard /\ step # "basics"
    /\ Commit(form, wizardSteps[stepIndex - 1], TRUE)
    /\ UNCHANGED <<sub, pot, edits, submits, vouched, saved>>

tabChosen ==
    /\ step \in {"edit", "preview"}
    /\ Commit(form, IF step = "edit" THEN "preview" ELSE "edit", TRUE)
    /\ UNCHANGED <<sub, pot, edits, submits, vouched, saved>>

\* A stored amount is shown as it is.
toWizardAmount(kobo) ==
    IF kobo = Null THEN Blank ELSE [tenths |-> 10 * kobo, point |-> FALSE, blank |-> FALSE]

\* The names come with the stored config.
potToWizardState(p) ==
    LET base == [initialWizardState EXCEPT !.titled = TRUE, !.min = toWizardAmount(p.min),
                                           !.mode = p.mode]
        c    == p.config
    IN  CASE p.mode = "manual" ->
               IF c = NoConfig THEN base
               ELSE [base EXCEPT !.dest["manual"] = [d |-> c.d, name |-> c.d]]
          [] p.mode = "scheduled" ->
               [base EXCEPT !.ordered = c.ordered,
                            !.legs = [i \in DOMAIN c.legs |->
                                        [d |-> c.legs[i].d, name |-> c.legs[i].d, seq |-> c.legs[i].seq,
                                         amount |-> toWizardAmount(c.legs[i].amount),
                                         date |-> c.legs[i].date]]]
          [] OTHER ->
               [base EXCEPT !.dest[p.mode] = [d |-> c.d, name |-> c.d],
                            !.date[p.mode] = c.date,
                            !.amount[p.mode] = toWizardAmount(c.amount),
                            !.interval = IF p.mode = "recurring" THEN c.interval ELSE @]

configDests(c) ==
    IF "legs" \in DOMAIN c THEN {c.legs[i].d : i \in DOMAIN c.legs} ELSE {c.d} \ {None}

\* getPot answers and the form is filled in.  A draft that lost its config throws instead,
\* and the page keeps waiting.
openEdit ==
    /\ step = "pot" /\ pot.row /\ pot.admin
    /\ pot.mode = "manual" \/ pot.config # NoConfig
    /\ Commit(potToWizardState(pot), "edit", TRUE)
    /\ vouched' = configDests(pot.config)
    /\ submits < MaxSubmits /\ edits' = 0 /\ saved' = NoSave
    /\ UNCHANGED <<sub, pot, submits>>
-----------------------------------------------------------------------------
(* The requests *)

\* handleCreate on the review step, handleSave on either tab.
Submit(call) ==
    /\ sub.pc = "idle" /\ submits < MaxSubmits
    /\ sub' = [pc |-> "sent", call |-> call, mode |-> form.mode, min |-> limitInput(form.min),
               config |-> buildPayoutConfig(form), form |-> form]
    /\ submits' = submits + 1
    /\ UNCHANGED <<step, form, cards, pot, edits, vouched, kept, saved>>

handleCreate == step = "review" /\ form.mode # None /\ Submit("create")

handleSave ==
    /\ step \in {"edit", "preview"}
    /\ form.titled /\ form.mode # None /\ isConfigStepValid(form)
    /\ Submit("update")

\* What the compiled JSON schema checks: shapes, and amounts of at least a kobo.
wireValid(s) ==
    /\ s.min # 0
    /\ CASE s.mode = "manual"    -> TRUE
         [] s.mode = "recurring" -> s.config.amount > 0 /\ s.config.interval >= 1
         [] s.mode = "scheduled" -> /\ Len(s.config.legs) > 0
                                    /\ \A i \in DOMAIN s.config.legs : s.config.legs[i].amount > 0
         [] OTHER                -> s.config.amount # 0

\* What validatePayoutModeConfig adds.
refined(s) ==
    s.mode = "target_based" =>
        /\ s.config.date # None \/ s.config.amount # Null
        /\ s.config.amount = Null \/ s.config.amount > OUTBOUND_FEE

\* The legs as they are read back, in the order of sequenceOrder.
inSequenceOrder(legs) ==
    LET sorted == CHOOSE p \in Bijection(DOMAIN legs, DOMAIN legs) :
                     \A i, j \in DOMAIN legs : i < j => legs[p[i]].seq <= legs[p[j]].seq
    IN  [i \in DOMAIN legs |-> legs[sorted[i]]]

\* The config row as it is written and read back.
storedConfig(s) ==
    IF s.mode = "scheduled" THEN [s.config EXCEPT !.legs = inSequenceOrder(@)] ELSE s.config

\* verifyAccountDetails looks every destination up again; "up" is whether all are named.
verified(s, up) == up \/ configDests(s.config) = {}

Accept(row) ==
    /\ pot' = row
    /\ sub' = [sub EXCEPT !.pc = "ok"]
    /\ saved' = [form |-> sub.form, before |-> IF sub.call = "create" THEN 0 ELSE pot.min]

Refuse(row) == pot' = row /\ sub' = [sub EXCEPT !.pc = "failed"] /\ UNCHANGED saved

\* PotsService.create: the row is inserted before its config is validated and verified,
\* and without the member that lets anybody reach it when one of the two fails.
create(up) ==
    LET row == [row |-> TRUE, admin |-> FALSE, mode |-> sub.mode,
                min |-> IF sub.min = Null THEN 0 ELSE sub.min, config |-> NoConfig]
    IN  IF ~wireValid(sub) THEN Refuse(pot)
        ELSE IF ~refined(sub) \/ ~verified(sub, up) THEN Refuse(row)
        ELSE Accept([row EXCEPT !.admin = TRUE, !.config = storedConfig(sub)])

\* PotsService.update: the old config is deleted before the new one is verified.
update(up) ==
    IF ~wireValid(sub) \/ ~refined(sub) THEN Refuse(pot)
    ELSE IF ~verified(sub, up) THEN Refuse([pot EXCEPT !.config = NoConfig])
    ELSE Accept([pot EXCEPT !.mode = sub.mode, !.config = storedConfig(sub),
                            !.min = IF sub.min = Null THEN @ ELSE sub.min])

serve ==
    /\ sub.pc = "sent"
    /\ \E up \in BOOLEAN : IF sub.call = "create" THEN create(up) ELSE update(up)
    /\ UNCHANGED <<step, form, cards, edits, submits, vouched, kept>>

\* The page goes to the pot, or stays and says why not.
answered ==
    /\ sub.pc \in {"ok", "failed"}
    /\ sub' = [pc |-> "idle"]
    /\ IF sub.pc = "ok" THEN Commit(initialWizardState, "pot", TRUE)
       ELSE UNCHANGED <<step, form, cards, kept>>
    /\ UNCHANGED <<pot, edits, submits, vouched, saved>>

WizardNext ==
    \/ \E i \in DOMAIN cards : lookupAnswers(i) \/ LegCard(i) \/ removeLeg(i)
    \/ \E m \in Modes : PayoutModeStep(m)
    \/ render \/ BasicsStep \/ TargetBasedConfigStep \/ ManualConfigStep
    \/ RecurringConfigStep \/ ScheduledConfigStep \/ addLeg
    \/ goNext \/ goBack \/ tabChosen \/ openEdit
    \/ handleCreate \/ handleSave \/ serve \/ answered

WizardSpec == WizardInit /\ [][WizardNext]_wizardVars
-----------------------------------------------------------------------------
(* Properties *)

\* No page sends a destination whose holder's name it has not been told, by a lookup for
\* exactly that account or with the stored draft, however edits, answers that come late,
\* removed legs and remounted cards follow one another.  The one way past it is a leg that
\* kept a name its card does not have, the reset being overwritten by another card's effect
\* or the leg having moved to another card: the next edit does not clear that name.
SubmittedWasConfirmed ==
    sub.pc = "sent" =>
        IF sub.mode \in Singles THEN sub.form.dest[sub.mode].d \in vouched \union {"blank"}
        ELSE \A i \in DOMAIN sub.form.legs :
                sub.form.legs[i].d \in vouched \/ sub.form.legs[i].name \in kept

\* The amounts a request is made from.
amountsOf(f) ==
    {f.min} \union
    CASE f.mode = "scheduled" -> {f.legs[i].amount : i \in DOMAIN f.legs}
      [] f.mode = "manual"    -> {}
      [] OTHER                -> {f.amount[f.mode]}

\* What the pages let through the backend's schemas accept, so that their own checks and
\* the server's agree, but for three kinds of amounts: a positive one that cannot be put on
\* the wire (less than a kobo, or ending in a point), a target amount no higher than the fee
\* next to a target date, and a target amount above the fee by less than a kobo, which
\* isValidTargetAmount compares as typed and the wire cuts down to the fee.
RefusedOnlyForAmounts ==
    sub.pc = "sent" /\ ~(wireValid(sub) /\ refined(sub)) =>
        LET target == sub.form.amount["target_based"]
        IN  \/ \E raw \in amountsOf(sub.form) : raw.tenths > 0 /\ (raw.point \/ raw.tenths < 10)
            \/ /\ sub.mode = "target_based" /\ sub.form.date["target_based"] # None
               /\ ~isValidTargetAmount(target)
            \/ /\ sub.mode = "target_based" /\ target.tenths > 10 * OUTBOUND_FEE
               /\ target.tenths < 10 * (OUTBOUND_FEE + 1)

\* An accepted draft, read back into the form, is what the page showed: the same mode and
\* destinations, amounts cut to the kobo, the legs in the order shown and numbered by it,
\* which is the order in which they will be paid.  A limit that is not set keeps the
\* value it had, also when the user has just emptied its field.
SavedAsShown ==
    sub.pc = "ok" =>
        LET f == saved.form
            g == potToWizardState(pot)
        IN  /\ g.mode = f.mode
            /\ pot.min = IF limitInput(f.min) = Null THEN saved.before ELSE limitInput(f.min)
            /\ f.mode = "scheduled" =>
                 /\ g.ordered = f.ordered /\ Len(g.legs) = Len(f.legs)
                 /\ \A i \in DOMAIN f.legs :
                      /\ g.legs[i].d = f.legs[i].d /\ g.legs[i].date = f.legs[i].date
                      /\ toNairaAmount(g.legs[i].amount) = toNairaAmount(f.legs[i].amount)
                      /\ g.legs[i].seq = i - 1
            /\ f.mode \in Singles =>
                 /\ g.dest[f.mode].d = f.dest[f.mode].d
                 /\ f.mode # "manual" =>
                      /\ g.date[f.mode] = f.date[f.mode]
                      /\ toNairaAmount(g.amount[f.mode]) = toNairaAmount(f.amount[f.mode])
                 /\ f.mode = "recurring" => g.interval = f.interval

\* Page and server agree: what the page lets through is accepted, and what is accepted
\* is what the page showed.
PageAgreesWithServer == RefusedOnlyForAmounts /\ SavedAsShown
=============================================================================
