----------------------------- MODULE Marketplace -----------------------------
(***************************************************************************)
(* A gig and one buyer's checkout of it: the seller writes the gig's       *)
(* packages and add-ons, publishes and hides it, an admin moderates it,    *)
(* the buyer's draft becomes an order (handlers/seller.go,                 *)
(* handlers/checkout.go, handlers/admin.go, store/catalog.go,              *)
(* store/draftorders.go, store/orders.go).                                 *)
(*                                                                         *)
(* A request reads, then acts on what it has read.  A transaction is two   *)
(* steps, the statement that deletes and the one that inserts and commits: *)
(* a statement sees what was committed when it began (READ COMMITTED).  A  *)
(* package or add-on row is known by the form that inserted it; all        *)
(* packages of a form have one price, all add-ons the same.                *)
(*                                                                         *)
(* A definition X_fault just before X is X with a plausible bug in it.  No *)
(* action uses it; it is put in X's place to see a property fail.          *)
(***************************************************************************)
EXTENDS Integers, FiniteSets, Sequences

CONSTANTS
  Edits,           \* the seller's requests handled at once
  Requests,        \* the buyer's requests handled at once
  Tiers,           \* gigTiers
  Forms,           \* bound: what the seller submits, prices in minor units
  AddonPrice,
  PlatformFeeBps,  \* of the configuration
  MaxForms,        \* bound: gig forms submitted
  MaxDrafts,       \* bound: drafts started
  MaxOrders,       \* bound: orders created
  None

ASSUME RequestsAssumption == IsFiniteSet(Requests)
\* parseGigForm asks for a package at least.
ASSUME FormsAssumption ==
  Forms \subseteq [tiers : (SUBSET Tiers) \ {{}}, price : Nat \ {0}, addon : BOOLEAN]
ASSUME PricesAssumption == AddonPrice \in Nat \ {0} /\ PlatformFeeBps \in 0..10000
ASSUME BoundsAssumption == MaxForms \in Nat /\ MaxDrafts \in Nat /\ MaxOrders \in Nat

VARIABLES
  gig,       \* status and moderation_state of the gigs row
  packages,  \* gig_packages rows
  addons,    \* gig_addons rows
  edit,      \* what each of the seller's requests is about to do
  forms,     \* forms submitted so far
  draft,     \* the draft_orders row of the buyer and its add-ons
  drafts,    \* drafts started so far
  req,       \* what each of the buyer's requests has read and is about to do
  orders     \* orders rows, in the order of their creation

vars == <<gig, packages, addons, edit, forms, draft, drafts, req, orders>>

\* paused is archived too: nothing tells them apart but a label.
GigStatuses == {"none", "draft", "active", "paused"}
Gig == [status : GigStatuses, moderation : {"approved", "rejected"}]

\* A row's id stands for the form and the tier.
PackageIds == (1..MaxForms) \X Tiers
Package == [id : PackageIds, price : Nat \ {0}]

\* oldPackages and oldAddons are what the transaction's DELETE has deleted.
NoEdit == [pc |-> "idle", form |-> 0, tiers |-> {}, price |-> 0, addon |-> FALSE,
           oldPackages |-> {}, oldAddons |-> {}]
Edit == [pc : {"idle", "packages", "insertPackages", "addons", "insertAddons", "publish"},
         form : 0..MaxForms, tiers : SUBSET Tiers, price : Nat,
         addon : BOOLEAN, oldPackages : SUBSET PackageIds, oldAddons : SUBSET (1..MaxForms)]

\* shown (not in the row) is the total of the review page, if one was shown since
\* the buyer last changed the draft.
Draft == [id : 1..MaxDrafts, package : PackageIds, addons : SUBSET (1..MaxForms),
          filled : BOOLEAN, shown : Nat]

NoReq == [pc |-> "idle", draft |-> 0, package |-> None, addons |-> {},
          filled |-> FALSE, shown |-> 0, total |-> 0]
Request == [pc : {"idle", "upsert", "set", "gig", "create"},
            draft : 0..MaxDrafts, package : PackageIds \cup {None},
            addons : SUBSET (1..MaxForms), filled : BOOLEAN, shown : Nat, total : Nat]

Order == [draft : 1..MaxDrafts, total : Nat, shown : Nat]

Ids == {p.id : p \in packages}

TypeOK ==
  /\ gig \in Gig
  /\ packages \subseteq Package /\ addons \subseteq 1..MaxForms
  /\ edit \in [Edits -> Edit] /\ forms \in 0..MaxForms
  /\ draft \in Draft \cup {None} /\ drafts \in 0..MaxDrafts
  /\ draft # None => draft.package \in Ids /\ draft.addons \subseteq addons
  /\ req \in [Requests -> Request]
  /\ orders \in Seq(Order)

Init ==
  /\ gig = [status |-> "none", moderation |-> "approved"]
  /\ packages = {} /\ addons = {}
  /\ edit = [e \in Edits |-> NoEdit] /\ forms = 0
  /\ draft = None /\ drafts = 0
  /\ req = [r \in Requests |-> NoReq]
  /\ orders = <<>>

\* What a page or a form reads of the gig: its packages and its add-ons.
loadGigDetail == [packages |-> packages, addons |-> addons]

\* The seller's own views, whatever the gig's status, and the buyer's.
GetGigForOwner == gig.status # "none"
Public == gig.status = "active" /\ gig.moderation = "approved"
GetGigBySlug == Public
GetGigByID == Public

-----------------------------------------------------------------------------
(* The seller's requests and the admin's.                                    *)

EditTo(e, pc) == edit' = [edit EXCEPT ![e].pc = pc]
EditDone(e) == edit' = [edit EXCEPT ![e] = NoEdit]

Submit(e) ==
  /\ forms < MaxForms /\ forms' = forms + 1
  /\ \E f \in Forms :
       edit' = [edit EXCEPT ![e] =
                  [NoEdit EXCEPT !.pc = "packages", !.form = forms + 1, !.tiers = f.tiers,
                                 !.price = f.price, !.addon = f.addon]]

\* The columns' defaults: nobody reviews a gig before it shows.
CreateGig == gig' = [status |-> "draft", moderation |-> "approved"]

sellGigCreate(e) ==
  /\ edit[e].pc = "idle" /\ gig.status = "none"
  /\ Submit(e)
  /\ CreateGig
  /\ UNCHANGED <<packages, addons, draft, drafts, req, orders>>

\* The text only: an edit neither hides the gig nor sends it back to moderation.
UpdateGig == UNCHANGED gig

sellGigUpdate(e) ==
  /\ edit[e].pc = "idle" /\ GetGigForOwner
  /\ Submit(e)
  /\ UpdateGig
  /\ UNCHANGED <<packages, addons, draft, drafts, req, orders>>

\* The DELETE of ReplaceGigPackages.
ReplaceGigPackagesDelete(e) ==
  /\ edit[e].pc = "packages"
  /\ edit' = [edit EXCEPT ![e].pc = "insertPackages", ![e].oldPackages = Ids]
  /\ UNCHANGED <<gig, packages, addons, forms, draft, drafts, req, orders>>

PackageId_keptByTier(e, tier) ==
  IF \E i \in Ids : i[2] = tier THEN CHOOSE i \in Ids : i[2] = tier ELSE <<edit[e].form, tier>>
PackageId(e, tier) == <<edit[e].form, tier>>

\* gig_packages_gig_tier_unique.
Refused_never(e, kept) == FALSE
Refused(e, kept) == \E p \in kept : p.id[2] \in edit[e].tiers

Cascade_none(old) == draft
Cascade(old) == IF draft # None /\ draft.package \in old THEN None ELSE draft

\* Its INSERTs and COMMIT; the drafts of the deleted packages go with them.
ReplaceGigPackagesInsert(e) ==
  LET kept == {p \in packages : p.id \notin edit[e].oldPackages}
      new == {[id |-> PackageId(e, t), price |-> edit[e].price] : t \in edit[e].tiers} IN
  /\ edit[e].pc = "insertPackages"
  /\ IF Refused(e, kept)
     THEN EditDone(e) /\ UNCHANGED <<packages, draft>>
     ELSE /\ packages' = kept \cup new
          /\ draft' = Cascade(edit[e].oldPackages \ {p.id : p \in new})
          /\ EditTo(e, "addons")
  /\ UNCHANGED <<gig, addons, forms, drafts, req, orders>>

\* The DELETE of ReplaceGigAddons.
ReplaceGigAddonsDelete(e) ==
  /\ edit[e].pc = "addons"
  /\ edit' = [edit EXCEPT ![e].pc = "insertAddons", ![e].oldAddons = addons]
  /\ UNCHANGED <<gig, packages, addons, forms, draft, drafts, req, orders>>

\* Its INSERTs and COMMIT; no constraint is on them.
ReplaceGigAddonsInsert(e) ==
  /\ edit[e].pc = "insertAddons"
  /\ addons' = (addons \ edit[e].oldAddons)
                 \cup (IF edit[e].addon THEN {edit[e].form} ELSE {})
  /\ draft' = IF draft = None THEN None
              ELSE [draft EXCEPT !.addons = @ \ edit[e].oldAddons]
  /\ EditDone(e)
  /\ UNCHANGED <<gig, packages, forms, drafts, req, orders>>

MayPublish_anyGig == TRUE
MayPublish == loadGigDetail.packages # {}

\* The packages are read first; pausing and archiving ask for nothing.
sellGigStatus(e) ==
  /\ edit[e].pc = "idle" /\ GetGigForOwner /\ MayPublish
  /\ EditTo(e, "publish")
  /\ UNCHANGED <<gig, packages, addons, forms, draft, drafts, req, orders>>

SetGigStatus(e) ==
  /\ edit[e].pc = "publish"
  /\ gig' = [gig EXCEPT !.status = "active"]
  /\ EditDone(e)
  /\ UNCHANGED <<packages, addons, forms, draft, drafts, req, orders>>

Hide ==
  /\ GetGigForOwner
  /\ gig' = [gig EXCEPT !.status = "paused"]
  /\ UNCHANGED <<packages, addons, edit, forms, draft, drafts, req, orders>>

SetGigModerationStateAdmin(state) == gig' = [gig EXCEPT !.moderation = state]

adminModerationGigDecide ==
  /\ gig.status # "none"
  /\ \E state \in {"approved", "rejected"} : SetGigModerationStateAdmin(state)
  /\ UNCHANGED <<packages, addons, edit, forms, draft, drafts, req, orders>>

EditAborts(e) ==
  /\ edit[e].pc # "idle"
  /\ EditDone(e)
  /\ UNCHANGED <<gig, packages, addons, forms, draft, drafts, req, orders>>

-----------------------------------------------------------------------------
(* The buyer's requests.                                                     *)

Done(r) == req' = [req EXCEPT ![r] = NoReq]

checkoutStart(r) ==
  /\ req[r].pc = "idle" /\ GetGigBySlug
  /\ \E id \in {p.id : p \in loadGigDetail.packages} :
       req' = [req EXCEPT ![r] = [NoReq EXCEPT !.pc = "upsert", !.package = id]]
  /\ UNCHANGED <<gig, packages, addons, edit, forms, draft, drafts, orders>>

\* A package that is gone is refused; one that is being deleted is waited for.
Orderable(id) ==
  id \in Ids /\ \A e \in Edits : edit[e].pc = "insertPackages" => id \notin edit[e].oldPackages

\* The requirements of a draft that is there already stay.
UpsertDraftOrder(r) ==
  /\ req[r].pc = "upsert" /\ Orderable(req[r].package)
  /\ IF draft = None
     THEN /\ drafts < MaxDrafts /\ drafts' = drafts + 1
          /\ draft' = [id |-> drafts + 1, package |-> req[r].package, addons |-> {},
                       filled |-> FALSE, shown |-> 0]
     ELSE /\ draft' = [draft EXCEPT !.package = req[r].package, !.addons = {}, !.shown = 0]
          /\ UNCHANGED drafts
  /\ Done(r)
  /\ UNCHANGED <<gig, packages, addons, edit, forms, orders>>

\* What a request reads of the draft.
loadDraftOrder ==
  [NoReq EXCEPT !.draft = draft.id, !.package = draft.package, !.addons = draft.addons,
                !.filled = draft.filled, !.shown = draft.shown]

loadOwnedDraft == draft # None /\ GetGigByID

\* The add-ons the form may name are the gig's.
checkoutRequirementsSubmit(r) ==
  /\ req[r].pc = "idle" /\ loadOwnedDraft
  /\ \E chosen \in SUBSET loadGigDetail.addons :
       req' = [req EXCEPT ![r] =
                 [NoReq EXCEPT !.pc = "set", !.draft = draft.id, !.addons = chosen]]
  /\ UNCHANGED <<gig, packages, addons, edit, forms, draft, drafts, orders>>

\* A draft that is gone, or an add-on that is, leaves nothing written.
SetDraftOrderRequirements(r) ==
  /\ req[r].pc = "set"
  /\ draft' = IF draft # None /\ draft.id = req[r].draft /\ req[r].addons \subseteq addons
              THEN [draft EXCEPT !.filled = TRUE, !.addons = req[r].addons, !.shown = 0]
              ELSE draft
  /\ Done(r)
  /\ UNCHANGED <<gig, packages, addons, edit, forms, drafts, orders>>

\* Integer division rounds the fee down.
CalculateOrderTotals(price, n) ==
  LET subtotal == price + n * AddonPrice
  IN  subtotal + (subtotal * PlatformFeeBps) \div 10000

PriceOf(id) == (CHOOSE p \in packages : p.id = id).price

checkoutReview ==
  /\ loadOwnedDraft /\ draft.filled
  /\ draft' = [draft EXCEPT !.shown =
                 CalculateOrderTotals(PriceOf(draft.package), Cardinality(draft.addons))]
  /\ UNCHANGED <<gig, packages, addons, edit, forms, drafts, req, orders>>

\* loadOwnedDraft in two steps, the draft here, the gig in confirmGig.
checkoutConfirm(r) ==
  /\ req[r].pc = "idle" /\ draft # None
  /\ req' = [req EXCEPT ![r] = [loadDraftOrder EXCEPT !.pc = "gig"]]
  /\ UNCHANGED <<gig, packages, addons, edit, forms, draft, drafts, orders>>

\* An add-on that is gone by now is left out.
selectedAddons(r) == req[r].addons \cap loadGigDetail.addons

\* From here on the request works with what it has read.
confirmGig(r) ==
  /\ req[r].pc = "gig" /\ GetGigByID
  /\ req[r].package \in Ids /\ req[r].filled
  /\ req' = [req EXCEPT ![r] =
       [NoReq EXCEPT !.pc = "create", !.draft = req[r].draft, !.shown = req[r].shown,
          !.total = CalculateOrderTotals(PriceOf(req[r].package),
                                         Cardinality(selectedAddons(r)))]]
  /\ UNCHANGED <<gig, packages, addons, edit, forms, draft, drafts, orders>>

Converted_kept(id) == draft
Converted(id) == IF draft # None /\ draft.id = id THEN None ELSE draft

\* Whether there was a draft to delete is not looked at.
CreateOrderFromDraft(r) ==
  /\ req[r].pc = "create" /\ Len(orders) < MaxOrders
  /\ orders' = Append(orders, [draft |-> req[r].draft, total |-> req[r].total,
                               shown |-> req[r].shown])
  /\ draft' = Converted(req[r].draft)
  /\ Done(r)
  /\ UNCHANGED <<gig, packages, addons, edit, forms, drafts>>

RequestAborts(r) ==
  /\ req[r].pc # "idle"
  /\ Done(r)
  /\ UNCHANGED <<gig, packages, addons, edit, forms, draft, drafts, orders>>

Next ==
  \/ \E e \in Edits :
       \/ sellGigCreate(e) \/ sellGigUpdate(e)
       \/ ReplaceGigPackagesDelete(e) \/ ReplaceGigPackagesInsert(e)
       \/ ReplaceGigAddonsDelete(e) \/ ReplaceGigAddonsInsert(e)
       \/ sellGigStatus(e) \/ SetGigStatus(e) \/ EditAborts(e)
  \/ Hide \/ adminModerationGigDecide
  \/ \E r \in Requests :
       \/ checkoutStart(r) \/ UpsertDraftOrder(r)
       \/ checkoutRequirementsSubmit(r) \/ SetDraftOrderRequirements(r)
       \/ checkoutConfirm(r) \/ confirmGig(r) \/ CreateOrderFromDraft(r)
       \/ RequestAborts(r)
  \/ checkoutReview

Spec == Init /\ [][Next]_vars

-----------------------------------------------------------------------------
(* Properties.                                                               *)

\* A published gig can be ordered: whatever forms are saved at once, fail half-way
\* or race with publishing, a gig that was read with a package keeps having one.
ActiveGigSells == gig.status = "active" => packages # {}

\* Two forms saved at once may both leave their packages, but never two of a tier.
OnePackagePerTier ==
  \A p, q \in packages : p.id[2] = q.id[2] => p = q

\* The buyer never pays more than the review page showed, although the order is
\* priced anew from the rows, and whatever the seller saves in between: a change
\* of price takes the draft with it.
NeverDearerThanShown ==
  \A i \in DOMAIN orders : orders[i].shown # 0 => orders[i].total <= orders[i].shown

\* A draft becomes at most as many orders as there are confirmations at once; with
\* none in flight it is gone.
OrdersPerDraftBounded ==
  \A d \in 1..drafts :
    Cardinality({i \in DOMAIN orders : orders[i].draft = d}) <= Cardinality(Requests)

=============================================================================
