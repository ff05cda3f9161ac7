-------------------------- MODULE MarketplaceProofs ---------------------------
(***************************************************************************)
(* Theorems about Marketplace, for any number of forms saved and drafts    *)
(* confirmed at once, any tiers, prices and fee.                           *)
(***************************************************************************)
EXTENDS Marketplace, FiniteSetTheorems, TLAPS

(***************************************************************************)
(* Totals.                                                                 *)
(***************************************************************************)
\* An order's total is a whole amount, and no less with more add-ons.
LEMMA TotalsGrow ==
  ASSUME NEW price \in Nat, NEW m \in Nat, NEW n \in Nat, m <= n
  PROVE  /\ CalculateOrderTotals(price, m) \in Nat
         /\ CalculateOrderTotals(price, m) <= CalculateOrderTotals(price, n)
<1> DEFINE total(s) == s + (s * PlatformFeeBps) \div 10000
<1>1. ASSUME NEW a \in Nat, NEW b \in Nat, NEW c \in Nat, a <= b
      PROVE  a * c \in Nat /\ b * c \in Nat /\ a * c <= b * c
  <2>1. \A k \in Nat : k * c \in Nat /\ (a + k) * c = a * c + k * c
    OBVIOUS
  <2>2. PICK k \in Nat : b = a + k
    <3>1. b - a \in Nat /\ b = a + (b - a)
      BY <1>1
    <3> QED  BY <3>1
  <2>3. a * c \in Nat /\ b * c = a * c + k * c /\ k * c \in Nat
    BY <2>1, <2>2
  <2>4. \A x, y, z \in Nat : y = x + z => x <= y
    OBVIOUS
  <2>5. b * c \in Nat
    BY <2>3
  <2> QED  BY <2>3, <2>4, <2>5
<1>2. \A x, y \in Nat : x <= y => x \div 10000 \in Nat /\ x \div 10000 <= y \div 10000
  OBVIOUS
<1>3. \A s, t \in Nat : s <= t => total(s) \in Nat /\ total(s) <= total(t)
  <2> SUFFICES ASSUME NEW s \in Nat, NEW t \in Nat, s <= t
               PROVE  total(s) \in Nat /\ total(s) <= total(t)
    OBVIOUS
  <2>1. /\ s * PlatformFeeBps \in Nat /\ t * PlatformFeeBps \in Nat
        /\ s * PlatformFeeBps <= t * PlatformFeeBps
    BY <1>1, PricesAssumption
  <2>2. /\ (s * PlatformFeeBps) \div 10000 \in Nat /\ (t * PlatformFeeBps) \div 10000 \in Nat
        /\ (s * PlatformFeeBps) \div 10000 <= (t * PlatformFeeBps) \div 10000
    BY <1>2, <2>1
  <2>3. \A x, y \in Nat : x <= y => s + x \in Nat /\ s + x <= t + y
    OBVIOUS
  <2> QED  BY <2>2, <2>3
<1>4. m * AddonPrice \in Nat /\ n * AddonPrice \in Nat /\ m * AddonPrice <= n * AddonPrice
  BY <1>1, PricesAssumption
<1>5. /\ price + m * AddonPrice \in Nat /\ price + n * AddonPrice \in Nat
      /\ price + m * AddonPrice <= price + n * AddonPrice
  <2>1. \A x, y \in Nat : x <= y => price + x \in Nat /\ price + y \in Nat /\ price + x <= price + y
    OBVIOUS
  <2> QED  BY <1>4, <2>1
<1>6. /\ CalculateOrderTotals(price, m) = total(price + m * AddonPrice)
      /\ CalculateOrderTotals(price, n) = total(price + n * AddonPrice)
  BY DEF CalculateOrderTotals
<1> HIDE DEF total
<1> QED  BY <1>3, <1>5, <1>6

\* Add-ons are counted.
LEMMA AddonsCounted ==
  ASSUME NEW S \in SUBSET (1..MaxForms), NEW T \in SUBSET S
  PROVE  /\ Cardinality(S) \in Nat /\ Cardinality(T) \in Nat
         /\ Cardinality(T) <= Cardinality(S)
<1>1. IsFiniteSet(1..MaxForms)
  BY BoundsAssumption, FS_Interval
<1>2. IsFiniteSet(S)
  BY <1>1, FS_Subset
<1> QED  BY <1>2, FS_Subset, FS_CardinalityType

LEMMA TotalTyped ==
  ASSUME NEW price \in Nat, NEW S \in SUBSET (1..MaxForms)
  PROVE  CalculateOrderTotals(price, Cardinality(S)) \in Nat
<1>1. Cardinality(S) \in Nat
  BY AddonsCounted
<1> QED  BY <1>1, TotalsGrow

\* A package that is there has a price.
LEMMA PriceFound ==
  ASSUME TypeOK, NEW id \in Ids
  PROVE  \E p \in packages : p.id = id /\ PriceOf(id) = p.price /\ PriceOf(id) \in Nat
<1>1. \E p \in packages : p.id = id
  BY DEF Ids
<1> DEFINE c == CHOOSE p \in packages : p.id = id
<1>2. c \in packages /\ c.id = id
  BY <1>1
<1>3. c.price \in Nat
  BY <1>2 DEF TypeOK, Package
<1> QED  BY <1>2, <1>3 DEF PriceOf

(***************************************************************************)
(* Types.                                                                  *)
(***************************************************************************)
Writing == {"packages", "insertPackages", "addons", "insertAddons"}
Confirming == {"gig", "create"}

\* A form that is being saved has been submitted with a package and a price.
EditInv ==
  \A e \in Edits : edit[e].pc \in Writing =>
    edit[e].form \in 1..forms /\ edit[e].tiers # {} /\ edit[e].price # 0

\* A draft, and what a confirmation has read of one, has been started.
DraftInv ==
  /\ draft # None => draft.id \in 1..drafts
  /\ \A r \in Requests : req[r].pc \in Confirming => req[r].draft \in 1..drafts

Typed == TypeOK /\ EditInv /\ DraftInv

EditsTyped == edit \in [Edits -> Edit] /\ EditInv
RequestsTyped ==
  /\ req \in [Requests -> Request]
  /\ \A r \in Requests : req[r].pc \in Confirming => req[r].draft \in 1..drafts

LEMMA NoneTyped ==
  /\ NoEdit \in Edit /\ NoEdit.pc = "idle" /\ NoReq \in Request /\ NoReq.pc = "idle"
<1>1. 0 \in 0..MaxForms /\ 0 \in 0..MaxDrafts
  BY BoundsAssumption
<1> QED  BY <1>1 DEF NoEdit, Edit, NoReq, Request

LEMMA EditKept ==
  ASSUME Typed, NEW e \in Edits, NEW x \in Edit, edit' = [edit EXCEPT ![e] = x],
         forms' \in Nat, forms <= forms',
         x.pc \in Writing => x.form \in 1..forms' /\ x.tiers # {} /\ x.price # 0
  PROVE  EditsTyped'
<1>1. edit' \in [Edits -> Edit]
  BY DEF Typed, TypeOK
<1>2. forms \in Nat
  BY BoundsAssumption DEF Typed, TypeOK
<1>3. ASSUME NEW f \in Edits, edit'[f].pc \in Writing
      PROVE  edit'[f].form \in 1..forms' /\ edit'[f].tiers # {} /\ edit'[f].price # 0
  <2>1. CASE f = e
    BY <1>3, <2>1 DEF Typed, TypeOK
  <2>2. CASE f # e
    <3>1. edit'[f] = edit[f]
      BY <2>2 DEF Typed, TypeOK
    <3>2. edit[f].form \in 1..forms /\ edit[f].tiers # {} /\ edit[f].price # 0
      BY <1>3, <3>1 DEF Typed, EditInv
    <3> QED  BY <1>2, <3>1, <3>2
  <2> QED  BY <2>1, <2>2
<1> QED  BY <1>1, <1>3 DEF EditsTyped, EditInv

LEMMA RequestKept ==
  ASSUME Typed, NEW r \in Requests, NEW x \in Request, req' = [req EXCEPT ![r] = x],
         drafts' \in Nat, drafts <= drafts',
         x.pc \in Confirming => x.draft \in 1..drafts'
  PROVE  RequestsTyped'
<1>1. req' \in [Requests -> Request]
  BY DEF Typed, TypeOK
<1>2. drafts \in Nat
  BY BoundsAssumption DEF Typed, TypeOK
<1>3. ASSUME NEW q \in Requests, req'[q].pc \in Confirming
      PROVE  req'[q].draft \in 1..drafts'
  <2>1. CASE q = r
    BY <1>3, <2>1 DEF Typed, TypeOK
  <2>2. CASE q # r
    <3>1. req'[q] = req[q]
      BY <2>2 DEF Typed, TypeOK
    <3>2. req[q].draft \in 1..drafts
      BY <1>3, <3>1 DEF Typed, DraftInv
    <3> QED  BY <1>2, <3>1, <3>2
  <2> QED  BY <2>1, <2>2
<1> QED  BY <1>1, <1>3 DEF RequestsTyped

LEMMA EditMoved ==
  ASSUME Typed, NEW e \in Edits,
         \/ EditDone(e)
         \/ \E pc \in Writing : edit[e].pc \in Writing /\ EditTo(e, pc)
         \/ EditTo(e, "publish"),
         UNCHANGED forms
  PROVE  EditsTyped'
<1>t. edit[e] \in Edit /\ forms' \in Nat /\ forms' = forms /\ forms <= forms'
  BY BoundsAssumption DEF Typed, TypeOK
<1>1. CASE EditDone(e)
  <2>1. edit' = [edit EXCEPT ![e] = NoEdit] /\ NoEdit.pc \notin Writing
    BY <1>1, NoneTyped DEF EditDone, Writing
  <2> QED  BY <1>t, <2>1, NoneTyped, EditKept
<1>2. ASSUME NEW pc \in Writing \cup {"publish"}, EditTo(e, pc), pc \in Writing => edit[e].pc \in Writing
      PROVE  EditsTyped'
  <2> DEFINE x == [edit[e] EXCEPT !.pc = pc]
  <2>1. /\ x \in Edit /\ x.pc = pc /\ x.form = edit[e].form /\ x.tiers = edit[e].tiers
        /\ x.price = edit[e].price
    BY <1>t DEF Edit, Writing
  <2>2. edit' = [edit EXCEPT ![e] = x]
    BY <1>2 DEF EditTo
  <2> HIDE DEF x
  <2>3. x.pc \in Writing => x.form \in 1..forms' /\ x.tiers # {} /\ x.price # 0
    BY <1>2, <2>1 DEF Typed, EditInv
  <2> QED  BY <1>t, <2>1, <2>2, <2>3, EditKept
<1>3. "publish" \notin Writing
  BY DEF Writing
<1> QED  BY <1>1, <1>2, <1>3

\* What is left alone stays typed.
LEMMA FrameTyped ==
  ASSUME Typed
  PROVE  /\ UNCHANGED <<edit, forms>> => EditsTyped'
         /\ UNCHANGED <<req, drafts>> => RequestsTyped'
         /\ UNCHANGED gig => gig' \in Gig
BY DEF Typed, TypeOK, EditInv, DraftInv, EditsTyped, RequestsTyped

DraftRow == draft \in Draft \cup {None}
            /\ (draft # None => draft.package \in Ids /\ draft.addons \subseteq addons
                                /\ draft.id \in 1..drafts)

LEMMA TypedFrom ==
  ASSUME gig' \in Gig, packages' \subseteq Package, addons' \subseteq 1..MaxForms, EditsTyped',
         forms' \in 0..MaxForms, DraftRow', drafts' \in 0..MaxDrafts, RequestsTyped',
         orders' \in Seq(Order)
  PROVE  Typed'
BY DEF Typed, TypeOK, EditInv, DraftInv, EditsTyped, RequestsTyped, DraftRow

LEMMA RowsTyped ==
  ASSUME Typed
  PROVE  /\ gig \in Gig /\ packages \subseteq Package /\ addons \subseteq 1..MaxForms
         /\ edit \in [Edits -> Edit] /\ forms \in 0..MaxForms /\ forms \in Nat
         /\ draft \in Draft \cup {None} /\ drafts \in 0..MaxDrafts /\ drafts \in Nat
         /\ DraftRow /\ req \in [Requests -> Request] /\ orders \in Seq(Order)
BY BoundsAssumption DEF Typed, TypeOK, DraftInv, DraftRow

LEMMA SubmitTyped ==
  ASSUME Typed, NEW e \in Edits, Submit(e)
  PROVE  EditsTyped' /\ forms' \in 0..MaxForms
<1>1. forms \in 0..MaxForms /\ MaxForms \in Nat /\ forms' = forms + 1 /\ forms < MaxForms
  BY RowsTyped, BoundsAssumption DEF Submit
<1>2. PICK f \in Forms :
        edit' = [edit EXCEPT ![e] =
                   [NoEdit EXCEPT !.pc = "packages", !.form = forms + 1, !.tiers = f.tiers,
                                  !.price = f.price, !.addon = f.addon]]
  BY DEF Submit
<1>3. f.tiers \in (SUBSET Tiers) \ {{}} /\ f.price \in Nat \ {0} /\ f.addon \in BOOLEAN
  BY FormsAssumption
<1> DEFINE x == [NoEdit EXCEPT !.pc = "packages", !.form = forms + 1, !.tiers = f.tiers,
                               !.price = f.price, !.addon = f.addon]
<1>4. x \in Edit /\ x.form = forms + 1 /\ x.tiers # {} /\ x.price # 0
  <2>1. forms + 1 \in 0..MaxForms /\ f.price \in Nat /\ f.tiers \in SUBSET Tiers
    BY <1>1, <1>3
  <2>2. x \in Edit /\ x.form = forms + 1 /\ x.tiers = f.tiers /\ x.price = f.price
    BY <1>3, <2>1, NoneTyped DEF Edit
  <2> HIDE DEF x
  <2> QED  BY <1>3, <2>2
<1>5. edit' = [edit EXCEPT ![e] = x]
  BY <1>2
<1> HIDE DEF x
<1>6. forms' \in 0..MaxForms /\ forms' \in Nat /\ forms <= forms' /\ forms + 1 \in 1..forms'
  BY <1>1
<1> QED  BY <1>4, <1>5, <1>6, EditKept

LEMMA SellerTyped ==
  ASSUME Typed, NEW e \in Edits,
         \/ sellGigCreate(e) \/ sellGigUpdate(e) \/ ReplaceGigPackagesDelete(e)
         \/ ReplaceGigAddonsDelete(e) \/ sellGigStatus(e) \/ SetGigStatus(e) \/ EditAborts(e)
  PROVE  Typed'
<1>t. /\ gig \in Gig /\ packages \subseteq Package /\ addons \subseteq 1..MaxForms
      /\ edit \in [Edits -> Edit] /\ forms \in 0..MaxForms /\ drafts \in 0..MaxDrafts
      /\ DraftRow /\ orders \in Seq(Order)
  BY RowsTyped
<1>f. UNCHANGED <<packages, addons, draft, drafts, req, orders>>
  BY DEF sellGigCreate, sellGigUpdate, ReplaceGigPackagesDelete, ReplaceGigAddonsDelete, sellGigStatus,
     SetGigStatus, EditAborts
<1>1. gig' \in Gig
  BY <1>t DEF sellGigCreate, CreateGig, sellGigUpdate, UpdateGig, ReplaceGigPackagesDelete,
     ReplaceGigAddonsDelete, sellGigStatus, SetGigStatus, EditAborts, Gig, GigStatuses
<1>2. EditsTyped' /\ forms' \in 0..MaxForms
  <2>1. CASE sellGigCreate(e) \/ sellGigUpdate(e)
    BY <2>1, SubmitTyped DEF sellGigCreate, sellGigUpdate
  <2>2. CASE sellGigStatus(e) \/ SetGigStatus(e) \/ EditAborts(e)
    <3>1. UNCHANGED forms /\ (EditTo(e, "publish") \/ EditDone(e))
      BY <2>2 DEF sellGigStatus, SetGigStatus, EditAborts
    <3> QED  BY <1>t, <3>1, EditMoved
  <2>3. CASE ReplaceGigPackagesDelete(e) \/ ReplaceGigAddonsDelete(e)
    <3>1. UNCHANGED forms /\ edit[e].pc \in Writing
      BY <2>3 DEF ReplaceGigPackagesDelete, ReplaceGigAddonsDelete, Writing
    <3>2. /\ forms' \in Nat /\ forms <= forms' /\ edit[e] \in Edit
          /\ edit[e].form \in 1..forms /\ edit[e].tiers # {} /\ edit[e].price # 0
      BY <1>t, <3>1, RowsTyped DEF Typed, EditInv
    <3>3. PICK x \in Edit : /\ edit' = [edit EXCEPT ![e] = x]
                            /\ x.form = edit[e].form /\ x.tiers = edit[e].tiers /\ x.price = edit[e].price
      <4>1. CASE ReplaceGigPackagesDelete(e)
        <5> DEFINE y == [edit[e] EXCEPT !.pc = "insertPackages", !.oldPackages = Ids]
        <5>1. Ids \in SUBSET PackageIds
          BY <1>t DEF Ids, Package
        <5>2. /\ y \in Edit /\ y.form = edit[e].form /\ y.tiers = edit[e].tiers
              /\ y.price = edit[e].price
          BY <3>2, <5>1 DEF Edit
        <5>3. edit' = [edit EXCEPT ![e] = y]
          BY <4>1, <1>t DEF ReplaceGigPackagesDelete
        <5> HIDE DEF y
        <5> QED  BY <5>2, <5>3
      <4>2. CASE ReplaceGigAddonsDelete(e)
        <5> DEFINE y == [edit[e] EXCEPT !.pc = "insertAddons", !.oldAddons = addons]
        <5>2. /\ y \in Edit /\ y.form = edit[e].form /\ y.tiers = edit[e].tiers
              /\ y.price = edit[e].price
          BY <1>t, <3>2 DEF Edit
        <5>3. edit' = [edit EXCEPT ![e] = y]
          BY <4>2, <1>t DEF ReplaceGigAddonsDelete
        <5> HIDE DEF y
        <5> QED  BY <5>2, <5>3
      <4> QED  BY <2>3, <4>1, <4>2
    <3>4. x.form \in 1..forms' /\ x.tiers # {} /\ x.price # 0
      BY <3>1, <3>2, <3>3
    <3> QED  BY <1>t, <3>1, <3>2, <3>3, <3>4, EditKept
  <2> QED  BY <2>1, <2>2, <2>3
<1>3. RequestsTyped' /\ DraftRow'
  BY <1>t, <1>f, FrameTyped DEF DraftRow, Ids
<1> QED  BY <1>t, <1>f, <1>1, <1>2, <1>3, TypedFrom

\* The rows a form leaves: those the transaction did not see, and its own.
Kept(e) == {p \in packages : p.id \notin edit[e].oldPackages}
New(e) == {[id |-> PackageId(e, t), price |-> edit[e].price] : t \in edit[e].tiers}

LEMMA NewPackages ==
  ASSUME Typed, NEW e \in Edits, edit[e].pc = "insertPackages"
  PROVE  /\ New(e) \subseteq Package /\ New(e) # {}
         /\ \A p \in New(e) : /\ p.price = edit[e].price /\ p.id[1] = edit[e].form
                              /\ p.id[2] \in edit[e].tiers /\ p.id = PackageId(e, p.id[2])
         /\ edit[e].form \in 1..forms
<1>1. /\ edit[e] \in Edit /\ edit[e].form \in 1..forms /\ edit[e].tiers # {} /\ edit[e].price # 0
  BY DEF Typed, TypeOK, EditInv, Writing
<1>2. edit[e].form \in 1..MaxForms /\ edit[e].price \in Nat \ {0} /\ edit[e].tiers \subseteq Tiers
  BY <1>1, RowsTyped, BoundsAssumption DEF Edit
<1>3. \A t \in edit[e].tiers : /\ PackageId(e, t) \in PackageIds
                               /\ PackageId(e, t)[1] = edit[e].form /\ PackageId(e, t)[2] = t
  BY <1>2 DEF PackageId, PackageIds
<1>4. ASSUME NEW p \in New(e)
      PROVE  /\ p \in Package /\ p.price = edit[e].price /\ p.id[1] = edit[e].form
             /\ p.id[2] \in edit[e].tiers /\ p.id = PackageId(e, p.id[2])
  <2>1. PICK t \in edit[e].tiers : p = [id |-> PackageId(e, t), price |-> edit[e].price]
    BY DEF New
  <2>2. p.id = PackageId(e, t) /\ p.price = edit[e].price
    BY <2>1
  <2>3. p \in Package
    BY <1>2, <1>3, <2>1 DEF Package
  <2> QED  BY <1>3, <2>2, <2>3
<1>5. New(e) # {}
  BY <1>1 DEF New
<1> QED  BY <1>1, <1>4, <1>5

\* Saving the packages is refused, or leaves the rows it did not see and the form's own.
LEMMA InsertEffect ==
  ASSUME NEW e \in Edits, ReplaceGigPackagesInsert(e)
  PROVE  /\ edit[e].pc = "insertPackages"
         /\ UNCHANGED <<gig, addons, forms, drafts, req, orders>>
         /\ \/ EditDone(e) /\ UNCHANGED <<packages, draft>>
            \/ /\ ~Refused(e, Kept(e)) /\ EditTo(e, "addons")
               /\ packages' = Kept(e) \cup New(e)
               /\ draft' \in {draft, None}
               /\ draft' # None => draft.package \notin edit[e].oldPackages \ {p.id : p \in New(e)}
BY DEF ReplaceGigPackagesInsert, Kept, New, Cascade

LEMMA InsertTyped ==
  ASSUME Typed, NEW e \in Edits, ReplaceGigPackagesInsert(e)
  PROVE  Typed'
<1>t. /\ gig \in Gig /\ packages \subseteq Package /\ addons \subseteq 1..MaxForms
      /\ forms \in 0..MaxForms /\ drafts \in 0..MaxDrafts
      /\ DraftRow /\ orders \in Seq(Order)
  BY RowsTyped
<1>f. edit[e].pc = "insertPackages" /\ UNCHANGED <<gig, addons, forms, drafts, req, orders>>
  BY InsertEffect
<1>1. EditsTyped'
  <2>1. EditDone(e) \/ EditTo(e, "addons")
    BY InsertEffect
  <2>2. edit[e].pc \in Writing /\ "addons" \in Writing
    BY <1>f DEF Writing
  <2> QED  BY <1>f, <2>1, <2>2, EditMoved
<1>2. packages' \subseteq Package /\ DraftRow'
  <2>1. CASE UNCHANGED <<packages, draft>>
    BY <1>t, <1>f, <2>1 DEF DraftRow, Ids
  <2>2. CASE /\ packages' = Kept(e) \cup New(e)
             /\ draft' \in {draft, None}
             /\ draft' # None => draft.package \notin edit[e].oldPackages \ {p.id : p \in New(e)}
    <3>1. packages' \subseteq Package
      BY <1>t, <1>f, <2>2, NewPackages DEF Kept
    <3>2. ASSUME draft' # None
          PROVE  draft'.package \in Ids'
      <4>1. draft' = draft /\ draft.package \in Ids
        BY <1>t, <2>2, <3>2 DEF DraftRow
      <4>2. PICK p \in packages : p.id = draft.package
        BY <4>1 DEF Ids
      <4>3. CASE draft.package \in {q.id : q \in New(e)}
        BY <2>2, <4>1, <4>3 DEF Ids
      <4>4. CASE draft.package \notin edit[e].oldPackages
        <5>1. p \in packages'
          BY <2>2, <4>2, <4>4 DEF Kept
        <5> QED  BY <4>1, <4>2, <5>1 DEF Ids
      <4> QED  BY <2>2, <3>2, <4>3, <4>4
    <3> QED  BY <1>t, <1>f, <2>2, <3>1, <3>2 DEF DraftRow
  <2> QED  BY <2>1, <2>2, InsertEffect
<1>3. RequestsTyped'
  BY <1>f, FrameTyped
<1> QED  BY <1>t, <1>f, <1>1, <1>2, <1>3, TypedFrom

LEMMA AddonsTyped ==
  ASSUME Typed, NEW e \in Edits, ReplaceGigAddonsInsert(e)
  PROVE  Typed'
<1>t. /\ gig \in Gig /\ packages \subseteq Package /\ addons \subseteq 1..MaxForms
      /\ forms \in 0..MaxForms /\ drafts \in 0..MaxDrafts
      /\ DraftRow /\ orders \in Seq(Order)
  BY RowsTyped
<1>f. /\ edit[e].pc = "insertAddons" /\ EditDone(e)
      /\ UNCHANGED <<gig, packages, forms, drafts, req, orders>>
  BY DEF ReplaceGigAddonsInsert
<1>1. edit[e].form \in 1..MaxForms
  <2>1. edit[e].form \in 1..forms
    BY <1>f DEF Typed, EditInv, Writing
  <2> QED  BY <1>t, <2>1, BoundsAssumption
<1>2. addons' \subseteq 1..MaxForms /\ addons \ edit[e].oldAddons \subseteq addons'
  BY <1>t, <1>1 DEF ReplaceGigAddonsInsert
<1>3. DraftRow'
  <2>1. CASE draft = None
    BY <2>1 DEF ReplaceGigAddonsInsert, DraftRow
  <2>2. CASE draft # None
    <3>1. /\ draft' = [draft EXCEPT !.addons = @ \ edit[e].oldAddons]
          /\ draft \in Draft /\ draft.package \in Ids /\ draft.addons \subseteq addons
          /\ draft.id \in 1..drafts
      BY <1>t, <2>2 DEF ReplaceGigAddonsInsert, DraftRow
    <3>2. /\ draft' \in Draft /\ draft'.package = draft.package /\ draft'.id = draft.id
          /\ draft'.addons = draft.addons \ edit[e].oldAddons
      BY <3>1 DEF Draft
    <3>3. draft'.addons \subseteq addons' /\ Ids' = Ids
      BY <1>f, <1>2, <3>1, <3>2 DEF Ids
    <3> QED  BY <1>f, <3>1, <3>2, <3>3 DEF DraftRow
  <2> QED  BY <2>1, <2>2
<1>4. EditsTyped' /\ RequestsTyped'
  BY <1>f, EditMoved, FrameTyped
<1> QED  BY <1>t, <1>f, <1>2, <1>3, <1>4, TypedFrom

LEMMA HidingTyped ==
  ASSUME Typed, Hide \/ adminModerationGigDecide \/ UNCHANGED vars
  PROVE  Typed'
<1>t. /\ gig \in Gig /\ packages \subseteq Package /\ addons \subseteq 1..MaxForms
      /\ forms \in 0..MaxForms /\ drafts \in 0..MaxDrafts
      /\ DraftRow /\ orders \in Seq(Order)
  BY RowsTyped
<1>1. gig' \in Gig
  BY <1>t DEF Hide, adminModerationGigDecide, SetGigModerationStateAdmin, vars, Gig, GigStatuses
<1>2. UNCHANGED <<packages, addons, edit, forms, draft, drafts, req, orders>>
  BY DEF Hide, adminModerationGigDecide, vars
<1>3. EditsTyped' /\ RequestsTyped' /\ DraftRow'
  BY <1>t, <1>2, FrameTyped DEF DraftRow, Ids
<1> QED  BY <1>t, <1>1, <1>2, <1>3, TypedFrom

(***************************************************************************)
(* The buyer's requests.                                                   *)
(***************************************************************************)
OthersSame(r) == \A q \in Requests \ {r} : req'[q] = req[q]

LEMMA RequestSet ==
  ASSUME Typed, NEW r \in Requests, NEW x, req' = [req EXCEPT ![r] = x]
  PROVE  req'[r] = x /\ OthersSame(r)
BY DEF Typed, TypeOK, OthersSame

\* What a confirmation reads of the draft.
LEMMA DraftRead ==
  ASSUME Typed, draft # None
  PROVE  /\ [loadDraftOrder EXCEPT !.pc = "gig"] \in Request
         /\ [loadDraftOrder EXCEPT !.pc = "gig"].pc = "gig"
         /\ [loadDraftOrder EXCEPT !.pc = "gig"].draft = draft.id
         /\ [loadDraftOrder EXCEPT !.pc = "gig"].package = draft.package
         /\ [loadDraftOrder EXCEPT !.pc = "gig"].addons = draft.addons
         /\ [loadDraftOrder EXCEPT !.pc = "gig"].shown = draft.shown
<1>1. draft \in Draft
  BY RowsTyped
<1>2. /\ draft.id \in 0..MaxDrafts /\ draft.package \in PackageIds /\ draft.filled \in BOOLEAN
      /\ draft.addons \in SUBSET (1..MaxForms) /\ draft.shown \in Nat
  BY <1>1, BoundsAssumption DEF Draft
<1>3. [loadDraftOrder EXCEPT !.pc = "gig"] \in Request
  BY <1>2, NoneTyped DEF loadDraftOrder, Request
<1>4. /\ [loadDraftOrder EXCEPT !.pc = "gig"].pc = "gig"
      /\ [loadDraftOrder EXCEPT !.pc = "gig"].draft = draft.id
      /\ [loadDraftOrder EXCEPT !.pc = "gig"].package = draft.package
      /\ [loadDraftOrder EXCEPT !.pc = "gig"].addons = draft.addons
      /\ [loadDraftOrder EXCEPT !.pc = "gig"].shown = draft.shown
  BY NoneTyped DEF loadDraftOrder, Request
<1> QED  BY <1>3, <1>4

\* The total a confirmation works out.
Total(r) == CalculateOrderTotals(PriceOf(req[r].package), Cardinality(selectedAddons(r)))

LEMMA TotalFound ==
  ASSUME Typed, NEW r \in Requests, req[r].package \in Ids
  PROVE  /\ selectedAddons(r) \in SUBSET (1..MaxForms) /\ Total(r) \in Nat
<1>1. selectedAddons(r) \in SUBSET (1..MaxForms)
  BY RowsTyped DEF selectedAddons, loadGigDetail
<1>2. PriceOf(req[r].package) \in Nat
  BY PriceFound DEF Typed
<1> QED  BY <1>1, <1>2, TotalTyped DEF Total

LEMMA BuyerEffects ==
  ASSUME Typed, NEW r \in Requests
  PROVE  /\ checkoutStart(r) => OthersSame(r) /\ req'[r].pc = "upsert"
         /\ UpsertDraftOrder(r) \/ SetDraftOrderRequirements(r) \/ CreateOrderFromDraft(r)
              \/ RequestAborts(r) => OthersSame(r) /\ req'[r].pc = "idle"
         /\ checkoutRequirementsSubmit(r) => OthersSame(r) /\ req'[r].pc = "set"
         /\ checkoutConfirm(r) =>
              /\ OthersSame(r) /\ req'[r].pc = "gig" /\ req'[r].draft = draft.id
              /\ req'[r].package = draft.package /\ req'[r].addons = draft.addons
              /\ req'[r].shown = draft.shown
         /\ confirmGig(r) =>
              /\ OthersSame(r) /\ req'[r].pc = "create" /\ req'[r].draft = req[r].draft
              /\ req'[r].shown = req[r].shown /\ req'[r].total = Total(r)
<1>1. ASSUME checkoutStart(r)
      PROVE  OthersSame(r) /\ req'[r].pc = "upsert"
  <2>1. PICK id : req' = [req EXCEPT ![r] = [NoReq EXCEPT !.pc = "upsert", !.package = id]]
    BY <1>1 DEF checkoutStart
  <2> DEFINE x == [NoReq EXCEPT !.pc = "upsert", !.package = id]
  <2>2. x.pc = "upsert"
    BY NoneTyped DEF Request
  <2> HIDE DEF x
  <2> QED  BY <2>1, <2>2, RequestSet DEF x
<1>2. ASSUME UpsertDraftOrder(r) \/ SetDraftOrderRequirements(r) \/ CreateOrderFromDraft(r) \/ RequestAborts(r)
      PROVE  OthersSame(r) /\ req'[r].pc = "idle"
  <2>1. req' = [req EXCEPT ![r] = NoReq]
    BY <1>2 DEF UpsertDraftOrder, SetDraftOrderRequirements, CreateOrderFromDraft, RequestAborts, Done
  <2> QED  BY <2>1, NoneTyped, RequestSet
<1>3. ASSUME checkoutRequirementsSubmit(r)
      PROVE  OthersSame(r) /\ req'[r].pc = "set"
  <2>1. PICK chosen : req' = [req EXCEPT ![r] = [NoReq EXCEPT !.pc = "set", !.draft = draft.id, !.addons = chosen]]
    BY <1>3 DEF checkoutRequirementsSubmit
  <2> DEFINE x == [NoReq EXCEPT !.pc = "set", !.draft = draft.id, !.addons = chosen]
  <2>2. x.pc = "set"
    BY NoneTyped DEF Request
  <2> HIDE DEF x
  <2> QED  BY <2>1, <2>2, RequestSet DEF x
<1>4. ASSUME checkoutConfirm(r)
      PROVE  /\ OthersSame(r) /\ req'[r].pc = "gig" /\ req'[r].draft = draft.id
             /\ req'[r].package = draft.package /\ req'[r].addons = draft.addons
             /\ req'[r].shown = draft.shown
  <2> DEFINE x == [loadDraftOrder EXCEPT !.pc = "gig"]
  <2>1. /\ x.pc = "gig" /\ x.draft = draft.id /\ x.package = draft.package
        /\ x.addons = draft.addons /\ x.shown = draft.shown
    BY <1>4, DraftRead DEF checkoutConfirm
  <2>2. req' = [req EXCEPT ![r] = x]
    BY <1>4 DEF checkoutConfirm
  <2> HIDE DEF x
  <2> QED  BY <2>1, <2>2, RequestSet
<1>5. ASSUME confirmGig(r)
      PROVE  /\ OthersSame(r) /\ req'[r].pc = "create" /\ req'[r].draft = req[r].draft
             /\ req'[r].shown = req[r].shown /\ req'[r].total = Total(r)
  <2> DEFINE total == Total(r)
             x == [NoReq EXCEPT !.pc = "create", !.draft = req[r].draft, !.shown = req[r].shown,
                                !.total = total]
  <2>1. req' = [req EXCEPT ![r] = x]
    BY <1>5 DEF confirmGig, Total
  <2> HIDE DEF total
  <2>2. x.pc = "create" /\ x.draft = req[r].draft /\ x.shown = req[r].shown /\ x.total = total
    BY NoneTyped DEF Request
  <2> HIDE DEF x
  <2> QED  BY <2>1, <2>2, RequestSet DEF total
<1> QED  BY <1>1, <1>2, <1>3, <1>4, <1>5

\* A request is begun or goes on, and no row has changed but the draft's.
LEMMA BuyerRowsTyped ==
  ASSUME Typed, UNCHANGED <<gig, packages, addons, edit, forms>>,
         DraftRow', drafts' \in 0..MaxDrafts, RequestsTyped', orders' \in Seq(Order)
  PROVE  Typed'
<1>1. /\ gig \in Gig /\ packages \subseteq Package /\ addons \subseteq 1..MaxForms
      /\ forms \in 0..MaxForms
  BY RowsTyped
<1>2. EditsTyped'
  BY FrameTyped
<1> QED  BY <1>1, <1>2, TypedFrom

\* A request that holds no draft it is about to confirm.
LEMMA LooseRequest ==
  ASSUME Typed, NEW r \in Requests, NEW x \in Request, req' = [req EXCEPT ![r] = x],
         x.pc \notin Confirming, drafts' \in Nat, drafts <= drafts'
  PROVE  RequestsTyped'
BY RequestKept

LEMMA BuyerTyped ==
  ASSUME Typed, NEW r \in Requests,
         \/ checkoutStart(r) \/ UpsertDraftOrder(r) \/ checkoutRequirementsSubmit(r)
         \/ SetDraftOrderRequirements(r) \/ checkoutConfirm(r) \/ confirmGig(r)
         \/ CreateOrderFromDraft(r) \/ RequestAborts(r)
  PROVE  Typed'
<1>t. /\ packages \subseteq Package /\ addons \subseteq 1..MaxForms
      /\ draft \in Draft \cup {None} /\ drafts \in 0..MaxDrafts /\ drafts \in Nat
      /\ DraftRow /\ req \in [Requests -> Request] /\ orders \in Seq(Order)
      /\ drafts <= drafts
  BY RowsTyped
<1>f. UNCHANGED <<gig, packages, addons, edit, forms>>
  BY DEF checkoutStart, UpsertDraftOrder, checkoutRequirementsSubmit, SetDraftOrderRequirements,
     checkoutConfirm, confirmGig, CreateOrderFromDraft, RequestAborts
<1>i. Ids' = Ids /\ Ids \subseteq PackageIds
  BY <1>t, <1>f DEF Ids, Package
<1>p. {"idle", "upsert", "set"} \cap Confirming = {} /\ NoReq.pc \notin Confirming
  BY NoneTyped DEF Confirming
<1>1. CASE checkoutStart(r)
  <2>1. PICK id \in PackageIds :
          req' = [req EXCEPT ![r] = [NoReq EXCEPT !.pc = "upsert", !.package = id]]
    BY <1>1, <1>i DEF checkoutStart, loadGigDetail, Ids
  <2> DEFINE x == [NoReq EXCEPT !.pc = "upsert", !.package = id]
  <2>2. x \in Request /\ x.pc = "upsert"
    BY NoneTyped DEF Request
  <2>3. UNCHANGED <<draft, drafts, orders>> /\ DraftRow'
    BY <1>1, <1>f, <1>t, <1>i DEF checkoutStart, DraftRow
  <2> HIDE DEF x
  <2>4. RequestsTyped'
    BY <1>t, <1>p, <2>1, <2>2, <2>3, LooseRequest DEF x
  <2> QED  BY <1>f, <1>t, <2>3, <2>4, BuyerRowsTyped
<1>2. CASE UpsertDraftOrder(r)
  <2>1. req' = [req EXCEPT ![r] = NoReq] /\ req[r].package \in Ids /\ UNCHANGED orders
    BY <1>2 DEF UpsertDraftOrder, Done, Orderable
  <2>2. DraftRow' /\ drafts' \in 0..MaxDrafts /\ drafts' \in Nat /\ drafts <= drafts'
    <3>1. CASE draft = None
      <4>1. /\ drafts < MaxDrafts /\ drafts' = drafts + 1
            /\ draft' = [id |-> drafts + 1, package |-> req[r].package, addons |-> {},
                         filled |-> FALSE, shown |-> 0]
        BY <1>2, <3>1 DEF UpsertDraftOrder
      <4>2. drafts' \in 1..MaxDrafts /\ drafts' \in 1..drafts' /\ drafts' \in Nat /\ drafts <= drafts'
        BY <1>t, <4>1, BoundsAssumption
      <4>3. draft' \in Draft
        BY <1>i, <2>1, <4>1, <4>2 DEF Draft
      <4>4. draft'.package = req[r].package /\ draft'.addons = {} /\ draft'.id = drafts'
        BY <4>1
      <4> QED  BY <1>i, <2>1, <4>2, <4>3, <4>4 DEF DraftRow
    <3>2. CASE draft # None
      <4>1. /\ draft' = [draft EXCEPT !.package = req[r].package, !.addons = {}, !.shown = 0]
            /\ drafts' = drafts /\ draft \in Draft /\ draft.id \in 1..drafts
        BY <1>2, <1>t, <3>2 DEF UpsertDraftOrder, DraftRow
      <4>2. /\ draft' \in Draft /\ draft'.package = req[r].package /\ draft'.addons = {}
            /\ draft'.id = draft.id
        BY <1>i, <2>1, <4>1 DEF Draft
      <4> QED  BY <1>t, <1>i, <2>1, <4>1, <4>2 DEF DraftRow
    <3> QED  BY <3>1, <3>2
  <2>3. RequestsTyped'
    BY <1>p, <2>1, <2>2, NoneTyped, LooseRequest
  <2> QED  BY <1>f, <1>t, <2>1, <2>2, <2>3, BuyerRowsTyped
<1>3. CASE checkoutRequirementsSubmit(r)
  <2>1. PICK chosen \in SUBSET addons :
          req' = [req EXCEPT ![r] = [NoReq EXCEPT !.pc = "set", !.draft = draft.id, !.addons = chosen]]
    BY <1>3 DEF checkoutRequirementsSubmit, loadGigDetail
  <2> DEFINE x == [NoReq EXCEPT !.pc = "set", !.draft = draft.id, !.addons = chosen]
  <2>2. draft.id \in 0..MaxDrafts /\ chosen \in SUBSET (1..MaxForms)
    <3>1. draft \in Draft
      BY <1>3, <1>t DEF checkoutRequirementsSubmit, loadOwnedDraft
    <3>2. draft.id \in 1..MaxDrafts
      BY <3>1 DEF Draft
    <3> QED  BY <1>t, <3>2, BoundsAssumption
  <2>3. x \in Request /\ x.pc = "set"
    BY <2>2, NoneTyped DEF Request
  <2>4. UNCHANGED <<draft, drafts, orders>> /\ DraftRow'
    BY <1>3, <1>f, <1>t, <1>i DEF checkoutRequirementsSubmit, DraftRow
  <2> HIDE DEF x
  <2>5. RequestsTyped'
    BY <1>t, <1>p, <2>1, <2>3, <2>4, LooseRequest DEF x
  <2> QED  BY <1>f, <1>t, <2>4, <2>5, BuyerRowsTyped
<1>4. CASE SetDraftOrderRequirements(r)
  <2>1. req' = [req EXCEPT ![r] = NoReq] /\ UNCHANGED <<drafts, orders>>
    BY <1>4 DEF SetDraftOrderRequirements, Done
  <2>2. DraftRow'
    <3>1. CASE draft' = draft
      BY <1>f, <1>t, <1>i, <2>1, <3>1 DEF DraftRow
    <3>2. CASE /\ draft # None /\ req[r].addons \subseteq addons
               /\ draft' = [draft EXCEPT !.filled = TRUE, !.addons = req[r].addons, !.shown = 0]
      <4>1. draft \in Draft /\ draft.package \in Ids /\ draft.id \in 1..drafts
        BY <1>t, <3>2 DEF DraftRow
      <4>2. /\ draft' \in Draft /\ draft'.package = draft.package /\ draft'.id = draft.id
            /\ draft'.addons = req[r].addons
        BY <1>t, <3>2, <4>1 DEF Draft
      <4> QED  BY <1>f, <1>i, <2>1, <3>2, <4>1, <4>2 DEF DraftRow
    <3> QED  BY <1>4, <3>1, <3>2 DEF SetDraftOrderRequirements
  <2>3. RequestsTyped'
    BY <1>p, <1>t, <2>1, NoneTyped, LooseRequest
  <2> QED  BY <1>f, <1>t, <2>1, <2>2, <2>3, BuyerRowsTyped
<1>5. CASE checkoutConfirm(r)
  <2> DEFINE x == [loadDraftOrder EXCEPT !.pc = "gig"]
  <2>1. x \in Request /\ x.draft = draft.id
    BY <1>5, DraftRead DEF checkoutConfirm
  <2>2. draft.id \in 1..drafts
    BY <1>5, <1>t DEF checkoutConfirm, DraftRow
  <2>3. req' = [req EXCEPT ![r] = x] /\ UNCHANGED <<draft, drafts, orders>>
    BY <1>5 DEF checkoutConfirm
  <2> HIDE DEF x
  <2>4. RequestsTyped'
    BY <1>t, <2>1, <2>2, <2>3, RequestKept
  <2>5. DraftRow'
    BY <1>f, <1>t, <1>i, <2>3 DEF DraftRow
  <2> QED  BY <1>f, <1>t, <2>3, <2>4, <2>5, BuyerRowsTyped
<1>6. CASE confirmGig(r)
  <2> DEFINE total == Total(r)
             x == [NoReq EXCEPT !.pc = "create", !.draft = req[r].draft, !.shown = req[r].shown,
                                !.total = total]
  <2>1. req' = [req EXCEPT ![r] = x] /\ UNCHANGED <<draft, drafts, orders>>
    BY <1>6 DEF confirmGig, Total
  <2>2. total \in Nat /\ req[r] \in Request /\ req[r].draft \in 1..drafts
    BY <1>6, <1>t, TotalFound DEF confirmGig, Typed, DraftInv, Confirming
  <2> HIDE DEF total
  <2>3. x \in Request /\ x.draft = req[r].draft
    BY <2>2, NoneTyped DEF Request
  <2> HIDE DEF x
  <2>4. RequestsTyped'
    BY <1>t, <2>1, <2>2, <2>3, RequestKept
  <2>5. DraftRow'
    BY <1>f, <1>t, <1>i, <2>1 DEF DraftRow
  <2> QED  BY <1>f, <1>t, <2>1, <2>4, <2>5, BuyerRowsTyped
<1>7. CASE CreateOrderFromDraft(r)
  <2>1. /\ req' = [req EXCEPT ![r] = NoReq] /\ UNCHANGED drafts
        /\ orders' = Append(orders, [draft |-> req[r].draft, total |-> req[r].total,
                                     shown |-> req[r].shown])
        /\ draft' \in {draft, None} /\ req[r].pc = "create"
    BY <1>7 DEF CreateOrderFromDraft, Done, Converted
  <2> DEFINE o == [draft |-> req[r].draft, total |-> req[r].total, shown |-> req[r].shown]
  <2>2. req[r] \in Request /\ req[r].draft \in 1..drafts
    BY <1>t, <2>1 DEF Typed, DraftInv, Confirming
  <2>3. req[r].draft \in 1..MaxDrafts
    BY <1>t, <2>2, BoundsAssumption
  <2>4. o \in Order
    BY <2>2, <2>3 DEF Request, Order
  <2> HIDE DEF o
  <2>5. orders' \in Seq(Order)
    BY <1>t, <2>1, <2>4 DEF o
  <2>6. RequestsTyped'
    BY <1>p, <1>t, <2>1, NoneTyped, LooseRequest
  <2>7. DraftRow'
    BY <1>f, <1>t, <1>i, <2>1 DEF DraftRow
  <2> QED  BY <1>f, <1>t, <2>1, <2>5, <2>6, <2>7, BuyerRowsTyped
<1>8. CASE RequestAborts(r)
  <2>1. req' = [req EXCEPT ![r] = NoReq] /\ UNCHANGED <<draft, drafts, orders>>
    BY <1>8 DEF RequestAborts, Done
  <2>2. RequestsTyped'
    BY <1>p, <1>t, <2>1, NoneTyped, LooseRequest
  <2>3. DraftRow'
    BY <1>f, <1>t, <1>i, <2>1 DEF DraftRow
  <2> QED  BY <1>f, <1>t, <2>1, <2>2, <2>3, BuyerRowsTyped
<1> QED  BY <1>1, <1>2, <1>3, <1>4, <1>5, <1>6, <1>7, <1>8

LEMMA ReviewTyped ==
  ASSUME Typed, checkoutReview
  PROVE  Typed'
<1>t. /\ draft \in Draft \cup {None} /\ drafts \in 0..MaxDrafts /\ DraftRow
      /\ orders \in Seq(Order) /\ addons \subseteq 1..MaxForms
  BY RowsTyped
<1> DEFINE total == CalculateOrderTotals(PriceOf(draft.package), Cardinality(draft.addons))
<1>1. /\ draft # None /\ draft' = [draft EXCEPT !.shown = total]
      /\ UNCHANGED <<gig, packages, addons, edit, forms, drafts, req, orders>>
  BY DEF checkoutReview, loadOwnedDraft
<1>2. /\ draft \in Draft /\ draft.package \in Ids /\ draft.addons \subseteq addons
      /\ draft.id \in 1..drafts
  BY <1>t, <1>1 DEF DraftRow
<1>3. total \in Nat
  <2>1. PriceOf(draft.package) \in Nat
    BY <1>2, PriceFound DEF Typed
  <2> QED  BY <1>t, <1>2, <2>1, TotalTyped
<1> HIDE DEF total
<1>4. /\ draft' \in Draft /\ draft'.package = draft.package /\ draft'.addons = draft.addons
      /\ draft'.id = draft.id
  BY <1>1, <1>2, <1>3 DEF Draft
<1>5. DraftRow'
  BY <1>1, <1>2, <1>4 DEF DraftRow, Ids
<1>6. RequestsTyped'
  BY <1>1, FrameTyped
<1> QED  BY <1>t, <1>1, <1>5, <1>6, BuyerRowsTyped

LEMMA StepTyped ==
  ASSUME Typed, [Next]_vars
  PROVE  Typed'
BY SellerTyped, InsertTyped, AddonsTyped, HidingTyped, BuyerTyped, ReviewTyped DEF Next

LEMMA InitTyped == Init => Typed
<1> SUFFICES ASSUME Init PROVE Typed
  OBVIOUS
<1>1. /\ gig \in Gig /\ 0 \in 0..MaxForms /\ 0 \in 0..MaxDrafts
  BY BoundsAssumption DEF Init, Gig, GigStatuses
<1>2. /\ \A e \in Edits : edit[e] = NoEdit /\ edit[e].pc \notin Writing
      /\ \A r \in Requests : req[r] = NoReq /\ req[r].pc \notin Confirming
  BY NoneTyped DEF Init, Writing, Confirming
<1>3. edit \in [Edits -> Edit] /\ req \in [Requests -> Request]
  BY NoneTyped DEF Init
<1>4. TypeOK
  BY <1>1, <1>3 DEF Init, TypeOK
<1> QED  BY <1>2, <1>4 DEF Typed, EditInv, DraftInv, Init

\* Every row and every request has the shape the code gives it, and a draft's package
\* and add-ons are rows of the gig.
THEOREM TypeCorrect == Spec => []TypeOK
<1>1. Typed => TypeOK
  BY DEF Typed
<1> QED  BY <1>1, InitTyped, StepTyped, PTL DEF Spec

(***************************************************************************)
(* The gig and its packages.                                               *)
(***************************************************************************)
\* A request that is about to publish has read a package.
SellInv ==
  gig.status = "active" \/ (\E e \in Edits : edit[e].pc = "publish") => packages # {}

\* Only the saving of a form changes the packages, and it leaves one.
LEMMA PackagesStep ==
  ASSUME [Next]_vars
  PROVE  packages' = packages \/ \E e \in Edits : ReplaceGigPackagesInsert(e)
<1>1. ASSUME NEW e \in Edits,
             \/ sellGigCreate(e) \/ sellGigUpdate(e) \/ ReplaceGigPackagesDelete(e)
             \/ ReplaceGigAddonsDelete(e) \/ ReplaceGigAddonsInsert(e)
             \/ sellGigStatus(e) \/ SetGigStatus(e) \/ EditAborts(e)
      PROVE  packages' = packages
  BY <1>1 DEF sellGigCreate, sellGigUpdate, ReplaceGigPackagesDelete, ReplaceGigAddonsDelete,
     ReplaceGigAddonsInsert, sellGigStatus, SetGigStatus, EditAborts
<1>2. ASSUME NEW r \in Requests,
             \/ checkoutStart(r) \/ UpsertDraftOrder(r) \/ checkoutRequirementsSubmit(r)
             \/ SetDraftOrderRequirements(r) \/ checkoutConfirm(r) \/ confirmGig(r)
             \/ CreateOrderFromDraft(r) \/ RequestAborts(r)
      PROVE  packages' = packages
  BY <1>2 DEF checkoutStart, UpsertDraftOrder, checkoutRequirementsSubmit, SetDraftOrderRequirements,
     checkoutConfirm, confirmGig, CreateOrderFromDraft, RequestAborts
<1>3. ASSUME Hide \/ adminModerationGigDecide \/ checkoutReview \/ UNCHANGED vars
      PROVE  packages' = packages
  BY <1>3 DEF Hide, adminModerationGigDecide, checkoutReview, vars
<1> QED  BY <1>1, <1>2, <1>3 DEF Next

LEMMA PackagesLeft ==
  ASSUME Typed, [Next]_vars, packages # {}
  PROVE  packages' # {}
<1>1. ASSUME NEW e \in Edits, ReplaceGigPackagesInsert(e)
      PROVE  packages' # {}
  BY <1>1, InsertEffect, NewPackages
<1> QED  BY <1>1, PackagesStep

\* An edit other than the one a step is of stays where it is; a step that brings its
\* edit to publishing, or the gig to being active, has seen a package.
LEMMA SellInvStep ==
  ASSUME Typed, [Next]_vars, SellInv
  PROVE  SellInv'
<1>t. edit \in [Edits -> Edit] /\ gig \in Gig
  BY RowsTyped
<1>1. ASSUME NEW e \in Edits,
             /\ \A f \in Edits \ {e} : edit'[f] = edit[f]
             /\ edit'[e].pc # "publish" \/ packages # {}
             /\ gig'.status # "active" \/ gig.status = "active"
      PROVE  packages # {} \/ ~(gig'.status = "active" \/ \E f \in Edits : edit'[f].pc = "publish")
  BY <1>1 DEF SellInv
<1>2. ASSUME NEW e \in Edits, NEW x, edit' = [edit EXCEPT ![e] = x]
      PROVE  edit'[e] = x /\ \A f \in Edits \ {e} : edit'[f] = edit[f]
  BY <1>t, <1>2
<1>3. ASSUME NEW e \in Edits,
             \/ sellGigCreate(e) \/ sellGigUpdate(e) \/ ReplaceGigPackagesDelete(e)
             \/ ReplaceGigPackagesInsert(e) \/ ReplaceGigAddonsDelete(e)
             \/ ReplaceGigAddonsInsert(e) \/ sellGigStatus(e) \/ SetGigStatus(e) \/ EditAborts(e)
      PROVE  packages # {} \/ ~(gig'.status = "active" \/ \E f \in Edits : edit'[f].pc = "publish")
  <2>1. ASSUME EditDone(e)
        PROVE  edit'[e].pc # "publish" /\ \A f \in Edits \ {e} : edit'[f] = edit[f]
    BY <1>2, <2>1, NoneTyped DEF EditDone
  <2>2. ASSUME NEW pc, EditTo(e, pc)
        PROVE  edit'[e].pc = pc /\ \A f \in Edits \ {e} : edit'[f] = edit[f]
    <3> DEFINE x == [edit[e] EXCEPT !.pc = pc]
    <3>1. x.pc = pc
      BY <1>t DEF Edit
    <3>2. edit' = [edit EXCEPT ![e] = x]
      BY <2>2 DEF EditTo
    <3> HIDE DEF x
    <3> QED  BY <1>2, <3>1, <3>2
  <2>3. ASSUME NEW x, x.pc # "publish", edit' = [edit EXCEPT ![e] = x]
        PROVE  edit'[e].pc # "publish" /\ \A f \in Edits \ {e} : edit'[f] = edit[f]
    BY <1>2, <2>3
  <2>4. CASE sellGigCreate(e) \/ sellGigUpdate(e)
    <3>1. PICK f \in Forms :
            edit' = [edit EXCEPT ![e] =
                       [NoEdit EXCEPT !.pc = "packages", !.form = forms + 1, !.tiers = f.tiers,
                                      !.price = f.price, !.addon = f.addon]]
      BY <2>4 DEF sellGigCreate, sellGigUpdate, Submit
    <3> DEFINE x == [NoEdit EXCEPT !.pc = "packages", !.form = forms + 1, !.tiers = f.tiers,
                                   !.price = f.price, !.addon = f.addon]
    <3>2. x.pc # "publish"
      BY NoneTyped DEF Edit
    <3> HIDE DEF x
    <3>3. edit'[e].pc # "publish" /\ \A g \in Edits \ {e} : edit'[g] = edit[g]
      BY <2>3, <3>1, <3>2 DEF x
    <3>4. gig'.status # "active" \/ gig.status = "active"
      BY <2>4 DEF sellGigCreate, CreateGig, sellGigUpdate, UpdateGig
    <3> QED  BY <1>1, <3>3, <3>4
  <2>5. CASE ReplaceGigPackagesDelete(e) \/ ReplaceGigAddonsDelete(e)
    <3>1. edit'[e].pc # "publish" /\ (\A g \in Edits \ {e} : edit'[g] = edit[g]) /\ gig' = gig
      BY <1>t, <2>5 DEF ReplaceGigPackagesDelete, ReplaceGigAddonsDelete, Edit
    <3> QED  BY <1>1, <3>1
  <2>6. CASE ReplaceGigPackagesInsert(e) \/ ReplaceGigAddonsInsert(e) \/ EditAborts(e)
    <3>1. (EditTo(e, "addons") \/ EditDone(e)) /\ gig' = gig
      BY <2>6, InsertEffect DEF ReplaceGigAddonsInsert, EditAborts
    <3>2. edit'[e].pc # "publish" /\ \A g \in Edits \ {e} : edit'[g] = edit[g]
      BY <2>1, <2>2, <3>1
    <3> QED  BY <1>1, <3>1, <3>2
  <2>7. CASE sellGigStatus(e)
    BY <2>7 DEF sellGigStatus, MayPublish, loadGigDetail
  <2>8. CASE SetGigStatus(e)
    BY <2>8 DEF SetGigStatus, SellInv
  <2> QED  BY <1>3, <2>4, <2>5, <2>6, <2>7, <2>8
<1>4. ASSUME edit' = edit, gig'.status # "active" \/ gig.status = "active"
      PROVE  packages # {} \/ ~(gig'.status = "active" \/ \E f \in Edits : edit'[f].pc = "publish")
  BY <1>4 DEF SellInv
<1>5. CASE Hide \/ adminModerationGigDecide \/ checkoutReview \/ UNCHANGED vars
  <2>1. edit' = edit /\ (gig'.status # "active" \/ gig.status = "active")
    BY <1>t, <1>5 DEF Hide, adminModerationGigDecide, SetGigModerationStateAdmin, checkoutReview, vars, Gig
  <2> QED  BY <1>4, <2>1, PackagesLeft DEF SellInv
<1>6. ASSUME NEW r \in Requests,
             \/ checkoutStart(r) \/ UpsertDraftOrder(r) \/ checkoutRequirementsSubmit(r)
             \/ SetDraftOrderRequirements(r) \/ checkoutConfirm(r) \/ confirmGig(r)
             \/ CreateOrderFromDraft(r) \/ RequestAborts(r)
      PROVE  SellInv'
  <2>1. edit' = edit /\ gig' = gig
    BY <1>6 DEF checkoutStart, UpsertDraftOrder, checkoutRequirementsSubmit, SetDraftOrderRequirements,
       checkoutConfirm, confirmGig, CreateOrderFromDraft, RequestAborts
  <2> QED  BY <1>4, <2>1, PackagesLeft DEF SellInv
<1> QED  BY <1>3, <1>5, <1>6, PackagesLeft DEF Next, SellInv

LEMMA TiersStep ==
  ASSUME Typed, [Next]_vars, OnePackagePerTier
  PROVE  OnePackagePerTier'
<1>1. CASE packages' = packages
  BY <1>1 DEF OnePackagePerTier
<1>2. ASSUME NEW e \in Edits, ReplaceGigPackagesInsert(e), packages' # packages
      PROVE  OnePackagePerTier'
  <2>1. /\ edit[e].pc = "insertPackages" /\ ~Refused(e, Kept(e))
        /\ packages' = Kept(e) \cup New(e)
    BY <1>2, InsertEffect
  <2>2. \A p \in Kept(e) : p \in packages /\ p.id[2] \notin edit[e].tiers
    BY <2>1 DEF Kept, Refused
  <2>3. \A p \in New(e) : /\ p.id[2] \in edit[e].tiers /\ p.price = edit[e].price
                          /\ p.id = PackageId(e, p.id[2]) /\ p \in Package
    BY <2>1, NewPackages
  <2>4. ASSUME NEW p \in New(e), NEW q \in New(e), p.id[2] = q.id[2]
        PROVE  p = q
    <3>1. p.id = q.id /\ p.price = q.price /\ p \in Package /\ q \in Package
      BY <2>3, <2>4
    <3> QED  BY <3>1 DEF Package
  <2>5. ASSUME NEW p \in packages', NEW q \in packages', p.id[2] = q.id[2]
        PROVE  p = q
    <3>1. CASE p \in Kept(e) /\ q \in Kept(e)
      BY <2>2, <2>5, <3>1 DEF OnePackagePerTier
    <3>2. CASE p \in New(e) /\ q \in New(e)
      BY <2>4, <2>5, <3>2
    <3> QED  BY <2>1, <2>2, <2>3, <2>5, <3>1, <3>2
  <2> QED  BY <2>5 DEF OnePackagePerTier
<1> QED  BY <1>1, <1>2, PackagesStep

(***************************************************************************)
(* Prices.                                                                 *)
(***************************************************************************)
\* The total that was shown is no less than what the package and the add-ons cost.
Covers(price, shown, id, chosen) ==
  shown # 0 => CalculateOrderTotals(price[id[1]], Cardinality(chosen)) <= shown

\* price gives the price each form was submitted with.
PackagesPriced(price) == \A p \in packages : p.id[1] <= forms /\ p.price = price[p.id[1]]
EditsPriced(price) ==
  \A e \in Edits : edit[e].pc \in {"packages", "insertPackages"} =>
    edit[e].price = price[edit[e].form]
DraftPriced(price) ==
  draft # None =>
    draft.package[1] <= forms /\ Covers(price, draft.shown, draft.package, draft.addons)
ReadsPriced(price) ==
  \A r \in Requests : req[r].pc = "gig" =>
    /\ req[r].package \in PackageIds /\ req[r].package[1] <= forms
    /\ Covers(price, req[r].shown, req[r].package, req[r].addons)
CreatesPriced ==
  \A r \in Requests : req[r].pc = "create" /\ req[r].shown # 0 => req[r].total <= req[r].shown

Prices == [1..MaxForms -> Nat]
Priced(price) ==
  PackagesPriced(price) /\ EditsPriced(price) /\ DraftPriced(price) /\ ReadsPriced(price)

\* A package of the form that was there when its total was shown still has its price,
\* and add-ons only go.
PriceInv == NeverDearerThanShown /\ CreatesPriced /\ \E price \in Prices : Priced(price)

LEMMA FewerCovered ==
  ASSUME NEW price \in Prices, NEW shown \in Nat, NEW id \in PackageIds,
         NEW chosen \in SUBSET (1..MaxForms), NEW left \in SUBSET chosen,
         Covers(price, shown, id, chosen)
  PROVE  Covers(price, shown, id, left)
<1>1. price[id[1]] \in Nat
  BY DEF Prices, PackageIds
<1>2. /\ Cardinality(left) \in Nat /\ Cardinality(chosen) \in Nat
      /\ Cardinality(left) <= Cardinality(chosen)
  BY AddonsCounted
<1> DEFINE c == price[id[1]]
            m == Cardinality(left)
            n == Cardinality(chosen)
            x == CalculateOrderTotals(c, m)
            y == CalculateOrderTotals(c, n)
<1> HIDE DEF c, m, n
<1>3. x \in Nat /\ x <= y
  BY <1>1, <1>2, TotalsGrow DEF c, m, n
<1>4. y \in Nat
  <2>1. c \in Nat /\ n \in Nat /\ n <= n
    BY <1>1, <1>2 DEF c, n
  <2> QED  BY <2>1, TotalsGrow
<1>5. shown # 0 => y <= shown
  BY DEF Covers, c, n
<1> HIDE DEF x, y
<1>6. shown # 0 => x <= shown
  BY <1>3, <1>4, <1>5
<1> QED  BY <1>6 DEF Covers, x, c, m

\* The package found is the form's.
LEMMA PriceKnown ==
  ASSUME Typed, NEW price, PackagesPriced(price), NEW id \in Ids
  PROVE  id \in PackageIds /\ id[1] <= forms /\ PriceOf(id) = price[id[1]]
<1>1. PICK p \in packages : p.id = id /\ PriceOf(id) = p.price
  BY PriceFound DEF Typed
<1>2. p \in Package
  BY RowsTyped
<1> QED  BY <1>1, <1>2 DEF PackagesPriced, Package

\* A form submitted now is priced as it says, and none before it otherwise.
LEMMA SubmitPriced ==
  ASSUME Typed, NEW price \in Prices, Priced(price), NEW e \in Edits, Submit(e),
         UNCHANGED <<packages, draft, req>>
  PROVE  \E new \in Prices : Priced(new)'
<1>t. /\ packages \subseteq Package /\ edit \in [Edits -> Edit] /\ forms \in Nat
      /\ draft \in Draft \cup {None}
  BY RowsTyped
<1>1. PICK f \in Forms :
        edit' = [edit EXCEPT ![e] =
                   [NoEdit EXCEPT !.pc = "packages", !.form = forms + 1, !.tiers = f.tiers,
                                  !.price = f.price, !.addon = f.addon]]
  BY DEF Submit
<1> DEFINE x == [NoEdit EXCEPT !.pc = "packages", !.form = forms + 1, !.tiers = f.tiers,
                               !.price = f.price, !.addon = f.addon]
<1>2. f.price \in Nat /\ forms + 1 \in 1..MaxForms /\ forms' = forms + 1
  BY <1>t, FormsAssumption, BoundsAssumption DEF Submit
<1>3. PICK new \in Prices : /\ new[forms + 1] = f.price
                            /\ \A i \in 1..MaxForms : i <= forms => new[i] = price[i]
  <2> DEFINE with == [price EXCEPT ![forms + 1] = f.price]
  <2>1. /\ with \in Prices /\ with[forms + 1] = f.price
        /\ \A i \in 1..MaxForms : i <= forms => with[i] = price[i]
    BY <1>t, <1>2 DEF Prices
  <2> HIDE DEF with
  <2> QED  BY <2>1
<1>4. x.form = forms + 1 /\ x.price = f.price
  BY NoneTyped DEF Edit
<1>5. edit'[e] = x /\ \A g \in Edits \ {e} : edit'[g] = edit[g]
  BY <1>t, <1>1
<1> HIDE DEF x
<1>6. PackagesPriced(new)'
  <2> SUFFICES ASSUME NEW p \in packages
               PROVE  p.id[1] <= forms' /\ p.price = new[p.id[1]]
    BY DEF PackagesPriced
  <2>1. p.id[1] \in 1..MaxForms /\ p.id[1] <= forms /\ p.price = price[p.id[1]]
    BY <1>t DEF Priced, PackagesPriced, Package, PackageIds
  <2> QED  BY <1>t, <1>2, <1>3, <2>1
<1>7. EditsPriced(new)'
  <2> SUFFICES ASSUME NEW g \in Edits, edit'[g].pc \in {"packages", "insertPackages"}
               PROVE  edit'[g].price = new[edit'[g].form]
    BY DEF EditsPriced
  <2>1. CASE g = e
    BY <1>3, <1>4, <1>5, <2>1
  <2>2. CASE g # e
    <3>1. edit'[g] = edit[g] /\ edit[g].pc \in {"packages", "insertPackages"}
      BY <1>5, <2>2
    <3>2. edit[g].price = price[edit[g].form] /\ edit[g].form \in 1..forms
      BY <3>1 DEF Priced, EditsPriced, Typed, EditInv, Writing
    <3>3. edit[g].form \in 1..MaxForms /\ edit[g].form <= forms
      BY <1>t, <1>2, <3>2, BoundsAssumption
    <3> QED  BY <1>3, <3>1, <3>2, <3>3
  <2> QED  BY <2>1, <2>2
<1>8. ASSUME NEW shown, NEW id \in PackageIds, NEW chosen, id[1] <= forms,
             Covers(price, shown, id, chosen)
      PROVE  id[1] <= forms' /\ Covers(new, shown, id, chosen)
  <2>1. id[1] \in 1..MaxForms
    BY DEF PackageIds
  <2> QED  BY <1>t, <1>2, <1>3, <1>8, <2>1 DEF Covers
<1>9. DraftPriced(new)'
  <2>1. draft # None => draft.package \in PackageIds
    BY <1>t DEF Draft
  <2> QED  BY <1>8, <2>1 DEF Priced, DraftPriced, Covers
<1>10. ReadsPriced(new)'
  BY <1>8 DEF Priced, ReadsPriced, Covers
<1> QED  BY <1>3, <1>6, <1>7, <1>9, <1>10 DEF Priced

\* A step of the seller's that submits nothing keeps the prices.
LEMMA SellerPriced ==
  ASSUME Typed, NEW price \in Prices, Priced(price), NEW e \in Edits,
         \/ ReplaceGigPackagesDelete(e) \/ ReplaceGigPackagesInsert(e)
         \/ ReplaceGigAddonsDelete(e) \/ ReplaceGigAddonsInsert(e)
         \/ sellGigStatus(e) \/ SetGigStatus(e) \/ EditAborts(e)
  PROVE  Priced(price)'
<1>t. /\ packages \subseteq Package /\ edit \in [Edits -> Edit] /\ draft \in Draft \cup {None}
  BY RowsTyped
<1>f. UNCHANGED <<forms, req>>
  BY DEF ReplaceGigPackagesDelete, ReplaceGigPackagesInsert, ReplaceGigAddonsDelete,
     ReplaceGigAddonsInsert, sellGigStatus, SetGigStatus, EditAborts
<1>1. ReadsPriced(price)'
  BY <1>f DEF Priced, ReadsPriced, Covers
<1>2. EditsPriced(price)'
  <2>1. ASSUME /\ \A g \in Edits \ {e} : edit'[g] = edit[g]
               /\ edit'[e].pc \in {"packages", "insertPackages"} =>
                    /\ edit[e].pc \in {"packages", "insertPackages"}
                    /\ edit'[e].price = edit[e].price /\ edit'[e].form = edit[e].form
        PROVE  EditsPriced(price)'
    BY <2>1 DEF Priced, EditsPriced
  <2>2. CASE ReplaceGigPackagesDelete(e)
    <3> DEFINE x == [edit[e] EXCEPT !.pc = "insertPackages", !.oldPackages = Ids]
    <3>1. edit' = [edit EXCEPT ![e] = x] /\ edit[e].pc = "packages"
      BY <1>t, <2>2 DEF ReplaceGigPackagesDelete
    <3>2. x.price = edit[e].price /\ x.form = edit[e].form
      BY <1>t DEF Edit
    <3> HIDE DEF x
    <3>3. edit'[e] = x /\ \A g \in Edits \ {e} : edit'[g] = edit[g]
      BY <1>t, <3>1
    <3> QED  BY <2>1, <3>1, <3>2, <3>3
  <2>3. CASE ReplaceGigAddonsDelete(e)
    <3> DEFINE x == [edit[e] EXCEPT !.pc = "insertAddons", !.oldAddons = addons]
    <3>1. edit' = [edit EXCEPT ![e] = x]
      BY <1>t, <2>3 DEF ReplaceGigAddonsDelete
    <3>2. x.pc = "insertAddons"
      BY <1>t DEF Edit
    <3> HIDE DEF x
    <3>3. edit'[e] = x /\ \A g \in Edits \ {e} : edit'[g] = edit[g]
      BY <1>t, <3>1
    <3> QED  BY <2>1, <3>2, <3>3
  <2>4. ASSUME NEW pc \in {"addons", "publish"}, EditTo(e, pc) \/ EditDone(e)
        PROVE  EditsPriced(price)'
    <3>1. (edit'[e].pc = pc \/ edit'[e].pc = "idle") /\ \A g \in Edits \ {e} : edit'[g] = edit[g]
      BY <1>t, <2>4, NoneTyped DEF EditTo, EditDone, Edit
    <3> QED  BY <2>1, <3>1
  <2>5. CASE ReplaceGigPackagesInsert(e) \/ ReplaceGigAddonsInsert(e)
             \/ sellGigStatus(e) \/ SetGigStatus(e) \/ EditAborts(e)
    <3>1. EditTo(e, "addons") \/ EditTo(e, "publish") \/ EditDone(e)
      BY <2>5, InsertEffect DEF ReplaceGigAddonsInsert, sellGigStatus, SetGigStatus, EditAborts
    <3> QED  BY <2>4, <3>1
  <2> QED  BY <2>2, <2>3, <2>5
<1>3. PackagesPriced(price)'
  <2>1. CASE packages' = packages
    BY <1>f, <2>1 DEF Priced, PackagesPriced
  <2>2. CASE ReplaceGigPackagesInsert(e) /\ packages' # packages
    <3>1. edit[e].pc = "insertPackages" /\ packages' = Kept(e) \cup New(e)
      BY <2>2, InsertEffect
    <3>2. edit[e].form \in 1..forms /\ edit[e].price = price[edit[e].form]
      BY <3>1 DEF Typed, EditInv, Writing, Priced, EditsPriced
    <3>3. \A p \in New(e) : p.id[1] = edit[e].form /\ p.price = edit[e].price
      BY <3>1, NewPackages
    <3>4. \A p \in Kept(e) : p.id[1] <= forms /\ p.price = price[p.id[1]]
      BY DEF Kept, Priced, PackagesPriced
    <3>5. edit[e].form <= forms
      BY <3>2, RowsTyped
    <3> QED  BY <1>f, <3>1, <3>2, <3>3, <3>4, <3>5 DEF PackagesPriced
  <2> QED  BY <2>1, <2>2 DEF ReplaceGigPackagesDelete, ReplaceGigAddonsDelete, ReplaceGigAddonsInsert,
              sellGigStatus, SetGigStatus, EditAborts
<1>4. DraftPriced(price)'
  <2>1. CASE draft' \in {draft, None}
    BY <1>f, <2>1 DEF Priced, DraftPriced, Covers
  <2>2. CASE ReplaceGigAddonsInsert(e) /\ draft # None
    <3>1. draft \in Draft /\ draft' = [draft EXCEPT !.addons = @ \ edit[e].oldAddons]
      BY <1>t, <2>2 DEF ReplaceGigAddonsInsert
    <3>2. /\ draft'.package = draft.package /\ draft'.shown = draft.shown
          /\ draft'.addons = draft.addons \ edit[e].oldAddons
          /\ draft.package \in PackageIds /\ draft.shown \in Nat
          /\ draft.addons \in SUBSET (1..MaxForms)
      BY <3>1 DEF Draft
    <3>3. draft.package[1] <= forms /\ Covers(price, draft.shown, draft.package, draft.addons)
      BY <2>2 DEF Priced, DraftPriced
    <3>4. Covers(price, draft.shown, draft.package, draft'.addons)
      BY <3>2, <3>3, FewerCovered
    <3> QED  BY <1>f, <3>2, <3>3, <3>4 DEF DraftPriced, Covers
  <2>3. CASE ReplaceGigAddonsInsert(e) /\ draft = None
    BY <2>1, <2>3 DEF ReplaceGigAddonsInsert
  <2> QED  BY <2>1, <2>2, <2>3, InsertEffect DEF ReplaceGigPackagesDelete, ReplaceGigAddonsDelete,
              sellGigStatus, SetGigStatus, EditAborts
<1> QED  BY <1>1, <1>2, <1>3, <1>4 DEF Priced

LEMMA BuyerPriced ==
  ASSUME Typed, NEW price \in Prices, Priced(price), NEW r \in Requests,
         \/ checkoutStart(r) \/ UpsertDraftOrder(r) \/ checkoutRequirementsSubmit(r)
         \/ SetDraftOrderRequirements(r) \/ checkoutConfirm(r) \/ confirmGig(r)
         \/ CreateOrderFromDraft(r) \/ RequestAborts(r)
  PROVE  Priced(price)'
<1>t. draft \in Draft \cup {None}
  BY RowsTyped
<1>f. UNCHANGED <<packages, edit, forms>>
  BY DEF checkoutStart, UpsertDraftOrder, checkoutRequirementsSubmit, SetDraftOrderRequirements,
     checkoutConfirm, confirmGig, CreateOrderFromDraft, RequestAborts
<1>1. PackagesPriced(price)' /\ EditsPriced(price)'
  BY <1>f DEF Priced, PackagesPriced, EditsPriced
<1>2. ReadsPriced(price)'
  <2>1. ASSUME OthersSame(r),
               req'[r].pc = "gig" =>
                 /\ req'[r].package \in PackageIds /\ req'[r].package[1] <= forms
                 /\ Covers(price, req'[r].shown, req'[r].package, req'[r].addons)
        PROVE  ReadsPriced(price)'
    BY <1>f, <2>1 DEF OthersSame, Priced, ReadsPriced, Covers
  <2>2. CASE checkoutConfirm(r)
    <3>1. /\ OthersSame(r) /\ req'[r].package = draft.package /\ req'[r].addons = draft.addons
          /\ req'[r].shown = draft.shown /\ draft # None
      BY <2>2, BuyerEffects DEF checkoutConfirm
    <3>2. draft.package[1] <= forms /\ Covers(price, draft.shown, draft.package, draft.addons)
      BY <3>1 DEF Priced, DraftPriced
    <3>3. draft.package \in PackageIds
      BY <1>t, <3>1 DEF Draft
    <3> QED  BY <2>1, <3>1, <3>2, <3>3
  <2>3. CASE ~checkoutConfirm(r)
    <3>1. OthersSame(r) /\ req'[r].pc # "gig"
      BY <2>3, BuyerEffects
    <3> QED  BY <2>1, <3>1
  <2> QED  BY <2>2, <2>3
<1>3. DraftPriced(price)'
  <2>1. CASE draft' \in {draft, None}
    BY <1>f, <2>1 DEF Priced, DraftPriced, Covers
  <2>2. ASSUME draft'.shown = 0, draft'.package[1] <= forms
        PROVE  DraftPriced(price)'
    BY <1>f, <2>2 DEF DraftPriced, Covers
  <2>3. CASE UpsertDraftOrder(r)
    <3>1. req[r].package \in Ids
      BY <2>3 DEF UpsertDraftOrder, Orderable
    <3>2. req[r].package[1] <= forms
      BY <3>1, PriceKnown DEF Priced
    <3>3. draft'.shown = 0 /\ draft'.package = req[r].package
      <4>1. CASE draft = None
        BY <2>3, <4>1 DEF UpsertDraftOrder
      <4>2. CASE draft # None
        BY <1>t, <2>3, <4>2 DEF UpsertDraftOrder, Draft
      <4> QED  BY <4>1, <4>2
    <3> QED  BY <2>2, <3>2, <3>3
  <2>4. CASE SetDraftOrderRequirements(r) /\ draft' # draft
    <3>1. /\ draft # None /\ draft \in Draft
          /\ draft' = [draft EXCEPT !.filled = TRUE, !.addons = req[r].addons, !.shown = 0]
      BY <1>t, <2>4 DEF SetDraftOrderRequirements
    <3>2. draft'.shown = 0 /\ draft'.package = draft.package
      BY <3>1 DEF Draft
    <3> QED  BY <2>2, <3>1, <3>2 DEF Priced, DraftPriced
  <2> QED  BY <2>1, <2>3, <2>4 DEF checkoutStart, checkoutRequirementsSubmit, checkoutConfirm,
              confirmGig, CreateOrderFromDraft, Converted, RequestAborts
<1> QED  BY <1>1, <1>2, <1>3 DEF Priced

\* The total that is shown is what the package and the add-ons cost.
LEMMA ReviewPriced ==
  ASSUME Typed, NEW price \in Prices, Priced(price), checkoutReview
  PROVE  Priced(price)'
<1>t. draft \in Draft \cup {None} /\ DraftRow /\ addons \subseteq 1..MaxForms
  BY RowsTyped
<1> DEFINE total == CalculateOrderTotals(PriceOf(draft.package), Cardinality(draft.addons))
<1>1. /\ draft # None /\ draft' = [draft EXCEPT !.shown = total]
      /\ UNCHANGED <<packages, edit, forms, req>>
  BY DEF checkoutReview, loadOwnedDraft
<1>2. draft \in Draft /\ draft.package \in Ids /\ draft.addons \subseteq addons
  BY <1>t, <1>1 DEF DraftRow
<1>3. draft.package[1] <= forms /\ PriceOf(draft.package) = price[draft.package[1]]
  BY <1>2, PriceKnown DEF Priced
<1>4. total \in Nat
  <2>1. PriceOf(draft.package) \in Nat
    BY <1>2, PriceFound DEF Typed
  <2> QED  BY <1>t, <1>2, <2>1, TotalTyped
<1>5. total = CalculateOrderTotals(price[draft.package[1]], Cardinality(draft.addons))
  BY <1>3
<1> HIDE DEF total
<1>6. /\ draft'.package = draft.package /\ draft'.addons = draft.addons /\ draft'.shown = total
  BY <1>1, <1>2 DEF Draft
<1>7. total <= total
  BY <1>4
<1>8. DraftPriced(price)'
  BY <1>1, <1>3, <1>5, <1>6, <1>7 DEF DraftPriced, Covers
<1>9. PackagesPriced(price)' /\ EditsPriced(price)' /\ ReadsPriced(price)'
  BY <1>1 DEF Priced, PackagesPriced, EditsPriced, ReadsPriced, Covers
<1> QED  BY <1>8, <1>9 DEF Priced

LEMMA PricedStep ==
  ASSUME Typed, [Next]_vars, NEW price \in Prices, Priced(price)
  PROVE  \E new \in Prices : Priced(new)'
<1>1. ASSUME NEW e \in Edits, sellGigCreate(e) \/ sellGigUpdate(e)
      PROVE  \E new \in Prices : Priced(new)'
  BY <1>1, SubmitPriced DEF sellGigCreate, sellGigUpdate
<1>2. CASE Hide \/ adminModerationGigDecide \/ UNCHANGED vars
  <2>1. UNCHANGED <<packages, edit, forms, draft, req>>
    BY <1>2 DEF Hide, adminModerationGigDecide, vars
  <2>2. Priced(price)'
    BY <2>1 DEF Priced, PackagesPriced, EditsPriced, DraftPriced, ReadsPriced, Covers
  <2> QED  BY <2>2
<1> QED  BY <1>1, <1>2, SellerPriced, BuyerPriced, ReviewPriced DEF Next

LEMMA CreatesStep ==
  ASSUME Typed, [Next]_vars, NEW price \in Prices, Priced(price), CreatesPriced
  PROVE  CreatesPriced'
<1>1. CASE req' = req
  BY <1>1 DEF CreatesPriced
<1>2. ASSUME NEW r \in Requests, OthersSame(r),
             req'[r].pc = "create" /\ req'[r].shown # 0 => req'[r].total <= req'[r].shown
      PROVE  CreatesPriced'
  BY <1>2 DEF OthersSame, CreatesPriced
<1>3. ASSUME NEW r \in Requests, confirmGig(r)
      PROVE  CreatesPriced'
  <2>1. /\ OthersSame(r) /\ req'[r].shown = req[r].shown /\ req'[r].total = Total(r)
        /\ req[r].pc = "gig" /\ req[r].package \in Ids
    BY <1>3, BuyerEffects DEF confirmGig
  <2>2. Covers(price, req[r].shown, req[r].package, req[r].addons)
    BY <2>1 DEF Priced, ReadsPriced
  <2>3. /\ req[r].package \in PackageIds
        /\ PriceOf(req[r].package) = price[req[r].package[1]]
    BY <2>1, PriceKnown DEF Priced
  <2>4. /\ req[r].shown \in Nat /\ req[r].addons \in SUBSET (1..MaxForms)
        /\ selectedAddons(r) \in SUBSET req[r].addons
    BY RowsTyped DEF Request, selectedAddons
  <2>5. Covers(price, req[r].shown, req[r].package, selectedAddons(r))
    BY <2>2, <2>3, <2>4, FewerCovered
  <2>6. req[r].shown # 0 => Total(r) <= req[r].shown
    BY <2>3, <2>5 DEF Covers, Total
  <2> QED  BY <1>2, <2>1, <2>6
<1>4. ASSUME NEW r \in Requests,
             \/ checkoutStart(r) \/ UpsertDraftOrder(r) \/ checkoutRequirementsSubmit(r)
             \/ SetDraftOrderRequirements(r) \/ checkoutConfirm(r)
             \/ CreateOrderFromDraft(r) \/ RequestAborts(r)
      PROVE  CreatesPriced'
  <2>1. OthersSame(r) /\ req'[r].pc # "create"
    BY <1>4, BuyerEffects
  <2> QED  BY <1>2, <2>1
<1>5. ASSUME NEW e \in Edits,
             \/ sellGigCreate(e) \/ sellGigUpdate(e) \/ ReplaceGigPackagesDelete(e)
             \/ ReplaceGigPackagesInsert(e) \/ ReplaceGigAddonsDelete(e)
             \/ ReplaceGigAddonsInsert(e) \/ sellGigStatus(e) \/ SetGigStatus(e) \/ EditAborts(e)
      PROVE  req' = req
  BY <1>5 DEF sellGigCreate, sellGigUpdate, ReplaceGigPackagesDelete, ReplaceGigPackagesInsert,
     ReplaceGigAddonsDelete, ReplaceGigAddonsInsert, sellGigStatus, SetGigStatus, EditAborts
<1>6. ASSUME Hide \/ adminModerationGigDecide \/ checkoutReview \/ UNCHANGED vars
      PROVE  req' = req
  BY <1>6 DEF Hide, adminModerationGigDecide, checkoutReview, vars
<1> QED  BY <1>1, <1>3, <1>4, <1>5, <1>6 DEF Next

\* Only a confirmation creates an order.
LEMMA OrdersStep ==
  ASSUME [Next]_vars
  PROVE  orders' = orders \/ \E r \in Requests : CreateOrderFromDraft(r)
<1>1. ASSUME NEW e \in Edits,
             \/ sellGigCreate(e) \/ sellGigUpdate(e) \/ ReplaceGigPackagesDelete(e)
             \/ ReplaceGigPackagesInsert(e) \/ ReplaceGigAddonsDelete(e)
             \/ ReplaceGigAddonsInsert(e) \/ sellGigStatus(e) \/ SetGigStatus(e) \/ EditAborts(e)
      PROVE  orders' = orders
  BY <1>1 DEF sellGigCreate, sellGigUpdate, ReplaceGigPackagesDelete, ReplaceGigPackagesInsert,
     ReplaceGigAddonsDelete, ReplaceGigAddonsInsert, sellGigStatus, SetGigStatus, EditAborts
<1>2. ASSUME NEW r \in Requests,
             \/ checkoutStart(r) \/ UpsertDraftOrder(r) \/ checkoutRequirementsSubmit(r)
             \/ SetDraftOrderRequirements(r) \/ checkoutConfirm(r) \/ confirmGig(r)
             \/ RequestAborts(r)
      PROVE  orders' = orders
  BY <1>2 DEF checkoutStart, UpsertDraftOrder, checkoutRequirementsSubmit, SetDraftOrderRequirements,
     checkoutConfirm, confirmGig, RequestAborts
<1>3. ASSUME Hide \/ adminModerationGigDecide \/ checkoutReview \/ UNCHANGED vars
      PROVE  orders' = orders
  BY <1>3 DEF Hide, adminModerationGigDecide, checkoutReview, vars
<1> QED  BY <1>1, <1>2, <1>3 DEF Next

\* The order a confirmation creates.
LEMMA OrderAppended ==
  ASSUME Typed, NEW r \in Requests, CreateOrderFromDraft(r)
  PROVE  /\ Len(orders) \in Nat /\ DOMAIN orders = 1..Len(orders)
         /\ DOMAIN orders' = DOMAIN orders \cup {Len(orders) + 1}
         /\ Len(orders) + 1 \notin DOMAIN orders
         /\ \A i \in DOMAIN orders : orders'[i] = orders[i]
         /\ orders'[Len(orders) + 1].draft = req[r].draft
         /\ orders'[Len(orders) + 1].total = req[r].total
         /\ orders'[Len(orders) + 1].shown = req[r].shown
         /\ req[r].pc = "create"
<1> DEFINE o == [draft |-> req[r].draft, total |-> req[r].total, shown |-> req[r].shown]
<1>1. orders' = Append(orders, o) /\ req[r].pc = "create" /\ orders \in Seq(Order)
  BY RowsTyped DEF CreateOrderFromDraft
<1>2. o.draft = req[r].draft /\ o.total = req[r].total /\ o.shown = req[r].shown
  OBVIOUS
<1> HIDE DEF o
<1>3. /\ Len(orders) \in Nat /\ DOMAIN orders = 1..Len(orders)
      /\ DOMAIN orders' = 1..(Len(orders) + 1)
      /\ orders'[Len(orders) + 1] = o
      /\ \A i \in DOMAIN orders : orders'[i] = orders[i]
  BY <1>1
<1>4. /\ 1..(Len(orders) + 1) = 1..Len(orders) \cup {Len(orders) + 1}
      /\ Len(orders) + 1 \notin 1..Len(orders)
  BY <1>3
<1> QED  BY <1>1, <1>2, <1>3, <1>4

LEMMA PriceInvStep ==
  ASSUME Typed, [Next]_vars, PriceInv
  PROVE  PriceInv'
<1>1. PICK price \in Prices : Priced(price)
  BY DEF PriceInv
<1>2. (\E new \in Prices : Priced(new)') /\ CreatesPriced'
  BY <1>1, PricedStep, CreatesStep DEF PriceInv
<1>3. NeverDearerThanShown'
  <2>1. CASE orders' = orders
    BY <2>1 DEF PriceInv, NeverDearerThanShown
  <2>2. ASSUME NEW r \in Requests, CreateOrderFromDraft(r)
        PROVE  NeverDearerThanShown'
    <3> SUFFICES ASSUME NEW i \in DOMAIN orders', orders'[i].shown # 0
                 PROVE  orders'[i].total <= orders'[i].shown
      BY DEF NeverDearerThanShown
    <3>1. CASE i \in DOMAIN orders
      BY <2>2, <3>1, OrderAppended DEF PriceInv, NeverDearerThanShown
    <3>2. CASE i = Len(orders) + 1
      BY <2>2, <3>2, OrderAppended DEF PriceInv, CreatesPriced
    <3> QED  BY <2>2, <3>1, <3>2, OrderAppended
  <2> QED  BY <2>1, <2>2, OrdersStep
<1>4. PICK new \in Prices : Priced(new)'
  BY <1>2
<1> QED  BY <1>2, <1>3, <1>4 DEF PriceInv

(***************************************************************************)
(* Orders of a draft.                                                      *)
(***************************************************************************)
OrdersOf(d) == {i \in DOMAIN orders : orders[i].draft = d}
Confirmations(d) == {r \in Requests : req[r].pc \in Confirming /\ req[r].draft = d}

\* The draft is there until its first order; from then on only those that have read it
\* before make another.
DraftOrders(d) ==
  /\ (draft # None /\ draft.id = d) \/ drafts < d => OrdersOf(d) = {}
  /\ Cardinality(OrdersOf(d)) + Cardinality(Confirmations(d)) <= Cardinality(Requests)

OrderInv == \A d \in 1..MaxDrafts : DraftOrders(d)

LEMMA OrdersCounted ==
  ASSUME Typed, NEW d
  PROVE  /\ IsFiniteSet(OrdersOf(d)) /\ Cardinality(OrdersOf(d)) \in Nat
         /\ IsFiniteSet(Confirmations(d)) /\ Cardinality(Confirmations(d)) \in Nat
         /\ Cardinality(Confirmations(d)) <= Cardinality(Requests)
         /\ Cardinality(Requests) \in Nat
<1>1. Len(orders) \in Nat /\ DOMAIN orders = 1..Len(orders)
  BY RowsTyped
<1>2. IsFiniteSet(DOMAIN orders)
  BY <1>1, FS_Interval
<1>3. OrdersOf(d) \subseteq DOMAIN orders /\ Confirmations(d) \subseteq Requests
  BY DEF OrdersOf, Confirmations
<1> QED  BY <1>2, <1>3, RequestsAssumption, FS_Subset, FS_CardinalityType

\* The first orders of a draft that is there.
LEMMA NoneOrdered ==
  ASSUME Typed, NEW d, OrdersOf(d) = {}
  PROVE  DraftOrders(d)
<1>1. Cardinality(OrdersOf(d)) = 0
  BY FS_EmptySet
<1>2. /\ Cardinality(Confirmations(d)) \in Nat /\ Cardinality(Requests) \in Nat
      /\ Cardinality(Confirmations(d)) <= Cardinality(Requests)
  BY OrdersCounted
<1> QED  BY <1>1, <1>2 DEF DraftOrders

\* The same of the state a step leads to.
LEMMA NoneOrderedNext ==
  ASSUME Typed', NEW d, OrdersOf(d)' = {}
  PROVE  DraftOrders(d)'
<1>1. Confirmations(d)' \subseteq Requests
  BY DEF Confirmations
<1>2. /\ Cardinality(Confirmations(d)') \in Nat /\ Cardinality(Requests) \in Nat
      /\ Cardinality(Confirmations(d)') <= Cardinality(Requests)
  BY <1>1, RequestsAssumption, FS_Subset, FS_CardinalityType
<1>3. Cardinality(OrdersOf(d)') = 0
  BY FS_EmptySet
<1>4. Cardinality(OrdersOf(d)') + Cardinality(Confirmations(d)') <= Cardinality(Requests)
  BY <1>2, <1>3
<1> QED  BY <1>4 DEF DraftOrders

\* A step that creates no order of the draft, brings it not back, and confirms it no
\* more.
LEMMA OrdersKept ==
  ASSUME Typed, NEW d, DraftOrders(d), OrdersOf(d)' = OrdersOf(d),
         (draft' # None /\ draft'.id = d) \/ drafts' < d =>
           (draft # None /\ draft.id = d) \/ drafts < d,
         Confirmations(d)' \subseteq Confirmations(d)
  PROVE  DraftOrders(d)'
<1>1. /\ Cardinality(OrdersOf(d)) \in Nat /\ Cardinality(Confirmations(d)) \in Nat
      /\ Cardinality(Requests) \in Nat /\ IsFiniteSet(Confirmations(d))
  BY OrdersCounted
<1>2. /\ Cardinality(Confirmations(d)') \in Nat
      /\ Cardinality(Confirmations(d)') <= Cardinality(Confirmations(d))
  BY <1>1, FS_Subset, FS_CardinalityType
<1>3. \A o, p, q, n \in Int : o + p <= n /\ q <= p => o + q <= n
  OBVIOUS
<1>4. Cardinality(OrdersOf(d)') + Cardinality(Confirmations(d)') <= Cardinality(Requests)
  BY <1>1, <1>2, <1>3 DEF DraftOrders
<1> QED  BY <1>4 DEF DraftOrders

LEMMA CreateCounted ==
  ASSUME Typed, OrderInv, NEW r \in Requests, CreateOrderFromDraft(r), NEW d \in 1..MaxDrafts
  PROVE  DraftOrders(d)'
<1>1. DraftOrders(d)
  BY DEF OrderInv
<1>2. /\ OthersSame(r) /\ req'[r].pc = "idle" /\ req[r].pc = "create"
      /\ req[r].draft \in 1..drafts
  BY BuyerEffects, OrderAppended DEF Typed, DraftInv, Confirming
<1>3. /\ draft' \in {draft, None} /\ drafts' = drafts
      /\ draft' # None => draft.id # req[r].draft
  BY DEF CreateOrderFromDraft, Converted
<1>4. Confirmations(d)' = Confirmations(d) \ {r}
  BY <1>2 DEF Confirmations, OthersSame, Confirming
<1>5. CASE req[r].draft # d
  <2>1. OrdersOf(d)' = OrdersOf(d)
    BY <1>5, OrderAppended DEF OrdersOf
  <2> QED  BY <1>1, <1>3, <1>4, <2>1, OrdersKept
<1>6. CASE req[r].draft = d
  <2>1. /\ OrdersOf(d)' = OrdersOf(d) \cup {Len(orders) + 1}
        /\ Len(orders) + 1 \notin OrdersOf(d)
    BY <1>6, OrderAppended DEF OrdersOf
  <2>2. r \in Confirmations(d)
    BY <1>2, <1>6 DEF Confirmations, Confirming
  <2>3. /\ Cardinality(OrdersOf(d)) \in Nat /\ Cardinality(Confirmations(d)) \in Nat
        /\ Cardinality(Requests) \in Nat /\ IsFiniteSet(Confirmations(d)) /\ IsFiniteSet(OrdersOf(d))
    BY OrdersCounted
  <2>4. Cardinality(OrdersOf(d)') = Cardinality(OrdersOf(d)) + 1
    BY <2>1, <2>3, FS_AddElement
  <2>5. Cardinality(Confirmations(d)') = Cardinality(Confirmations(d)) - 1
    BY <1>4, <2>2, <2>3, FS_RemoveElement
  <2>6. \A o, p, n \in Int : o + p <= n => (o + 1) + (p - 1) <= n
    OBVIOUS
  <2>7. Cardinality(OrdersOf(d)') + Cardinality(Confirmations(d)') <= Cardinality(Requests)
    BY <1>1, <2>3, <2>4, <2>5, <2>6 DEF DraftOrders
  <2>8. ~(drafts' < d)
    BY <1>2, <1>3, <1>6, RowsTyped
  <2>9. ~(draft' # None /\ draft'.id = d)
    BY <1>3, <1>6
  <2> QED  BY <2>7, <2>8, <2>9 DEF DraftOrders
<1> QED  BY <1>5, <1>6

LEMMA OrderInvStep ==
  ASSUME Typed, Typed', OrderInv, [Next]_vars
  PROVE  OrderInv'
<1> SUFFICES ASSUME NEW d \in 1..MaxDrafts
             PROVE  DraftOrders(d)'
  BY DEF OrderInv
<1>t. draft \in Draft \cup {None} /\ drafts \in Nat
  BY RowsTyped
<1>d. DraftOrders(d)
  BY DEF OrderInv
<1>o. orders' = orders => OrdersOf(d)' = OrdersOf(d)
  BY DEF OrdersOf
\* Steps that start no draft and confirm none.
<1>1. ASSUME orders' = orders, drafts' = drafts, draft' # None => draft # None /\ draft'.id = draft.id,
             \/ req' = req
             \/ \E r \in Requests :
                  /\ OthersSame(r)
                  /\ req'[r].pc \in Confirming => req[r].pc \in Confirming /\ req'[r].draft = req[r].draft
      PROVE  DraftOrders(d)'
  <2>1. Confirmations(d)' \subseteq Confirmations(d)
    BY <1>1 DEF Confirmations, OthersSame
  <2> QED  BY <1>d, <1>o, <1>1, <2>1, OrdersKept
<1>2. ASSUME NEW e \in Edits,
             \/ sellGigCreate(e) \/ sellGigUpdate(e) \/ ReplaceGigPackagesDelete(e)
             \/ ReplaceGigPackagesInsert(e) \/ ReplaceGigAddonsDelete(e)
             \/ ReplaceGigAddonsInsert(e) \/ sellGigStatus(e) \/ SetGigStatus(e) \/ EditAborts(e)
      PROVE  DraftOrders(d)'
  <2>1. orders' = orders /\ drafts' = drafts /\ req' = req
    BY <1>2 DEF sellGigCreate, sellGigUpdate, ReplaceGigPackagesDelete, ReplaceGigPackagesInsert,
       ReplaceGigAddonsDelete, ReplaceGigAddonsInsert, sellGigStatus, SetGigStatus, EditAborts
  <2>2. draft' # None => draft # None /\ draft'.id = draft.id
    <3>1. CASE ReplaceGigAddonsInsert(e)
      BY <1>t, <3>1 DEF ReplaceGigAddonsInsert, Draft
    <3>2. CASE ~ReplaceGigAddonsInsert(e)
      <4>1. draft' \in {draft, None}
        BY <1>2, <3>2, InsertEffect DEF sellGigCreate, sellGigUpdate, ReplaceGigPackagesDelete,
           ReplaceGigAddonsDelete, sellGigStatus, SetGigStatus, EditAborts
      <4> QED  BY <4>1
    <3> QED  BY <3>1, <3>2
  <2> QED  BY <1>1, <2>1, <2>2
<1>3. CASE Hide \/ adminModerationGigDecide \/ checkoutReview \/ UNCHANGED vars
  <2>1. orders' = orders /\ drafts' = drafts /\ req' = req
    BY <1>3 DEF Hide, adminModerationGigDecide, checkoutReview, vars
  <2>2. draft' # None => draft # None /\ draft'.id = draft.id
    <3>1. CASE checkoutReview
      BY <1>t, <3>1 DEF checkoutReview, loadOwnedDraft, Draft
    <3> QED  BY <1>3, <3>1 DEF Hide, adminModerationGigDecide, vars
  <2> QED  BY <1>1, <2>1, <2>2
<1>4. ASSUME NEW r \in Requests,
             \/ checkoutStart(r) \/ checkoutRequirementsSubmit(r)
             \/ SetDraftOrderRequirements(r) \/ confirmGig(r) \/ RequestAborts(r)
      PROVE  DraftOrders(d)'
  <2>1. orders' = orders /\ drafts' = drafts
    BY <1>4 DEF checkoutStart, checkoutRequirementsSubmit, SetDraftOrderRequirements, confirmGig,
       RequestAborts
  <2>2. draft' # None => draft # None /\ draft'.id = draft.id
    <3>1. CASE SetDraftOrderRequirements(r)
      BY <1>t, <3>1 DEF SetDraftOrderRequirements, Draft
    <3> QED  BY <1>4, <3>1 DEF checkoutStart, checkoutRequirementsSubmit, confirmGig, RequestAborts
  <2>3. /\ OthersSame(r)
        /\ req'[r].pc \in Confirming => req[r].pc \in Confirming /\ req'[r].draft = req[r].draft
    <3>1. CASE confirmGig(r)
      BY <3>1, BuyerEffects DEF confirmGig, Confirming
    <3>2. CASE ~confirmGig(r)
      BY <1>4, <3>2, BuyerEffects DEF Confirming
    <3> QED  BY <3>1, <3>2
  <2> QED  BY <1>1, <2>1, <2>2, <2>3
<1>5. ASSUME NEW r \in Requests, UpsertDraftOrder(r)
      PROVE  DraftOrders(d)'
  <2>1. /\ orders' = orders /\ OthersSame(r) /\ req'[r].pc \notin Confirming
    BY <1>5, BuyerEffects DEF UpsertDraftOrder, Confirming
  <2>2. CASE draft # None
    <3>1. drafts' = drafts /\ draft'.id = draft.id
      BY <1>t, <1>5, <2>2 DEF UpsertDraftOrder, Draft
    <3> QED  BY <1>1, <2>1, <2>2, <3>1
  <2>3. CASE draft = None
    <3>1. drafts' = drafts + 1 /\ draft'.id = drafts + 1
      BY <1>5, <2>3 DEF UpsertDraftOrder
    <3>2. Confirmations(d)' \subseteq Confirmations(d)
      BY <2>1 DEF Confirmations, OthersSame
    <3>3. (draft' # None /\ draft'.id = d) \/ drafts' < d => drafts < d
      BY <1>t, <3>1
    <3> QED  BY <1>d, <1>o, <2>1, <3>2, <3>3, OrdersKept
  <2> QED  BY <2>2, <2>3
<1>6. ASSUME NEW r \in Requests, checkoutConfirm(r)
      PROVE  DraftOrders(d)'
  <2>1. /\ draft # None /\ OthersSame(r) /\ req'[r].draft = draft.id
        /\ orders' = orders /\ drafts' = drafts /\ draft' = draft
    BY <1>6, BuyerEffects DEF checkoutConfirm
  <2>2. CASE draft.id = d
    <3>1. OrdersOf(d)' = {}
      BY <1>d, <1>o, <2>1, <2>2 DEF DraftOrders
    <3> QED  BY <3>1, NoneOrderedNext
  <2>3. CASE draft.id # d
    <3>1. Confirmations(d)' \subseteq Confirmations(d)
      BY <2>1, <2>3 DEF Confirmations, OthersSame
    <3> QED  BY <1>d, <1>o, <2>1, <3>1, OrdersKept
  <2> QED  BY <2>2, <2>3
<1>7. ASSUME NEW r \in Requests, CreateOrderFromDraft(r)
      PROVE  DraftOrders(d)'
  BY <1>7, CreateCounted
<1> QED  BY <1>2, <1>3, <1>4, <1>5, <1>6, <1>7 DEF Next

(***************************************************************************)
(* The theorems.                                                           *)
(***************************************************************************)
IInv == Typed /\ SellInv /\ OnePackagePerTier /\ PriceInv /\ OrderInv

LEMMA InitInv == Init => IInv
<1> SUFFICES ASSUME Init PROVE IInv
  OBVIOUS
<1>1. Typed
  BY InitTyped
<1>2. SellInv /\ OnePackagePerTier
  BY NoneTyped DEF Init, SellInv, OnePackagePerTier
<1>3. \A r \in Requests : req[r].pc = "idle"
  BY NoneTyped DEF Init
<1>4. PICK price : price \in Prices
  <2>1. [i \in 1..MaxForms |-> 0] \in Prices
    BY DEF Prices
  <2> QED  BY <2>1
<1>5. Priced(price)
  BY <1>3, NoneTyped DEF Init, Priced, PackagesPriced, EditsPriced, DraftPriced, ReadsPriced
<1>6. PriceInv
  BY <1>3, <1>4, <1>5 DEF Init, PriceInv, CreatesPriced, NeverDearerThanShown
<1>7. \A d \in 1..MaxDrafts : OrdersOf(d) = {}
  BY DEF Init, OrdersOf
<1>8. OrderInv
  BY <1>1, <1>7, NoneOrdered DEF OrderInv
<1> QED  BY <1>1, <1>2, <1>6, <1>8 DEF IInv

LEMMA StepInv == IInv /\ [Next]_vars => IInv'
BY StepTyped, SellInvStep, TiersStep, PriceInvStep, OrderInvStep DEF IInv

LEMMA Invariant == Spec => []IInv
<1> QED  BY InitInv, StepInv, PTL DEF Spec

\* An active gig always has a package to order, whatever forms are saved, fail or race.
THEOREM ActiveGigsSell == Spec => []ActiveGigSells
<1>1. IInv => ActiveGigSells
  BY DEF IInv, SellInv, ActiveGigSells
<1> QED  BY <1>1, Invariant, PTL

\* However many forms are saved at once, a gig has one package of a tier.
THEOREM TiersUnique == Spec => []OnePackagePerTier
<1>1. IInv => OnePackagePerTier
  BY DEF IInv
<1> QED  BY <1>1, Invariant, PTL

\* No order costs more than its buyer was shown, for any prices, fee and interleaving.
THEOREM PricesHold == Spec => []NeverDearerThanShown
<1>1. IInv => NeverDearerThanShown
  BY DEF IInv, PriceInv
<1> QED  BY <1>1, Invariant, PTL

\* A draft becomes no more orders than the requests that may confirm it at once.
THEOREM DraftOrdersLimited == Spec => []OrdersPerDraftBounded
<1>1. ASSUME IInv PROVE OrdersPerDraftBounded
  <2> SUFFICES ASSUME NEW d \in 1..drafts
               PROVE  Cardinality(OrdersOf(d)) <= Cardinality(Requests)
    BY DEF OrdersPerDraftBounded, OrdersOf
  <2>1. d \in 1..MaxDrafts
    BY <1>1, RowsTyped, BoundsAssumption DEF IInv
  <2>2. Cardinality(OrdersOf(d)) + Cardinality(Confirmations(d)) <= Cardinality(Requests)
    BY <1>1, <2>1 DEF IInv, OrderInv, DraftOrders
  <2>3. /\ Cardinality(OrdersOf(d)) \in Nat /\ Cardinality(Confirmations(d)) \in Nat
        /\ Cardinality(Requests) \in Nat
    BY <1>1, OrdersCounted DEF IInv
  <2> QED  BY <2>2, <2>3
<1> QED  BY <1>1, Invariant, PTL

=============================================================================
