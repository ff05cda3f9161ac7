--------------------------- MODULE CatalogueProofs ---------------------------
(***************************************************************************)
(* Theorems about Catalogue, for any number of requests, reviews, gigs,    *)
(* tags and categories.                                                    *)
(***************************************************************************)
EXTENDS Catalogue, FiniteSetTheorems, TLAPS

(***************************************************************************)
(* Rows and requests.                                                      *)
(***************************************************************************)
Reviewing == {"recount", "counted"}
Tagging == {"update", "clear", "delete", "tags"}

Work == [pc : {"idle", "place"} \cup Reviewing \cup Tagging,
         form : 0..MaxStarted, order : Orders \cup {0}, to : ReviewStates,
         counted : SUBSET Orders, gig : Gigs \cup {0},
         category : 0..MaxCategories, todo : Seq(Slugs),
         old : SUBSET Link, held : SUBSET (1..MaxTags), new : SUBSET Tag,
         linked : SUBSET (1..MaxTags), place : Nat, after : Nat,
         meanwhile : SUBSET (Orders \cup (1..MaxStarted))]

\* A request knows what it was started for; only one that saves tags holds any, and
\* what it links or has added it holds.
Begun(x) ==
  /\ x.pc \in Reviewing => x.order \in Orders /\ x.to \in Decisions
  /\ x.pc \in Tagging \cup {"place"} => x.gig \in Gigs
  /\ x.pc \in Tagging => x.form \in 1..MaxStarted
  /\ x.pc = "counted" => x.meanwhile \subseteq Orders
  /\ x.pc \in {"delete", "tags"} => x.meanwhile \subseteq 1..MaxStarted
  /\ x.pc # "tags" => x.held = {} /\ x.new = {} /\ x.linked = {}
  /\ x.linked \subseteq x.held /\ \A t \in x.new : t.id \in x.held

WorkTyped == req \in [Requests -> Work] /\ \A r \in Requests : Begun(req[r])

Counters == [tags : 0..MaxTags, categories : 0..MaxCategories, requests : 0..MaxStarted]

ShopRows ==
  /\ reviews \in [Orders -> ReviewStates] /\ summary \subseteq Orders
  /\ tags \subseteq Tag /\ links \in [Gigs -> SUBSET Link]
  /\ categories \subseteq 1..MaxCategories /\ category \in [Gigs -> categories \cup {0}]
  /\ media \in [Gigs -> Seq(Media)]
  /\ used \in Counters
  /\ since \in [reviews : SUBSET Orders, forms : [Gigs -> SUBSET (1..MaxStarted)]]

Typed == ShopRows /\ WorkTyped

\* What a step makes of one request.
Turns(r, x) == req' = [req EXCEPT ![r] = x]

LEMMA NoWork ==
  /\ NoReq \in Work /\ NoReq.pc = "idle" /\ Begun(NoReq)
  /\ NoReq.new = {} /\ NoReq.held = {} /\ NoReq.linked = {}
<1>1. 0 \in 0..MaxStarted /\ 0 \in 0..MaxCategories
  BY BoundsAssumption
<1>2. NoReq \in Work
  BY <1>1 DEF NoReq, Work, ReviewStates
<1> QED  BY <1>2 DEF NoReq, Begun, Reviewing, Tagging

LEMMA TurnsTyped ==
  ASSUME WorkTyped, NEW r \in Requests, NEW x \in Work, Begun(x), Turns(r, x)
  PROVE  WorkTyped' /\ req'[r] = x /\ \A q \in Requests \ {r} : req'[q] = req[q]
<1>1. req' \in [Requests -> Work] /\ req'[r] = x /\ \A q \in Requests \ {r} : req'[q] = req[q]
  BY DEF WorkTyped, Turns
<1>2. \A q \in Requests : Begun(req[q])
  BY DEF WorkTyped
<1>3. \A q \in Requests : Begun(req'[q])
  BY <1>1, <1>2
<1>4. \A q \in Requests : Begun(req[q])'
  BY <1>3 DEF Begun
<1> QED  BY <1>1, <1>4 DEF WorkTyped

\* The start of a request.
LEMMA StartTurns ==
  ASSUME Typed, NEW r \in Requests, NEW x \in Work, Begun(x), Start(r, x)
  PROVE  /\ Turns(r, x) /\ used' \in Counters /\ used.requests + 1 \in 1..MaxStarted
         /\ used'.tags = used.tags
<1>1. used \in Counters /\ MaxStarted \in Nat
  BY BoundsAssumption DEF Typed, ShopRows
<1>2. /\ used.requests \in Nat /\ used.requests < MaxStarted
      /\ used' = [used EXCEPT !.requests = @ + 1]
  BY <1>1 DEF Start, Counters
<1>3. used.requests + 1 \in 0..MaxStarted /\ used.requests + 1 \in 1..MaxStarted
  BY <1>1, <1>2
<1>4. used' \in Counters /\ used'.tags = used.tags
  BY <1>1, <1>2, <1>3 DEF Counters
<1> QED  BY <1>3, <1>4 DEF Start, Turns

(* Every row and every request has its type. *)

Same(r) == \A q \in Requests \ {r} : req'[q] = req[q]

\* A request that begins to review, to save a gig's form or to upload.
LEMMA BegunReview ==
  ASSUME NEW o \in Orders, NEW d \in Decisions
  PROVE  Written(o, d) \in Work /\ Begun(Written(o, d)) /\ Written(o, d).pc = "recount"
<1> DEFINE x == Written(o, d)
<1>1. NoReq \in Work /\ NoReq.new = {} /\ NoReq.held = {} /\ NoReq.linked = {}
  BY NoWork
<1>2. d \in ReviewStates
  BY DEF Decisions, ReviewStates
<1>3. x = [NoReq EXCEPT !.pc = "recount", !.order = o, !.to = d]
  BY DEF Written
<1>4. /\ x \in Work /\ x.pc = "recount" /\ x.order = o /\ x.to = d
      /\ x.new = {} /\ x.held = {} /\ x.linked = {}
  BY <1>1, <1>2, <1>3 DEF Work, Reviewing
<1> HIDE DEF x
<1>5. Begun(x)
  BY <1>4 DEF Begun, Reviewing, Tagging
<1> QED  BY <1>4, <1>5 DEF x

Form(n, g, c, f) ==
  [NoReq EXCEPT !.pc = "update", !.form = n, !.gig = g, !.category = c, !.todo = f]

Upload(g, p, k) == [NoReq EXCEPT !.pc = "place", !.gig = g, !.place = p, !.after = k]

LEMMA BegunForm ==
  ASSUME NEW g \in Gigs, NEW c \in 0..MaxCategories, NEW f \in Forms,
         NEW n \in 1..MaxStarted
  PROVE  /\ Form(n, g, c, f) \in Work /\ Begun(Form(n, g, c, f))
         /\ Form(n, g, c, f).pc = "update"
<1> DEFINE x == Form(n, g, c, f)
<1>1. NoReq \in Work /\ NoReq.new = {} /\ NoReq.held = {} /\ NoReq.linked = {}
  BY NoWork
<1>2. f \in Seq(Slugs) /\ n \in 0..MaxStarted
  BY FormsAssumption, BoundsAssumption
<1>3. /\ x \in Work /\ x.pc = "update" /\ x.form = n /\ x.gig = g
      /\ x.new = {} /\ x.held = {} /\ x.linked = {}
  BY <1>1, <1>2 DEF Work, Tagging, Form
<1> HIDE DEF x
<1>4. Begun(x)
  BY <1>3 DEF Begun, Reviewing, Tagging
<1> QED  BY <1>3, <1>4 DEF x

LEMMA BegunUpload ==
  ASSUME NEW g \in Gigs, NEW p \in Nat, NEW k \in Nat
  PROVE  LET x == Upload(g, p, k)
         IN  /\ x \in Work /\ Begun(x) /\ x.pc = "place"
             /\ x.gig = g /\ x.place = p /\ x.after = k
<1> DEFINE x == Upload(g, p, k)
<1>1. NoReq \in Work /\ NoReq.new = {} /\ NoReq.held = {} /\ NoReq.linked = {}
  BY NoWork
<1>2. /\ x \in Work /\ x.pc = "place" /\ x.gig = g /\ x.place = p /\ x.after = k
      /\ x.new = {} /\ x.held = {} /\ x.linked = {}
  BY <1>1 DEF Work, Upload
<1> HIDE DEF x
<1>3. Begun(x)
  BY <1>2 DEF Begun, Reviewing, Tagging
<1> QED  BY <1>2, <1>3 DEF x

\* A request that ends.
LEMMA DoneTurns ==
  ASSUME Typed, NEW r \in Requests, Done(r)
  PROVE  WorkTyped' /\ req'[r] = NoReq /\ Same(r)
<1>1. NoReq \in Work /\ Begun(NoReq)
  BY NoWork DEF Typed
<1>2. Turns(r, NoReq) /\ WorkTyped
  BY DEF Done, Turns, Typed
<1> QED  BY <1>1, <1>2, TurnsTyped DEF Same

\* The statements of a request up to its COMMIT.
LEMMA RecalculateTurns ==
  ASSUME Typed, NEW r \in Requests, Recalculate(r)
  PROVE  /\ WorkTyped' /\ Same(r)
         /\ req'[r].pc = "counted" /\ req'[r].counted = Counted(r)
         /\ req'[r].meanwhile = {} /\ req'[r].order = req[r].order
         /\ req'[r].to = req[r].to
         /\ req'[r].held = {} /\ req'[r].new = {}
<1> DEFINE x == [req[r] EXCEPT !.pc = "counted", !.counted = Counted(r), !.meanwhile = {}]
<1>1. req[r] \in Work /\ Begun(req[r]) /\ req[r].pc = "recount" /\ req \in [Requests -> Work]
  BY DEF Typed, WorkTyped, Recalculate
<1>2. Counted(r) \in SUBSET Orders
  BY DEF Counted, Approved
<1>3. Turns(r, x)
  BY <1>1 DEF Recalculate, Turns
<1>4. /\ x \in Work /\ x.pc = "counted" /\ x.counted = Counted(r) /\ x.meanwhile = {}
      /\ x.order = req[r].order /\ x.to = req[r].to /\ x.gig = req[r].gig
      /\ x.held = req[r].held /\ x.new = req[r].new /\ x.linked = req[r].linked
  BY <1>1, <1>2 DEF Work, Reviewing
<1> HIDE DEF x
<1>5. Begun(x) /\ x.held = {} /\ x.new = {}
  BY <1>1, <1>4 DEF Begun, Reviewing, Tagging
<1> QED  BY <1>3, <1>4, <1>5, TurnsTyped DEF Same, Typed

LEMMA UpdateGigTurns ==
  ASSUME Typed, NEW r \in Requests, UpdateGig(r)
  PROVE  /\ WorkTyped' /\ Same(r) /\ req'[r].pc = "clear" /\ req[r].gig \in Gigs
         /\ req'[r].held = {} /\ req'[r].new = {}
<1> DEFINE x == [req[r] EXCEPT !.pc = "clear"]
<1>1. req[r] \in Work /\ Begun(req[r]) /\ req[r].pc = "update" /\ req \in [Requests -> Work]
  BY DEF Typed, WorkTyped, UpdateGig
<1>3. Turns(r, x)
  BY <1>1 DEF UpdateGig, Turns
<1>4. /\ x \in Work /\ x.pc = "clear" /\ x.form = req[r].form /\ x.gig = req[r].gig
      /\ x.held = req[r].held /\ x.new = req[r].new /\ x.linked = req[r].linked
  BY <1>1 DEF Work, Tagging
<1> HIDE DEF x
<1>5. Begun(x) /\ req[r].gig \in Gigs /\ x.held = {} /\ x.new = {}
  BY <1>1, <1>4 DEF Begun, Reviewing, Tagging
<1> QED  BY <1>3, <1>4, <1>5, TurnsTyped DEF Same, Typed

LEMMA SetGigTagsTurns ==
  ASSUME Typed, NEW r \in Requests, SetGigTags(r)
  PROVE  /\ WorkTyped' /\ Same(r) /\ req'[r].pc = "delete" /\ req'[r].gig = req[r].gig
         /\ req'[r].old = links[req[r].gig] /\ req'[r].meanwhile = {}
         /\ req[r].gig \in Gigs
         /\ req'[r].held = {} /\ req'[r].new = {}
<1> DEFINE x == [req[r] EXCEPT !.pc = "delete", !.old = Cleared(req[r].gig), !.meanwhile = {}]
<1>1. req[r] \in Work /\ Begun(req[r]) /\ req[r].pc = "clear" /\ req \in [Requests -> Work]
  BY DEF Typed, WorkTyped, SetGigTags
<1>2. req[r].gig \in Gigs
  BY <1>1 DEF Begun, Tagging
<1>6. Cleared(req[r].gig) = links[req[r].gig] /\ links[req[r].gig] \in SUBSET Link
  BY <1>2 DEF Typed, ShopRows, Cleared
<1>3. Turns(r, x)
  BY <1>1 DEF SetGigTags, Turns
<1>4. /\ x \in Work /\ x.pc = "delete" /\ x.form = req[r].form /\ x.gig = req[r].gig
      /\ x.old = links[req[r].gig] /\ x.meanwhile = {}
      /\ x.held = req[r].held /\ x.new = req[r].new /\ x.linked = req[r].linked
  BY <1>1, <1>6 DEF Work, Tagging
<1> HIDE DEF x
<1>5. Begun(x) /\ x.held = {} /\ x.new = {}
  BY <1>1, <1>4 DEF Begun, Reviewing, Tagging
<1> QED  BY <1>2, <1>3, <1>4, <1>5, TurnsTyped DEF Same, Typed

LEMMA DeleteTurns ==
  ASSUME Typed, NEW r \in Requests, SetGigTagsDelete(r)
  PROVE  /\ WorkTyped' /\ Same(r) /\ req'[r].pc = "tags" /\ req'[r].gig = req[r].gig
         /\ req'[r].old = req[r].old \cap links[req[r].gig]
         /\ req'[r].meanwhile = req[r].meanwhile /\ req[r].gig \in Gigs
         /\ req'[r].held = {} /\ req'[r].new = {} /\ req[r].pc = "delete"
<1> DEFINE still == req[r].old \cap links[req[r].gig]
           x == [req[r] EXCEPT !.pc = "tags", !.old = still]
<1>1. req[r] \in Work /\ Begun(req[r]) /\ req[r].pc = "delete" /\ req \in [Requests -> Work]
  BY DEF Typed, WorkTyped, SetGigTagsDelete
<1>2. req[r].gig \in Gigs
  BY <1>1 DEF Begun, Tagging
<1>6. still \in SUBSET Link
  BY <1>2 DEF Typed, ShopRows
<1>3. Turns(r, x)
  BY <1>1 DEF SetGigTagsDelete, Turns
<1> HIDE DEF still
<1>4. /\ x \in Work /\ x.pc = "tags" /\ x.form = req[r].form /\ x.gig = req[r].gig
      /\ x.old = still /\ x.meanwhile = req[r].meanwhile
      /\ x.held = req[r].held /\ x.new = req[r].new /\ x.linked = req[r].linked
  BY <1>1, <1>6 DEF Work, Tagging
<1> HIDE DEF x
<1>5. Begun(x) /\ x.held = {} /\ x.new = {}
  BY <1>1, <1>4 DEF Begun, Reviewing, Tagging
<1> QED  BY <1>1, <1>2, <1>3, <1>4, <1>5, TurnsTyped DEF Same, Typed, still

\* What the upsert of one name makes of the request: a tag that is there, or a new one
\* that takes the next id and a slug no one has.
LEMMA UpsertTurns ==
  ASSUME Typed, NEW r \in Requests, SetGigTagsUpsert(r)
  PROVE  /\ WorkTyped' /\ Same(r) /\ used' \in Counters
         /\ req[r].pc = "tags" /\ req'[r].pc = "tags"
         /\ req'[r].gig = req[r].gig /\ req'[r].old = req[r].old
         /\ req'[r].meanwhile = req[r].meanwhile
         /\ \E ids \in SUBSET (1..MaxTags), new \in SUBSET Tag :
              /\ req'[r].held = req[r].held \cup ids
              /\ req'[r].new = req[r].new \cup new
              /\ \A i \in ids : \E t \in tags \cup req[r].new \cup new : t.id = i
              /\ \/ new = {} /\ used'.tags = used.tags
                 \/ /\ used'.tags = used.tags + 1
                    /\ \E t \in Tag :
                         /\ new = {t} /\ t.id = used.tags + 1
                         /\ \A u \in tags : u.slug # t.slug
                         /\ \A q \in Requests : \A u \in req[q].new : u.slug # t.slug
<1> DEFINE slug == Head(req[r].todo)
           there == {t \in tags \cup req[r].new : t.slug = slug}
           new == IF there = {} THEN {[id |-> used.tags + 1, slug |-> slug]} ELSE {}
           ids == {t.id : t \in there \cup new}
           met == {l \in links[req[r].gig] \ req[r].old : l.tag \in ids}
           n == Cardinality(new)
           kept == ids \ {l.tag : l \in met}
           x == [req[r] EXCEPT !.todo = Tail(@), !.held = @ \cup ids, !.new = @ \cup new,
                                !.linked = @ \cup kept]
<1>1. req[r] \in Work /\ Begun(req[r]) /\ req[r].pc = "tags" /\ req[r].todo # <<>>
      /\ req \in [Requests -> Work]
  BY DEF Typed, WorkTyped, SetGigTagsUpsert
<1>2. req[r].todo \in Seq(Slugs)
  BY <1>1 DEF Work
<1>3. slug \in Slugs /\ Tail(req[r].todo) \in Seq(Slugs)
  BY <1>1, <1>2
<1>4. used \in Counters /\ MaxTags \in Nat /\ tags \subseteq Tag /\ req[r].new \subseteq Tag
  BY <1>1, BoundsAssumption DEF Typed, ShopRows, Work
<1>5. used.tags \in Nat
  BY <1>4 DEF Counters
<1>6. /\ used.tags + n <= MaxTags /\ used' = [used EXCEPT !.tags = @ + n]
      /\ Turns(r, x) /\ SlugFree(r, slug)
  <2>1. used.tags + n <= MaxTags /\ used' = [used EXCEPT !.tags = @ + n]
    BY DEF SetGigTagsUpsert
  <2>2. SlugFree(r, slug)
    BY DEF SetGigTagsUpsert
  <2>3. req' = [req EXCEPT ![r].todo = Tail(@), ![r].held = @ \cup ids,
                             ![r].new = @ \cup new, ![r].linked = @ \cup kept]
    BY DEF SetGigTagsUpsert
  <2> HIDE DEF ids, new, kept, slug, there, met, n
  <2>4. Turns(r, x)
    BY <1>1, <2>3 DEF Turns
  <2> QED  BY <2>1, <2>2, <2>4
<1>7. \/ new = {} /\ n = 0
      \/ there = {} /\ new = {[id |-> used.tags + 1, slug |-> slug]} /\ n = 1
  <2>1. CASE there = {}
    <3>1. new = {[id |-> used.tags + 1, slug |-> slug]}
      BY <2>1
    <3>2. Cardinality({[id |-> used.tags + 1, slug |-> slug]}) = 1
      BY FS_Singleton
    <3> QED  BY <2>1, <3>1, <3>2
  <2>2. CASE there # {}
    <3>1. new = {}
      BY <2>2
    <3> QED  BY <3>1, FS_EmptySet
  <2> QED  BY <2>1, <2>2
<1>8. new \in SUBSET Tag
  <2>1. CASE new = {}
    BY <2>1
  <2>2. CASE new = {[id |-> used.tags + 1, slug |-> slug]} /\ n = 1
    <3>1. used.tags + 1 <= MaxTags
      BY <2>2, <1>6
    <3>2. used.tags + 1 \in 1..MaxTags
      BY <3>1, <1>4, <1>5
    <3>3. [id |-> used.tags + 1, slug |-> slug] \in Tag
      BY <3>2, <1>3 DEF Tag
    <3> QED  BY <2>2, <3>3
  <2> QED  BY <1>7, <2>1, <2>2
<1>9. ids \in SUBSET (1..MaxTags)
  <2>1. there \cup new \subseteq Tag
    BY <1>4, <1>8
  <2> HIDE DEF there, new
  <2> QED  BY <2>1 DEF Tag
<1>10. used' \in Counters /\ used'.tags = used.tags + n
  <2>1. n \in {0, 1}
    BY <1>7
  <2> HIDE DEF n
  <2>2. used.tags + n \in 0..MaxTags
    BY <2>1, <1>4, <1>5, <1>6
  <2> QED  BY <1>4, <1>6, <2>2 DEF Counters
<1>11. \A i \in ids : \E t \in tags \cup req[r].new \cup new : t.id = i
  OBVIOUS
<1>12. \A t \in new : t.id \in ids
  OBVIOUS
<1>13. kept \subseteq ids
  OBVIOUS
<1>14. ASSUME there = {}
       PROVE  /\ \A u \in tags : u.slug # slug
              /\ \A q \in Requests : \A u \in req[q].new : u.slug # slug
  <2>1. \A u \in tags \cup req[r].new : u.slug # slug
    BY <1>14
  <2>2. ASSUME NEW q \in Requests \ {r}, NEW u \in req[q].new
        PROVE  u.slug # slug
    <3>1. Begun(req[q])
      BY DEF Typed, WorkTyped
    <3>2. u.id \in req[q].held
      BY <3>1 DEF Begun
    <3> QED  BY <1>6, <3>2 DEF SlugFree
  <2> HIDE DEF slug
  <2> QED  BY <2>1, <2>2
<1>15. \/ new = {} /\ used'.tags = used.tags
       \/ /\ used'.tags = used.tags + 1
          /\ \E t \in Tag :
               /\ new = {t} /\ t.id = used.tags + 1
               /\ \A u \in tags : u.slug # t.slug
               /\ \A q \in Requests : \A u \in req[q].new : u.slug # t.slug
  <2>1. CASE new = {} /\ n = 0
    BY <2>1, <1>5, <1>10
  <2>2. CASE there = {} /\ new = {[id |-> used.tags + 1, slug |-> slug]} /\ n = 1
    <3> DEFINE t == [id |-> used.tags + 1, slug |-> slug]
    <3>1. t \in Tag /\ new = {t} /\ t.id = used.tags + 1 /\ t.slug = slug
      BY <2>2, <1>8
    <3>2. used'.tags = used.tags + 1
      BY <2>2, <1>10
    <3>3. /\ \A u \in tags : u.slug # t.slug
          /\ \A q \in Requests : \A u \in req[q].new : u.slug # t.slug
      BY <2>2, <1>14, <3>1
    <3> HIDE DEF t, new, n, slug, there
    <3> QED  BY <3>1, <3>2, <3>3
  <2> QED  BY <1>7, <2>1, <2>2
<1> HIDE DEF slug, there, new, ids, met, n, kept
<1>16. /\ x \in Work /\ x.pc = "tags" /\ x.gig = req[r].gig /\ x.old = req[r].old
       /\ x.form = req[r].form /\ x.meanwhile = req[r].meanwhile
       /\ x.held = req[r].held \cup ids /\ x.new = req[r].new \cup new
       /\ x.linked = req[r].linked \cup kept
  BY <1>1, <1>3, <1>8, <1>9, <1>13 DEF Work
<1> HIDE DEF x
<1>17. Begun(x)
  BY <1>1, <1>12, <1>13, <1>16 DEF Begun, Reviewing, Tagging
<1>18. WorkTyped' /\ Same(r) /\ req'[r] = x
  BY <1>6, <1>16, <1>17, TurnsTyped DEF Same, Typed
<1> QED  BY <1>1, <1>8, <1>9, <1>10, <1>11, <1>15, <1>16, <1>18

\* A request of which only what was committed meanwhile may have grown.
Alike(x, y) ==
  /\ y.pc = x.pc /\ y.order = x.order /\ y.to = x.to /\ y.counted = x.counted
  /\ y.gig = x.gig /\ y.old = x.old /\ y.held = x.held /\ y.new = x.new
  /\ y.place = x.place /\ y.after = x.after

LEMMA MeanwhileGrows ==
  ASSUME NEW x \in Work, Begun(x), NEW k,
         \/ x.pc = "counted" /\ k \in Orders
         \/ x.pc \in {"delete", "tags"} /\ k \in 1..MaxStarted,
         NEW y, y = [x EXCEPT !.meanwhile = @ \cup {k}]
  PROVE  y \in Work /\ Begun(y) /\ Alike(x, y) /\ y.meanwhile = x.meanwhile \cup {k}
<1>1. /\ y \in Work /\ y.meanwhile = x.meanwhile \cup {k} /\ Alike(x, y)
      /\ y.form = x.form /\ y.linked = x.linked
  BY DEF Work, Alike
<1>2. Begun(y)
  BY <1>1 DEF Begun, Reviewing, Tagging, Alike
<1> QED  BY <1>1, <1>2

\* The COMMIT of a review: the recounts under way have missed it.
LEMMA CommitReviewTurns ==
  ASSUME Typed, NEW r \in Requests, CommitReview(r)
  PROVE  /\ WorkTyped' /\ req'[r] = NoReq
         /\ req[r].order \in Orders /\ req[r].to \in Decisions
         /\ req[r].counted \subseteq Orders /\ req[r].meanwhile \subseteq Orders
         /\ \A q \in Requests \ {r} :
              /\ Alike(req[q], req'[q])
              /\ req'[q].meanwhile = IF req[q].pc = "counted"
                                      THEN req[q].meanwhile \cup {req[r].order}
                                      ELSE req[q].meanwhile
<1> DEFINE o == req[r].order
<1>1. req[r] \in Work /\ Begun(req[r]) /\ req[r].pc = "counted" /\ req \in [Requests -> Work]
  BY DEF Typed, WorkTyped, CommitReview
<1>2. /\ o \in Orders /\ req[r].to \in Decisions
      /\ req[r].counted \subseteq Orders /\ req[r].meanwhile \subseteq Orders
  BY <1>1 DEF Begun, Reviewing, Work
<1>3. req' = [q \in Requests |->
                 IF q = r THEN NoReq
                 ELSE IF req[q].pc = "counted" THEN [req[q] EXCEPT !.meanwhile = @ \cup {o}]
                 ELSE req[q]]
  BY DEF CommitReview
<1> HIDE DEF o
<1>4. NoReq \in Work /\ Begun(NoReq) /\ req'[r] = NoReq
  BY <1>3, NoWork DEF Typed
<1>5. ASSUME NEW q \in Requests \ {r}
      PROVE  /\ req'[q] \in Work /\ Begun(req'[q]) /\ Alike(req[q], req'[q])
             /\ req'[q].meanwhile = IF req[q].pc = "counted" THEN req[q].meanwhile \cup {o}
                                     ELSE req[q].meanwhile
  <2>1. req[q] \in Work /\ Begun(req[q])
    BY DEF Typed, WorkTyped
  <2>2. CASE req[q].pc = "counted"
    <3>1. req'[q] = [req[q] EXCEPT !.meanwhile = @ \cup {o}]
      BY <1>3, <2>2
    <3> QED  BY <1>2, <2>1, <2>2, <3>1, MeanwhileGrows
  <2>3. CASE req[q].pc # "counted"
    <3>1. req'[q] = req[q]
      BY <1>3, <2>3
    <3> QED  BY <2>1, <2>3, <3>1 DEF Alike
  <2> QED  BY <2>2, <2>3
<1>6. \A q \in Requests : req'[q] \in Work /\ Begun(req'[q])
  BY <1>4, <1>5
<1>7. req' \in [Requests -> Work]
  BY <1>3, <1>6
<1>8. \A q \in Requests : Begun(req[q])'
  BY <1>6 DEF Begun
<1>9. WorkTyped'
  BY <1>7, <1>8 DEF WorkTyped
<1> QED  BY <1>2, <1>4, <1>5, <1>9 DEF o

\* The COMMIT of a gig's tags: who saves the same gig's may have missed it.
Saving(r, q) == req[q].pc \in {"delete", "tags"} /\ req[q].gig = req[r].gig

LEMMA CommitTagsTurns ==
  ASSUME Typed, NEW r \in Requests, SetGigTagsCommit(r)
  PROVE  /\ WorkTyped' /\ req'[r] = NoReq
         /\ req[r].gig \in Gigs /\ req[r].form \in 1..MaxStarted
         /\ req[r].meanwhile \subseteq 1..MaxStarted
         /\ req[r].linked \subseteq req[r].held
         /\ req[r].pc = "tags" /\ req[r] \in Work
         /\ \A q \in Requests \ {r} :
              /\ Alike(req[q], req'[q])
              /\ req'[q].meanwhile = IF Saving(r, q) THEN req[q].meanwhile \cup {req[r].form}
                                      ELSE req[q].meanwhile
<1> DEFINE k == req[r].form
<1>1. req[r] \in Work /\ Begun(req[r]) /\ req[r].pc = "tags" /\ req \in [Requests -> Work]
  BY DEF Typed, WorkTyped, SetGigTagsCommit
<1>2. /\ k \in 1..MaxStarted /\ req[r].gig \in Gigs /\ req[r].linked \subseteq req[r].held
      /\ req[r].meanwhile \subseteq 1..MaxStarted
  BY <1>1 DEF Begun, Tagging
<1>3. req' = [q \in Requests |->
                 IF q = r THEN NoReq
                 ELSE IF Saving(r, q) THEN [req[q] EXCEPT !.meanwhile = @ \cup {k}]
                 ELSE req[q]]
  BY DEF SetGigTagsCommit, Saving
<1> HIDE DEF k
<1>4. NoReq \in Work /\ Begun(NoReq) /\ req'[r] = NoReq
  BY <1>3, NoWork DEF Typed
<1>5. ASSUME NEW q \in Requests \ {r}
      PROVE  /\ req'[q] \in Work /\ Begun(req'[q]) /\ Alike(req[q], req'[q])
             /\ req'[q].meanwhile = IF Saving(r, q) THEN req[q].meanwhile \cup {k}
                                     ELSE req[q].meanwhile
  <2>1. req[q] \in Work /\ Begun(req[q])
    BY DEF Typed, WorkTyped
  <2>2. CASE Saving(r, q)
    <3>1. req'[q] = [req[q] EXCEPT !.meanwhile = @ \cup {k}]
      BY <1>3, <2>2
    <3>2. req[q].pc \in {"delete", "tags"}
      BY <2>2 DEF Typed, Saving
    <3> QED  BY <1>2, <2>1, <2>2, <3>1, <3>2, MeanwhileGrows
  <2>3. CASE ~Saving(r, q)
    <3>1. req'[q] = req[q]
      BY <1>3, <2>3
    <3> QED  BY <2>1, <2>3, <3>1 DEF Alike
  <2> QED  BY <2>2, <2>3
<1>6. \A q \in Requests : req'[q] \in Work /\ Begun(req'[q])
  BY <1>4, <1>5
<1>7. req' \in [Requests -> Work]
  BY <1>3, <1>6
<1>8. \A q \in Requests : Begun(req[q])'
  BY <1>6 DEF Begun
<1>9. WorkTyped'
  BY <1>7, <1>8 DEF WorkTyped
<1> QED  BY <1>1, <1>2, <1>4, <1>5, <1>9 DEF k

(***************************************************************************)
(* What each invariant rests on.                                           *)
(***************************************************************************)
\* Everything a request keeps is the id of a tag, everyone's or its own.
Keeps(x) == \A i \in x.held : \E t \in tags \cup x.new : t.id = i

\* A link has its tag.
LinkedInv == \A g \in Gigs : \A l \in links[g] : \E t \in tags : t.id = l.tag

\* Two tags share neither slug nor id, the ones being added included, and no id was
\* given that is not counted.
Foreign(t, u) == t.slug # u.slug /\ t.id # u.id

NameInv ==
  /\ \A t \in tags : t.id <= used.tags /\ \A u \in tags : t # u => Foreign(t, u)
  /\ \A q \in Requests : \A t \in req[q].new :
       /\ t.id <= used.tags
       /\ \A u \in tags : Foreign(t, u)
       /\ \A u \in req[q].new : t # u => Foreign(t, u)
       /\ \A p \in Requests \ {q} : \A u \in req[p].new : Foreign(t, u)

TagInv == NameInv /\ LinkedInv /\ \A q \in Requests : Keeps(req[q])

\* A recount is off only at the reviews that were committed since it began.
After(q, o) == IF o = req[q].order THEN req[q].to ELSE reviews[o]

CountInv ==
  \A q \in Requests : req[q].pc = "counted" =>
    \A o \in Orders \ req[q].meanwhile : o \in req[q].counted <=> After(q, o) = "approved"

\* The links a saving does not delete are of forms saved since it began.
FormInv ==
  \A q \in Requests : req[q].pc \in {"delete", "tags"} =>
    \A l \in links[req[q].gig] \ req[q].old : l.form \in req[q].meanwhile

\* The places are filled up to some n, and no upload is to be put further.
Filled(g, n) ==
  /\ Places(g) = 0..(n - 1)
  /\ \A q \in Requests : req[q].pc = "place" /\ req[q].gig = g => req[q].place <= n

\* A row or an upload that comes after the images that were there.
Ranked(s, x) ==
  /\ x.after \in 0..Len(s)
  /\ \A j \in 1..x.after : s[j].place < x.place

Ordered(g) ==
  /\ \A i \in DOMAIN media[g] : Ranked(media[g], media[g][i])
  /\ \A q \in Requests : req[q].pc = "place" /\ req[q].gig = g => Ranked(media[g], req[q])

PlaceInv == \A g \in Gigs : Ordered(g) /\ \E n \in Nat : Filled(g, n)

(* The steps that do not disturb each of them. *)
Unmoved(q) == Alike(req[q], req'[q]) /\ req'[q].meanwhile = req[q].meanwhile

TagQuiet ==
  /\ tags' = tags /\ links' = links /\ used'.tags = used.tags
  /\ \A q \in Requests :
       \/ req'[q].held = req[q].held /\ req'[q].new = req[q].new
       \/ req'[q].held = {} /\ req'[q].new = {}

CountQuiet ==
  /\ reviews' = reviews /\ summary' = summary /\ since'.reviews = since.reviews
  /\ \A q \in Requests : req'[q].pc = "counted" => Unmoved(q)

FormQuiet ==
  /\ \A g \in Gigs : links'[g] \subseteq links[g]
  /\ since'.forms = since.forms
  /\ \A q \in Requests : req'[q].pc \in {"delete", "tags"} => Unmoved(q)

PlaceQuiet ==
  /\ media' = media
  /\ \A q \in Requests : req'[q].pc = "place" => Unmoved(q)

LEMMA SameUnmoved ==
  ASSUME NEW q, req'[q] = req[q]
  PROVE  Unmoved(q)
BY DEF Unmoved, Alike

LEMMA TagQuietStep ==
  ASSUME TagInv, TagQuiet
  PROVE  TagInv'
<1>1. \A q \in Requests : \A t \in req'[q].new : t \in req[q].new
  BY DEF TagQuiet
<1>2. NameInv
  BY DEF TagInv
<1>3. /\ tags' = tags /\ links' = links /\ used'.tags = used.tags
  BY DEF TagQuiet
<1>4. NameInv'
  BY <1>1, <1>2, <1>3 DEF NameInv, Foreign
<1>5. LinkedInv'
  BY <1>3 DEF TagInv, LinkedInv
<1>6. ASSUME NEW q \in Requests
      PROVE  \A i \in req'[q].held : \E t \in tags \cup req'[q].new : t.id = i
  BY DEF TagInv, TagQuiet, Keeps
<1>7. \A q \in Requests : Keeps(req[q])'
  BY <1>3, <1>6 DEF Keeps
<1> QED  BY <1>4, <1>5, <1>7 DEF TagInv

LEMMA CountQuietStep ==
  ASSUME RatingsExplained, CountInv, CountQuiet
  PROVE  RatingsExplained' /\ CountInv'
<1>1. RatingsExplained'
  BY DEF RatingsExplained, Approved, CountQuiet
<1>2. ASSUME NEW q \in Requests, req'[q].pc = "counted"
      PROVE  \A o \in Orders \ req'[q].meanwhile :
               o \in req'[q].counted <=> After(q, o)' = "approved"
  <2>1. Unmoved(q) /\ req[q].pc = "counted" /\ reviews' = reviews
    BY <1>2 DEF CountQuiet, Unmoved, Alike
  <2>2. \A o : After(q, o)' = After(q, o)
    BY <2>1 DEF After, Unmoved, Alike
  <2> QED  BY <2>1, <2>2 DEF CountInv, Unmoved, Alike
<1> QED  BY <1>1, <1>2 DEF CountInv

LEMMA FormQuietStep ==
  ASSUME WorkTyped, TagsExplained, FormInv, FormQuiet
  PROVE  TagsExplained' /\ FormInv'
<1>1. TagsExplained'
  BY DEF TagsExplained, FormQuiet
<1>2. ASSUME NEW q \in Requests, req'[q].pc \in {"delete", "tags"}
      PROVE  \A l \in links'[req'[q].gig] \ req'[q].old : l.form \in req'[q].meanwhile
  <2>1. Unmoved(q) /\ req[q].pc \in {"delete", "tags"}
    BY <1>2 DEF FormQuiet, Unmoved, Alike
  <2>2. req[q].gig \in Gigs
    BY <2>1 DEF WorkTyped, Begun, Tagging
  <2> QED  BY <2>1, <2>2 DEF FormInv, FormQuiet, Unmoved, Alike
<1> QED  BY <1>1, <1>2 DEF FormInv

LEMMA PlaceQuietStep ==
  ASSUME PlaceInv, PlaceQuiet
  PROVE  PlaceInv'
<1>1. ASSUME NEW g \in Gigs, NEW n \in Nat, Filled(g, n)
      PROVE  Filled(g, n)'
  <2>1. Places(g)' = Places(g)
    BY DEF PlaceQuiet, Places
  <2>2. \A q \in Requests : req'[q].pc = "place" /\ req'[q].gig = g => req'[q].place <= n
    BY <1>1 DEF PlaceQuiet, Unmoved, Alike, Filled
  <2> QED  BY <1>1, <2>1, <2>2 DEF Filled
<1>2. ASSUME NEW g \in Gigs, Ordered(g)
      PROVE  Ordered(g)'
  BY <1>2 DEF PlaceQuiet, Unmoved, Alike, Ordered, Ranked
<1> QED  BY <1>1, <1>2 DEF PlaceInv

\* All of it, with the two properties that the runs check.
IInv ==
  /\ Typed /\ TagInv /\ PlaceInv
  /\ RatingsExplained /\ CountInv /\ TagsExplained /\ FormInv

LEMMA QuietStep ==
  ASSUME IInv, Typed', TagQuiet, CountQuiet, FormQuiet, PlaceQuiet
  PROVE  IInv'
<1>1. WorkTyped
  BY DEF IInv, Typed
<1> QED
  BY <1>1, TagQuietStep, CountQuietStep, FormQuietStep, PlaceQuietStep DEF IInv

(***************************************************************************)
(* Each step keeps the invariant.                                          *)
(***************************************************************************)
\* A request's own step, no row written and no tag taken: what its type is now tells
\* whether it is quiet.
LEMMA RowsStay ==
  ASSUME Typed, WorkTyped', used' \in Counters, UNCHANGED <<shown, since>>
  PROVE  Typed'
BY DEF Typed, ShopRows, shown

LEMMA OwnStep ==
  ASSUME IInv, NEW r \in Requests, WorkTyped', Same(r),
         req'[r].held = {}, req'[r].new = {}
  PROVE  /\ tags' = tags /\ links' = links /\ used'.tags = used.tags => TagQuiet
         /\ /\ req'[r].pc # "counted"
            /\ reviews' = reviews /\ summary' = summary /\ since'.reviews = since.reviews
            => CountQuiet
         /\ /\ req'[r].pc \notin {"delete", "tags"}
            /\ links' = links /\ since'.forms = since.forms
            => FormQuiet
         /\ media' = media /\ req'[r].pc # "place" => PlaceQuiet
<1>1. \A q \in Requests \ {r} : Unmoved(q) /\ req'[q] = req[q]
  BY SameUnmoved DEF Same
<1> QED  BY <1>1 DEF TagQuiet, CountQuiet, FormQuiet, PlaceQuiet

LEMMA TurnsOf ==
  ASSUME IInv, NEW r \in Requests, NEW x \in Work, Begun(x), Turns(r, x), x.pc # "tags"
  PROVE  WorkTyped' /\ req'[r] = x /\ Same(r) /\ req'[r].held = {} /\ req'[r].new = {}
<1>1. WorkTyped' /\ req'[r] = x /\ Same(r)
  BY TurnsTyped DEF IInv, Typed, Same
<1> QED  BY <1>1 DEF Begun

LEMMA StartStep ==
  ASSUME IInv, NEW r \in Requests, NEW x \in Work, Begun(x), Start(r, x),
         x.pc \in {"recount", "update"}, UNCHANGED <<shown, since>>
  PROVE  IInv'
<1>1. Typed
  BY DEF IInv
<1>2. Turns(r, x) /\ used' \in Counters /\ used'.tags = used.tags
  BY <1>1, StartTurns
<1>3. WorkTyped' /\ req'[r] = x /\ Same(r) /\ req'[r].held = {} /\ req'[r].new = {}
  BY <1>2, TurnsOf
<1>4. Typed'
  BY <1>1, <1>2, <1>3, RowsStay
<1>5. TagQuiet /\ CountQuiet /\ FormQuiet /\ PlaceQuiet
  BY <1>2, <1>3, OwnStep DEF shown
<1> QED  BY <1>4, <1>5, QuietStep

LEMMA CreateReviewStep ==
  ASSUME IInv, NEW r \in Requests, CreateReview(r)
  PROVE  IInv'
<1>1. PICK o \in Orders : Start(r, Written(o, "approved"))
  BY DEF CreateReview
<1>2. UNCHANGED <<shown, since>> /\ "approved" \in Decisions
  BY DEF CreateReview, Decisions, IInv, Typed
<1> QED  BY <1>1, <1>2, BegunReview, StartStep

LEMMA ReviewDecideStep ==
  ASSUME IInv, NEW r \in Requests, adminModerationReviewDecide(r)
  PROVE  IInv'
<1>1. PICK o \in Orders, d \in Decisions : Start(r, Written(o, d))
  BY DEF adminModerationReviewDecide, SetReviewModerationStateAdmin
<1>2. UNCHANGED <<shown, since>>
  BY DEF adminModerationReviewDecide, IInv, Typed
<1> QED  BY <1>1, <1>2, BegunReview, StartStep

LEMMA GigUpdateStep ==
  ASSUME IInv, NEW r \in Requests, sellGigUpdate(r)
  PROVE  IInv'
<1>1. PICK g \in Gigs, c \in categories \cup {0}, f \in Forms :
           Start(r, Form(used.requests + 1, g, c, f))
  BY DEF sellGigUpdate, Form
<1>2. UNCHANGED <<shown, since>> /\ Typed
  BY DEF sellGigUpdate, IInv, Typed
<1>3. used \in Counters /\ MaxStarted \in Nat /\ used.requests < MaxStarted
      /\ categories \subseteq 1..MaxCategories /\ MaxCategories \in Nat
  BY <1>1, <1>2, BoundsAssumption DEF Start, Typed, ShopRows
<1>4. used.requests + 1 \in 1..MaxStarted /\ c \in 0..MaxCategories
  <2>1. used.requests \in Nat
    BY <1>3 DEF Counters
  <2> QED  BY <2>1, <1>3
<1>5. PICK x : x = Form(used.requests + 1, g, c, f)
  OBVIOUS
<1>6. x \in Work /\ Begun(x) /\ x.pc = "update"
  BY <1>2, <1>4, <1>5, BegunForm
<1>7. Start(r, x)
  BY <1>1, <1>5
<1> QED  BY <1>2, <1>6, <1>7, StartStep

LEMMA AbortStep ==
  ASSUME IInv, NEW r \in Requests, RequestAborts(r)
  PROVE  IInv'
<1>1. Typed /\ UNCHANGED <<shown, used, since>> /\ Done(r) /\ used \in Counters
  BY DEF IInv, Typed, ShopRows, RequestAborts
<1>2. WorkTyped' /\ req'[r] = NoReq /\ Same(r)
  BY <1>1, DoneTurns
<1>3. req'[r].held = {} /\ req'[r].new = {} /\ req'[r].pc = "idle"
  BY <1>1, <1>2, NoWork DEF Typed
<1>4. Typed'
  BY <1>1, <1>2, RowsStay
<1>5. TagQuiet /\ CountQuiet /\ FormQuiet /\ PlaceQuiet
  BY <1>1, <1>2, <1>3, OwnStep DEF shown
<1> QED  BY <1>4, <1>5, QuietStep

(* Reviews. *)

LEMMA RecalculateStep ==
  ASSUME IInv, NEW r \in Requests, Recalculate(r)
  PROVE  IInv'
<1>1. Typed /\ UNCHANGED <<shown, used, since>> /\ used \in Counters
  BY DEF IInv, Typed, ShopRows, Recalculate
<1>2. /\ WorkTyped' /\ Same(r)
      /\ req'[r].pc = "counted" /\ req'[r].counted = Counted(r)
      /\ req'[r].meanwhile = {} /\ req'[r].order = req[r].order
      /\ req'[r].to = req[r].to
      /\ req'[r].held = {} /\ req'[r].new = {}
  BY <1>1, RecalculateTurns
<1>3. Typed'
  BY <1>1, <1>2, RowsStay
<1>4. TagQuiet /\ FormQuiet /\ PlaceQuiet
  BY <1>1, <1>2, OwnStep DEF shown
<1>5. reviews' = reviews /\ summary' = summary /\ since' = since
  BY <1>1 DEF shown
<1>6. RatingsExplained'
  BY <1>5 DEF IInv, RatingsExplained, Approved
<1>7. reviews \in [Orders -> ReviewStates]
  BY <1>1 DEF Typed, ShopRows
<1>8. \A q \in Requests, o \in Orders : req'[q].order = req[q].order /\ req'[q].to = req[q].to
                                        => After(q, o)' = After(q, o)
  BY <1>5 DEF After
<1>9. ASSUME NEW o \in Orders
      PROVE  o \in Counted(r) <=> After(r, o) = "approved"
  BY <1>7 DEF Counted, Approved, After
<1>10. ASSUME NEW q \in Requests, req'[q].pc = "counted"
       PROVE  \A o \in Orders \ req'[q].meanwhile :
                o \in req'[q].counted <=> After(q, o)' = "approved"
  <2>1. CASE q = r
    BY <1>2, <1>8, <1>9, <2>1
  <2>2. CASE q # r
    <3>1. req'[q] = req[q]
      BY <1>2, <2>2 DEF Same
    <3> QED  BY <1>8, <1>10, <3>1 DEF IInv, CountInv
  <2> QED  BY <2>1, <2>2
<1>11. CountInv'
  BY <1>10 DEF CountInv
<1> QED
  BY <1>1, <1>3, <1>4, <1>6, <1>11, TagQuietStep, FormQuietStep, PlaceQuietStep DEF IInv, Typed

LEMMA CommitReviewStep ==
  ASSUME IInv, NEW r \in Requests, CommitReview(r)
  PROVE  IInv'
<1> DEFINE k == req[r].order
<1>1. Typed /\ WorkTyped
  BY DEF IInv, Typed
<1>2. /\ WorkTyped' /\ req'[r] = NoReq
      /\ k \in Orders /\ req[r].to \in Decisions
      /\ req[r].counted \subseteq Orders /\ req[r].meanwhile \subseteq Orders
      /\ \A q \in Requests \ {r} :
           /\ Alike(req[q], req'[q])
           /\ req'[q].meanwhile = IF req[q].pc = "counted" THEN req[q].meanwhile \cup {k}
                                   ELSE req[q].meanwhile
  BY <1>1, CommitReviewTurns
<1>3. req'[r].held = {} /\ req'[r].new = {} /\ req'[r].pc = "idle"
  BY <1>1, <1>2, NoWork DEF Typed
<1>4. /\ req[r].pc = "counted"
      /\ reviews' = [reviews EXCEPT ![k] = req[r].to] /\ summary' = req[r].counted
      /\ since' = [since EXCEPT !.reviews = req[r].meanwhile]
      /\ UNCHANGED <<tags, links, categories, category, media, used>>
  BY DEF CommitReview
<1>5. reviews \in [Orders -> ReviewStates] /\ ShopRows
  BY <1>1 DEF Typed, ShopRows
<1>6. /\ since' \in [reviews : SUBSET Orders, forms : [Gigs -> SUBSET (1..MaxStarted)]]
      /\ since'.reviews = req[r].meanwhile /\ since'.forms = since.forms
  BY <1>2, <1>4, <1>5 DEF ShopRows
<1>7. req[r].to \in ReviewStates
  BY <1>2 DEF Decisions, ReviewStates
<1> HIDE DEF k
<1>8. Typed'
  BY <1>1, <1>2, <1>4, <1>5, <1>6, <1>7 DEF Typed, ShopRows
<1>9. \A q \in Requests \ {r} : req[q].pc # "counted" => Unmoved(q)
  BY <1>2 DEF Unmoved
<1>10. TagQuiet
  BY <1>2, <1>3, <1>4 DEF TagQuiet, Alike
<1>11. FormQuiet
  BY <1>2, <1>3, <1>4, <1>6, <1>9 DEF FormQuiet, Alike
<1>12. PlaceQuiet
  BY <1>2, <1>3, <1>4, <1>9 DEF PlaceQuiet, Alike
<1>13. \A o \in Orders : reviews'[o] = After(r, o)
  BY <1>4, <1>5 DEF After, k
<1>14. RatingsExplained'
  <2>1. \A o \in Orders \ req[r].meanwhile : o \in req[r].counted <=> After(r, o) = "approved"
    BY <1>4 DEF IInv, CountInv
  <2>2. \A o \in Orders \ since'.reviews : o \in summary' <=> reviews'[o] = "approved"
    BY <2>1, <1>4, <1>6, <1>13
  <2> QED  BY <1>2, <1>4, <2>2 DEF RatingsExplained, Approved
<1>15. ASSUME NEW q \in Requests, req'[q].pc = "counted"
       PROVE  \A o \in Orders \ req'[q].meanwhile :
                o \in req'[q].counted <=> After(q, o)' = "approved"
  <2>1. q # r /\ Alike(req[q], req'[q])
    BY <1>2, <1>3, <1>15
  <2>2. req[q].pc = "counted" /\ req'[q].meanwhile = req[q].meanwhile \cup {k}
    BY <1>2, <1>15, <2>1 DEF Alike
  <2>3. \A o \in Orders \ {k} : After(q, o)' = After(q, o)
    BY <1>4, <1>5, <2>1 DEF After, Alike
  <2> QED  BY <2>1, <2>2, <2>3 DEF IInv, CountInv, Alike
<1>16. CountInv'
  BY <1>15 DEF CountInv
<1> QED
  BY <1>1, <1>8, <1>10, <1>11, <1>12, <1>14, <1>16, TagQuietStep, FormQuietStep, PlaceQuietStep
  DEF IInv

(* Tags. *)

LEMMA UpdateGigStep ==
  ASSUME IInv, NEW r \in Requests, UpdateGig(r)
  PROVE  IInv'
<1>1. Typed /\ ShopRows
  BY DEF IInv, Typed
<1>2. /\ WorkTyped' /\ Same(r) /\ req'[r].pc = "clear" /\ req[r].gig \in Gigs
      /\ req'[r].held = {} /\ req'[r].new = {}
  BY <1>1, UpdateGigTurns
<1>3. /\ req[r].category \in categories \cup {0}
      /\ category' = [category EXCEPT ![req[r].gig] = req[r].category]
      /\ UNCHANGED <<reviews, summary, tags, links, categories, media, used, since>>
  BY DEF UpdateGig
<1>4. category' \in [Gigs -> categories \cup {0}]
  BY <1>1, <1>3 DEF ShopRows
<1>5. Typed'
  BY <1>1, <1>2, <1>3, <1>4 DEF Typed, ShopRows
<1>6. TagQuiet /\ CountQuiet /\ FormQuiet /\ PlaceQuiet
  BY <1>2, <1>3, OwnStep
<1> QED  BY <1>5, <1>6, QuietStep

LEMMA SetGigTagsStep ==
  ASSUME IInv, NEW r \in Requests, SetGigTags(r)
  PROVE  IInv'
<1>1. Typed /\ WorkTyped /\ used \in Counters /\ UNCHANGED <<shown, used, since>>
  BY DEF IInv, Typed, ShopRows, SetGigTags
<1>2. /\ WorkTyped' /\ Same(r) /\ req'[r].pc = "delete" /\ req'[r].gig = req[r].gig
      /\ req'[r].old = links[req[r].gig]
      /\ req'[r].held = {} /\ req'[r].new = {}
  BY <1>1, SetGigTagsTurns
<1>3. Typed'
  BY <1>1, <1>2, RowsStay
<1>4. TagQuiet /\ CountQuiet /\ PlaceQuiet
  BY <1>1, <1>2, OwnStep DEF shown
<1>5. links' = links /\ since' = since
  BY <1>1 DEF shown
<1>6. TagsExplained'
  BY <1>5 DEF IInv, TagsExplained
<1>7. ASSUME NEW q \in Requests, req'[q].pc \in {"delete", "tags"}
      PROVE  \A l \in links'[req'[q].gig] \ req'[q].old : l.form \in req'[q].meanwhile
  <2>1. CASE q = r
    BY <1>2, <1>5, <2>1
  <2>2. CASE q # r
    <3>1. req'[q] = req[q]
      BY <1>2, <2>2 DEF Same
    <3> QED  BY <1>5, <1>7, <3>1 DEF IInv, FormInv
  <2> QED  BY <2>1, <2>2
<1>8. FormInv'
  BY <1>7 DEF FormInv
<1> QED
  BY <1>3, <1>4, <1>6, <1>8, TagQuietStep, CountQuietStep, PlaceQuietStep DEF IInv

LEMMA DeleteStep ==
  ASSUME IInv, NEW r \in Requests, SetGigTagsDelete(r)
  PROVE  IInv'
<1>1. Typed /\ WorkTyped /\ used \in Counters /\ UNCHANGED <<shown, used, since>>
  BY DEF IInv, Typed, ShopRows, SetGigTagsDelete
<1>2. /\ WorkTyped' /\ Same(r) /\ req'[r].pc = "tags" /\ req'[r].gig = req[r].gig
      /\ req'[r].old = req[r].old \cap links[req[r].gig]
      /\ req'[r].meanwhile = req[r].meanwhile
      /\ req'[r].held = {} /\ req'[r].new = {} /\ req[r].pc = "delete"
  BY <1>1, DeleteTurns
<1>3. Typed'
  BY <1>1, <1>2, RowsStay
<1>4. TagQuiet /\ CountQuiet /\ PlaceQuiet
  BY <1>1, <1>2, OwnStep DEF shown
<1>5. links' = links /\ since' = since
  BY <1>1 DEF shown
<1>6. TagsExplained'
  BY <1>5 DEF IInv, TagsExplained
<1>7. ASSUME NEW q \in Requests, req'[q].pc \in {"delete", "tags"}
      PROVE  \A l \in links'[req'[q].gig] \ req'[q].old : l.form \in req'[q].meanwhile
  <2>1. CASE q = r
    <3>1. \A l \in links[req[r].gig] \ req[r].old : l.form \in req[r].meanwhile
      BY <1>2 DEF IInv, FormInv
    <3> QED  BY <1>2, <1>5, <2>1, <3>1
  <2>2. CASE q # r
    <3>1. req'[q] = req[q]
      BY <1>2, <2>2 DEF Same
    <3> QED  BY <1>5, <1>7, <3>1 DEF IInv, FormInv
  <2> QED  BY <2>1, <2>2
<1>8. FormInv'
  BY <1>7 DEF FormInv
<1> QED
  BY <1>3, <1>4, <1>6, <1>8, TagQuietStep, CountQuietStep, PlaceQuietStep DEF IInv

LEMMA UpsertStep ==
  ASSUME IInv, NEW r \in Requests, SetGigTagsUpsert(r)
  PROVE  IInv'
<1>1. Typed /\ WorkTyped /\ used \in Counters /\ UNCHANGED <<shown, since>>
  BY DEF IInv, Typed, ShopRows, SetGigTagsUpsert
<1>2. /\ WorkTyped' /\ Same(r) /\ used' \in Counters
      /\ req[r].pc = "tags" /\ req'[r].pc = "tags"
      /\ req'[r].gig = req[r].gig /\ req'[r].old = req[r].old
      /\ req'[r].meanwhile = req[r].meanwhile
      /\ \E ids \in SUBSET (1..MaxTags), new \in SUBSET Tag :
           /\ req'[r].held = req[r].held \cup ids
           /\ req'[r].new = req[r].new \cup new
           /\ \A i \in ids : \E t \in tags \cup req[r].new \cup new : t.id = i
           /\ \/ new = {} /\ used'.tags = used.tags
              \/ /\ used'.tags = used.tags + 1
                 /\ \E t \in Tag :
                      /\ new = {t} /\ t.id = used.tags + 1
                      /\ \A u \in tags : u.slug # t.slug
                      /\ \A q \in Requests : \A u \in req[q].new : u.slug # t.slug
  BY <1>1, UpsertTurns
<1>3. Typed'
  BY <1>1, <1>2, RowsStay
<1>4. PICK ids \in SUBSET (1..MaxTags), new \in SUBSET Tag :
           /\ req'[r].held = req[r].held \cup ids
           /\ req'[r].new = req[r].new \cup new
           /\ \A i \in ids : \E t \in tags \cup req[r].new \cup new : t.id = i
           /\ \/ new = {} /\ used'.tags = used.tags
              \/ /\ used'.tags = used.tags + 1
                 /\ \E t \in Tag :
                      /\ new = {t} /\ t.id = used.tags + 1
                      /\ \A u \in tags : u.slug # t.slug
                      /\ \A q \in Requests : \A u \in req[q].new : u.slug # t.slug
  BY <1>2
<1>5. \A q \in Requests \ {r} : req'[q] = req[q]
  BY <1>2 DEF Same
<1>6. tags' = tags /\ links' = links /\ reviews' = reviews /\ summary' = summary
      /\ media' = media /\ since' = since
  BY <1>1 DEF shown
<1>7. CountQuiet /\ PlaceQuiet
  BY <1>2, <1>5, <1>6, SameUnmoved DEF CountQuiet, PlaceQuiet
<1>8. TagsExplained' /\ FormInv'
  BY <1>2, <1>5, <1>6 DEF IInv, TagsExplained, FormInv
<1>9. \A q \in Requests : Keeps(req[q])'
  <2>1. ASSUME NEW q \in Requests
        PROVE  \A i \in req'[q].held : \E t \in tags \cup req'[q].new : t.id = i
    <3>1. \A i \in req[q].held : \E t \in tags \cup req[q].new : t.id = i
      BY DEF IInv, TagInv, Keeps
    <3>2. CASE q = r
      BY <1>4, <3>1, <3>2
    <3>3. CASE q # r
      BY <1>5, <3>1, <3>3
    <3> QED  BY <3>2, <3>3
  <2> QED  BY <1>6, <2>1 DEF Keeps
<1>10. LinkedInv'
  BY <1>6 DEF IInv, TagInv, LinkedInv
<1>11. NameInv
  BY DEF IInv, TagInv
<1>12. NameInv'
  <2>1. CASE new = {} /\ used'.tags = used.tags
    <3>1. \A q \in Requests : req'[q].new = req[q].new
      BY <1>4, <1>5, <2>1
    <3> QED  BY <1>6, <1>11, <2>1, <3>1 DEF NameInv, Foreign
  <2>2. CASE /\ used'.tags = used.tags + 1
             /\ \E t \in Tag :
                  /\ new = {t} /\ t.id = used.tags + 1
                  /\ \A u \in tags : u.slug # t.slug
                  /\ \A q \in Requests : \A u \in req[q].new : u.slug # t.slug
    <3>1. PICK t \in Tag :
               /\ new = {t} /\ t.id = used.tags + 1
               /\ \A u \in tags : u.slug # t.slug
               /\ \A q \in Requests : \A u \in req[q].new : u.slug # t.slug
      BY <2>2
    <3>2. used.tags \in Nat
      BY <1>1 DEF Counters
    <3>3. \A u \in tags : u.id \in Int /\ u.id <= used.tags
      BY <1>1, <1>11 DEF NameInv, Typed, ShopRows, Tag
    <3>4. \A q \in Requests : \A u \in req[q].new : u.id \in Int /\ u.id <= used.tags
      BY <1>1, <1>11 DEF NameInv, WorkTyped, Work, Tag
    <3>5. \A i \in Int : i <= used.tags => i <= used'.tags /\ i # t.id
      BY <2>2, <3>1, <3>2
    <3>6. t.id <= used'.tags
      BY <2>2, <3>1, <3>2
    <3>7. /\ \A u \in tags : Foreign(t, u) /\ Foreign(u, t)
          /\ \A q \in Requests : \A u \in req[q].new : Foreign(t, u) /\ Foreign(u, t)
      BY <3>1, <3>3, <3>4, <3>5 DEF Foreign
    <3>8. /\ req'[r].new = req[r].new \cup {t}
          /\ \A q \in Requests \ {r} : req'[q].new = req[q].new
      BY <1>4, <1>5, <3>1
    <3>9. /\ \A u \in tags : u.id <= used'.tags
          /\ \A q \in Requests : \A u \in req[q].new : u.id <= used'.tags
      BY <3>3, <3>4, <3>5
    <3>10. \A u \in tags' : u.id <= used'.tags /\ \A v \in tags' : u # v => Foreign(u, v)
      BY <1>6, <1>11, <3>9 DEF NameInv
    <3>11. ASSUME NEW q \in Requests, NEW u \in req'[q].new
           PROVE  /\ u.id <= used'.tags
                  /\ \A v \in tags' : Foreign(u, v)
                  /\ \A v \in req'[q].new : u # v => Foreign(u, v)
                  /\ \A p \in Requests \ {q} : \A v \in req'[p].new : Foreign(u, v)
      <4>1. CASE u = t /\ q = r
        BY <1>6, <3>6, <3>7, <3>8, <4>1
      <4>2. CASE u \in req[q].new
        <5>1. u.id <= used'.tags /\ \A v \in tags' : Foreign(u, v)
          BY <1>6, <1>11, <3>9, <4>2 DEF NameInv
        <5>2. \A p \in Requests : \A v \in req'[p].new : v \in req[p].new \/ v = t
          BY <3>8
        <5>3. Foreign(u, t)
          BY <3>7, <4>2
        <5>4. \A v \in req'[q].new : u # v => Foreign(u, v)
          BY <1>11, <4>2, <5>2, <5>3 DEF NameInv
        <5>5. \A p \in Requests \ {q} : \A v \in req'[p].new : Foreign(u, v)
          BY <1>11, <4>2, <5>2, <5>3 DEF NameInv
        <5> QED  BY <5>1, <5>4, <5>5
      <4> QED  BY <3>8, <4>1, <4>2
    <3> QED  BY <3>10, <3>11 DEF NameInv, Foreign
  <2> QED  BY <1>4, <2>1, <2>2
<1> QED
  BY <1>3, <1>7, <1>8, <1>9, <1>10, <1>12, CountQuietStep, PlaceQuietStep DEF IInv, TagInv

LEMMA CommitTagsStep ==
  ASSUME IInv, NEW r \in Requests, SetGigTagsCommit(r)
  PROVE  IInv'
<1> DEFINE g == req[r].gig
           k == req[r].form
           made == {[tag |-> i, form |-> k] : i \in req[r].linked}
<1>1. Typed /\ WorkTyped /\ ShopRows
  BY DEF IInv, Typed
<1>2. /\ WorkTyped' /\ req'[r] = NoReq
      /\ g \in Gigs /\ k \in 1..MaxStarted /\ req[r].meanwhile \subseteq 1..MaxStarted
      /\ req[r].linked \subseteq req[r].held
      /\ req[r].pc = "tags" /\ req[r] \in Work
      /\ \A q \in Requests \ {r} :
           /\ Alike(req[q], req'[q])
           /\ req'[q].meanwhile = IF Saving(r, q) THEN req[q].meanwhile \cup {k}
                                   ELSE req[q].meanwhile
  BY <1>1, CommitTagsTurns
<1>3. req'[r].held = {} /\ req'[r].new = {} /\ req'[r].pc = "idle"
  BY <1>1, <1>2, NoWork
<1>4. /\ tags' = tags \cup req[r].new
      /\ links' = [links EXCEPT ![g] = (links[g] \ req[r].old) \cup made]
      /\ since' = [since EXCEPT !.forms[g] = {k} \cup req[r].meanwhile]
      /\ UNCHANGED <<reviews, summary, categories, category, media, used>>
  BY DEF SetGigTagsCommit
<1>5. req[r].linked \subseteq 1..MaxTags /\ req[r].new \subseteq Tag
  BY <1>2 DEF Work
<1>6. made \subseteq Link
  BY <1>2, <1>5 DEF Link
<1>7. \A l \in made : l.form = k /\ l.tag \in req[r].linked
  OBVIOUS
<1> HIDE DEF g, k, made
<1>8. /\ links' \in [Gigs -> SUBSET Link]
      /\ links'[g] = (links[g] \ req[r].old) \cup made
      /\ \A h \in Gigs \ {g} : links'[h] = links[h]
  BY <1>1, <1>2, <1>4, <1>6 DEF ShopRows
<1>9. since \in [reviews : SUBSET Orders, forms : [Gigs -> SUBSET (1..MaxStarted)]]
  BY <1>1 DEF ShopRows
<1>10. /\ since' \in [reviews : SUBSET Orders, forms : [Gigs -> SUBSET (1..MaxStarted)]]
       /\ since'.reviews = since.reviews
       /\ since'.forms[g] = {k} \cup req[r].meanwhile
       /\ \A h \in Gigs \ {g} : since'.forms[h] = since.forms[h]
  BY <1>2, <1>4, <1>9
<1>11. tags' \subseteq Tag
  BY <1>1, <1>4, <1>5 DEF ShopRows
<1>12. Typed'
  BY <1>1, <1>2, <1>4, <1>8, <1>10, <1>11 DEF Typed, ShopRows
<1>13. \A q \in Requests : req'[q].pc \notin {"delete", "tags", "idle"} => Unmoved(q)
  <2>1. ASSUME NEW q \in Requests, req'[q].pc \notin {"delete", "tags", "idle"}
        PROVE  Unmoved(q)
    <3>1. q \in Requests \ {r}
      BY <1>3, <2>1
    <3>2. Alike(req[q], req'[q])
      BY <1>2, <3>1
    <3>3. ~Saving(r, q)
      BY <2>1, <3>2 DEF Alike, Saving
    <3>4. req'[q].meanwhile = req[q].meanwhile
      BY <1>2, <3>1, <3>3
    <3> QED  BY <3>2, <3>4 DEF Unmoved
  <2> QED  BY <2>1
<1>14. CountQuiet
  BY <1>4, <1>10, <1>13 DEF CountQuiet
<1>15. PlaceQuiet
  BY <1>4, <1>13 DEF PlaceQuiet
<1>16. \A q \in Requests \ {r} : req'[q].new = req[q].new /\ req'[q].held = req[q].held
  BY <1>2 DEF Alike
<1>17. \A q \in Requests : Keeps(req[q])'
  <2>1. ASSUME NEW q \in Requests
        PROVE  \A i \in req'[q].held : \E t \in tags' \cup req'[q].new : t.id = i
    BY <1>3, <1>4, <1>16 DEF IInv, TagInv, Keeps
  <2> QED  BY <2>1 DEF Keeps
<1>18. LinkedInv'
  <2>1. ASSUME NEW h \in Gigs, NEW l \in links'[h]
        PROVE  \E t \in tags' : t.id = l.tag
    <3>1. CASE l \in links[h]
      BY <1>4, <3>1 DEF IInv, TagInv, LinkedInv
    <3>2. CASE l \in made
      <4>1. l.tag \in req[r].held
        BY <1>2, <1>7, <3>2
      <4> QED  BY <1>4, <4>1 DEF IInv, TagInv, Keeps
    <3> QED  BY <1>8, <3>1, <3>2
  <2> QED  BY <2>1 DEF LinkedInv
<1>19. NameInv'
  <2>1. NameInv
    BY DEF IInv, TagInv
  <2>2. /\ \A u \in tags' : u \in tags \/ u \in req[r].new
        /\ \A q \in Requests : \A u \in req'[q].new : q # r /\ u \in req[q].new
    BY <1>3, <1>4, <1>16
  <2>3. used'.tags = used.tags
    BY <1>4
  <2>4. \A u, v : Foreign(u, v) => Foreign(v, u)
    BY DEF Foreign
  <2>5. ASSUME NEW u \in tags'
        PROVE  u.id <= used'.tags /\ \A v \in tags' : u # v => Foreign(u, v)
    BY <2>1, <2>2, <2>3, <2>4 DEF NameInv
  <2>6. ASSUME NEW q \in Requests, NEW u \in req'[q].new
        PROVE  /\ u.id <= used'.tags
               /\ \A v \in tags' : Foreign(u, v)
               /\ \A v \in req'[q].new : u # v => Foreign(u, v)
               /\ \A p \in Requests \ {q} : \A v \in req'[p].new : Foreign(u, v)
    BY <2>1, <2>2, <2>3 DEF NameInv
  <2> QED  BY <2>5, <2>6 DEF NameInv, Foreign
<1>20. \A l \in links[g] \ req[r].old : l.form \in req[r].meanwhile
  BY <1>2 DEF IInv, FormInv, g
<1>21. TagsExplained'
  <2>1. ASSUME NEW h \in Gigs, NEW l \in links'[h]
        PROVE  l.form \in since'.forms[h]
    <3>1. CASE h = g
      BY <1>7, <1>8, <1>10, <1>20, <3>1
    <3>2. CASE h # g
      BY <1>8, <1>10, <3>2 DEF IInv, TagsExplained
    <3> QED  BY <3>1, <3>2
  <2> QED  BY <2>1 DEF TagsExplained
<1>22. ASSUME NEW q \in Requests, req'[q].pc \in {"delete", "tags"}
       PROVE  \A l \in links'[req'[q].gig] \ req'[q].old : l.form \in req'[q].meanwhile
  <2>1. q # r /\ Alike(req[q], req'[q]) /\ req[q].pc \in {"delete", "tags"}
    BY <1>2, <1>3, <1>22 DEF Alike
  <2>2. req[q].gig \in Gigs
    BY <1>1, <2>1 DEF WorkTyped, Begun, Tagging
  <2>3. \A l \in links[req[q].gig] \ req[q].old : l.form \in req[q].meanwhile
    BY <2>1 DEF IInv, FormInv
  <2>4. CASE req[q].gig = g
    <3>1. req'[q].meanwhile = req[q].meanwhile \cup {k}
      BY <1>2, <2>1, <2>4 DEF Saving, g
    <3>2. links'[g] \subseteq links[g] \cup made
      BY <1>8
    <3> QED  BY <1>7, <2>1, <2>3, <2>4, <3>1, <3>2 DEF Alike
  <2>5. CASE req[q].gig # g
    <3>1. req'[q].meanwhile = req[q].meanwhile
      BY <1>2, <2>1, <2>5 DEF Saving, g
    <3> QED  BY <1>8, <2>1, <2>2, <2>3, <2>5, <3>1 DEF Alike
  <2> QED  BY <2>4, <2>5
<1>23. FormInv'
  BY <1>22 DEF FormInv
<1> QED
  BY <1>12, <1>14, <1>15, <1>17, <1>18, <1>19, <1>21, <1>23, CountQuietStep, PlaceQuietStep
  DEF IInv, TagInv

\* An admin's step leaves every request as it is.
LEMMA AdminStep ==
  ASSUME IInv, req' = req
  PROVE  /\ WorkTyped'
         /\ reviews' = reviews /\ summary' = summary /\ since' = since => CountQuiet
         /\ (\A g \in Gigs : links'[g] \subseteq links[g]) /\ since' = since => FormQuiet
         /\ media' = media => PlaceQuiet
         /\ tags' = tags /\ links' = links /\ used'.tags = used.tags => TagQuiet
<1>1. \A q : Unmoved(q)
  BY SameUnmoved
<1>2. WorkTyped'
  BY DEF IInv, Typed, WorkTyped, Begun
<1> QED  BY <1>1, <1>2 DEF CountQuiet, FormQuiet, PlaceQuiet, TagQuiet

LEMMA TagRenameStep ==
  ASSUME IInv, adminTagRename
  PROVE  IInv'
<1>1. PICK t \in tags, slug \in Slugs : RenameTag(t, slug)
  BY DEF adminTagRename
<1>2. UNCHANGED <<reviews, summary, links, categories, category, media, used, req, since>>
  BY DEF adminTagRename
<1>3. Typed /\ ShopRows /\ NameInv /\ LinkedInv
  BY DEF IInv, Typed, TagInv
<1>4. PICK n : n = [t EXCEPT !.slug = slug]
  OBVIOUS
<1>5. t \in Tag
  BY <1>3 DEF ShopRows
<1>6. n \in Tag /\ n.id = t.id /\ n.slug = slug
  BY <1>4, <1>5 DEF Tag
<1>7. tags' = (tags \ {t}) \cup {n}
  BY <1>1, <1>4 DEF RenameTag
<1>8. /\ \A u \in tags : u.slug = slug => u.id = t.id
      /\ \A q \in Requests : \A u \in req[q].new : u.slug = slug => u.id = t.id
  BY <1>1 DEF RenameTag, SlugTaken
<1>9. WorkTyped' /\ CountQuiet /\ FormQuiet /\ PlaceQuiet
  BY <1>2, AdminStep
<1>10. Typed'
  BY <1>2, <1>3, <1>6, <1>7, <1>9 DEF Typed, ShopRows
<1>11. \A u \in tags : \E v \in tags' : v.id = u.id
  BY <1>6, <1>7
<1>12. LinkedInv'
  BY <1>2, <1>3, <1>11 DEF LinkedInv
<1>13. \A q \in Requests : Keeps(req[q])'
  <2>1. ASSUME NEW q \in Requests
        PROVE  \A i \in req[q].held : \E u \in tags' \cup req[q].new : u.id = i
    <3>1. \A i \in req[q].held : \E u \in tags \cup req[q].new : u.id = i
      BY DEF IInv, TagInv, Keeps
    <3> QED  BY <1>11, <3>1
  <2> QED  BY <1>2, <2>1 DEF Keeps
<1>14. /\ \A u \in tags \ {t} : Foreign(n, u) /\ Foreign(u, n)
       /\ \A q \in Requests : \A u \in req[q].new : Foreign(u, n)
  BY <1>3, <1>6, <1>8 DEF NameInv, Foreign
<1>15. NameInv'
  <2>1. \A u \in tags' : u.id <= used'.tags /\ \A v \in tags' : u # v => Foreign(u, v)
    BY <1>2, <1>3, <1>6, <1>7, <1>14 DEF NameInv
  <2>2. \A q \in Requests : \A u \in req'[q].new :
          /\ u.id <= used'.tags
          /\ \A v \in tags' : Foreign(u, v)
          /\ \A v \in req'[q].new : u # v => Foreign(u, v)
          /\ \A p \in Requests \ {q} : \A v \in req'[p].new : Foreign(u, v)
    BY <1>2, <1>3, <1>7, <1>14 DEF NameInv
  <2> QED  BY <2>1, <2>2 DEF NameInv, Foreign
<1> QED
  BY <1>3, <1>9, <1>10, <1>12, <1>13, <1>15, CountQuietStep, FormQuietStep, PlaceQuietStep
  DEF IInv, Typed, TagInv

LEMMA TagDeleteStep ==
  ASSUME IInv, adminTagDelete
  PROVE  IInv'
<1>1. PICK t \in tags : DeleteTag(t)
  BY DEF adminTagDelete
<1>2. UNCHANGED <<reviews, summary, categories, category, media, used, req, since>>
  BY DEF adminTagDelete
<1>3. Typed /\ ShopRows /\ WorkTyped /\ NameInv /\ LinkedInv
  BY DEF IInv, Typed, TagInv
<1>4. /\ tags' = tags \ {t}
      /\ links' = [g \in Gigs |-> {l \in links[g] : l.tag # t.id}]
      /\ TagFree(t.id)
  BY <1>1 DEF DeleteTag
<1>5. \A g \in Gigs : links'[g] \subseteq links[g] /\ \A l \in links'[g] : l.tag # t.id
  BY <1>4
<1>6. WorkTyped' /\ CountQuiet /\ FormQuiet /\ PlaceQuiet
  BY <1>2, <1>5, AdminStep
<1>7. tags' \subseteq Tag /\ links' \in [Gigs -> SUBSET Link]
  BY <1>3, <1>4 DEF ShopRows
<1>8. Typed'
  BY <1>2, <1>3, <1>6, <1>7 DEF Typed, ShopRows
<1>9. LinkedInv'
  BY <1>3, <1>4, <1>5 DEF LinkedInv
<1>10. \A q \in Requests : t.id \notin req[q].held
  <2>1. ASSUME NEW q \in Requests
        PROVE  t.id \notin req[q].held
    <3>1. CASE req[q].pc = "tags"
      BY <1>4, <3>1 DEF TagFree, TagUnheld
    <3>2. CASE req[q].pc # "tags"
      BY <1>3, <3>2 DEF WorkTyped, Begun
    <3> QED  BY <3>1, <3>2
  <2> QED  BY <2>1
<1>11. \A q \in Requests : Keeps(req[q])'
  <2>1. ASSUME NEW q \in Requests
        PROVE  \A i \in req[q].held : \E u \in tags' \cup req[q].new : u.id = i
    <3>1. \A i \in req[q].held : \E u \in tags \cup req[q].new : u.id = i
      BY DEF IInv, TagInv, Keeps
    <3> QED  BY <1>4, <1>10, <3>1
  <2> QED  BY <1>2, <2>1 DEF Keeps
<1>12. NameInv'
  BY <1>2, <1>3, <1>4 DEF NameInv, Foreign
<1> QED
  BY <1>3, <1>6, <1>8, <1>9, <1>11, <1>12, CountQuietStep, FormQuietStep, PlaceQuietStep
  DEF IInv, TagInv

\* A category more or fewer.
LEMMA CategoryStep ==
  ASSUME IInv, adminCategoryCreate \/ adminCategoryDelete
  PROVE  IInv'
<1>1. Typed /\ ShopRows
  BY DEF IInv, Typed
<1>2. UNCHANGED <<reviews, summary, tags, links, media, req, since>>
  BY DEF adminCategoryCreate, adminCategoryDelete
<1>3. /\ categories' \subseteq 1..MaxCategories /\ category' \in [Gigs -> categories' \cup {0}]
      /\ used' \in Counters /\ used'.tags = used.tags
  <2>1. used \in Counters /\ MaxCategories \in Nat
    BY <1>1, BoundsAssumption DEF ShopRows, Typed
  <2>2. CASE adminCategoryCreate
    <3>1. /\ used.categories < MaxCategories /\ category' = category
          /\ used' = [used EXCEPT !.categories = @ + 1]
          /\ categories' = categories \cup {used.categories + 1}
      BY <2>2 DEF adminCategoryCreate, CreateCategory
    <3>2. used.categories \in Nat
      BY <2>1 DEF Counters
    <3>3. used.categories + 1 \in 1..MaxCategories /\ used.categories + 1 \in 0..MaxCategories
      BY <2>1, <3>1, <3>2
    <3>4. used' \in Counters /\ used'.tags = used.tags
      BY <2>1, <3>1, <3>3 DEF Counters
    <3> QED  BY <1>1, <3>1, <3>3, <3>4 DEF ShopRows
  <2>3. CASE adminCategoryDelete
    <3>1. PICK c \in categories : DeleteCategory(c)
      BY <2>3 DEF adminCategoryDelete
    <3>2. used' = used /\ categories' = categories \ {c}
          /\ category' = [g \in Gigs |-> IF category[g] = c THEN 0 ELSE category[g]]
      BY <2>3, <3>1 DEF adminCategoryDelete, DeleteCategory, Orphaned
    <3> QED  BY <1>1, <2>1, <3>2 DEF ShopRows
  <2> QED  BY <2>2, <2>3
<1>4. WorkTyped' /\ CountQuiet /\ FormQuiet /\ PlaceQuiet /\ TagQuiet
  BY <1>2, <1>3, AdminStep
<1>5. Typed'
  BY <1>1, <1>2, <1>3, <1>4 DEF Typed, ShopRows
<1> QED  BY <1>4, <1>5, QuietStep

(* Images. *)

\* The next place is the one after those that are filled.
LEMMA NextPlaceIs ==
  ASSUME NEW g, NEW n \in Nat, Places(g) = 0..(n - 1)
  PROVE  NextPlace(g) = n
<1>1. CASE n = 0
  <2>1. Places(g) = {}
    BY <1>1
  <2> QED  BY <1>1, <2>1 DEF NextPlace
<1>2. CASE n # 0
  <2>1. n - 1 \in 0..(n - 1) /\ \A q \in 0..(n - 1) : q <= n - 1
    BY <1>2
  <2>2. \A p \in 0..(n - 1) : (\A q \in 0..(n - 1) : q <= p) => p = n - 1
    BY <1>2
  <2> DEFINE high == Highest(Places(g))
  <2>3. high \in 0..(n - 1) /\ \A q \in 0..(n - 1) : q <= high
    BY <2>1 DEF Highest
  <2>4. high = n - 1
    BY <2>2, <2>3
  <2>5. Places(g) # {}
    BY <2>1
  <2>6. NextPlace(g) = high + 1
    BY <2>5 DEF NextPlace
  <2> HIDE DEF high
  <2> QED  BY <2>4, <2>6
<1> QED  BY <1>1, <1>2

LEMMA UploadStep ==
  ASSUME IInv, NEW r \in Requests, sellGigMedia(r)
  PROVE  IInv'
<1>1. PICK g \in Gigs : Start(r, Upload(g, NextPlace(g), Len(media[g])))
  BY DEF sellGigMedia, Upload
<1>2. UNCHANGED <<shown, since>> /\ Typed
  BY DEF sellGigMedia, IInv, Typed
<1>3. PICK n \in Nat : Filled(g, n)
  BY DEF IInv, PlaceInv
<1>4. NextPlace(g) = n
  BY <1>3, NextPlaceIs DEF Filled
<1>5. PICK x : x = Upload(g, n, Len(media[g]))
  OBVIOUS
<1>6. /\ x \in Work /\ Begun(x) /\ x.pc = "place" /\ x.gig = g /\ x.place = n
      /\ x.after = Len(media[g]) /\ Len(media[g]) \in Nat
  <2>1. Len(media[g]) \in Nat
    BY <1>2 DEF Typed, ShopRows
  <2> QED  BY <1>2, <1>3, <1>5, <2>1, BegunUpload
<1>7. Start(r, x)
  BY <1>1, <1>4, <1>5
<1>8. Turns(r, x) /\ used' \in Counters /\ used'.tags = used.tags
  BY <1>2, <1>6, <1>7, StartTurns
<1>9. WorkTyped' /\ req'[r] = x /\ Same(r) /\ req'[r].held = {} /\ req'[r].new = {}
  BY <1>6, <1>8, TurnsOf
<1>10. Typed'
  BY <1>2, <1>8, <1>9, RowsStay
<1>11. TagQuiet /\ CountQuiet /\ FormQuiet
  BY <1>2, <1>6, <1>8, <1>9, OwnStep DEF shown
<1>12. \A h \in Gigs : Places(h)' = Places(h)
  BY <1>2 DEF Places, shown
<1>13. ASSUME NEW h \in Gigs
       PROVE  \E m \in Nat : Filled(h, m)'
  <2>1. PICK m \in Nat : Filled(h, m)
    BY DEF IInv, PlaceInv
  <2>2. \A q \in Requests \ {r} : req'[q] = req[q]
    BY <1>9 DEF Same
  <2>3. CASE h = g
    <3>1. \A q \in Requests : req'[q].pc = "place" /\ req'[q].gig = g => req'[q].place <= n
      BY <1>3, <1>6, <1>9, <2>2 DEF Filled
    <3>2. Filled(g, n)'
      BY <1>3, <1>12, <3>1 DEF Filled
    <3> QED  BY <2>3, <3>2
  <2>4. CASE h # g
    <3>1. \A q \in Requests : req'[q].pc = "place" /\ req'[q].gig = h => req'[q].place <= m
      BY <1>6, <1>9, <2>1, <2>2, <2>4 DEF Filled
    <3>2. Filled(h, m)'
      BY <1>12, <2>1, <3>1 DEF Filled
    <3> QED  BY <3>2
  <2> QED  BY <2>3, <2>4
<1>14. Ranked(media[g], x)
  <2>1. PICK s \in Seq(Media) : s = media[g]
    BY <1>2 DEF Typed, ShopRows
  <2>2. \A j \in 1..Len(s) : s[j].place \in 0..(n - 1)
    BY <1>3, <2>1 DEF Filled, Places
  <2>3. \A j \in 1..Len(s) : s[j].place < n
    BY <2>2
  <2>4. Len(s) \in 0..Len(s)
    BY <1>6, <2>1
  <2> QED  BY <1>6, <2>1, <2>3, <2>4 DEF Ranked
<1>15. ASSUME NEW h \in Gigs
       PROVE  Ordered(h)'
  <2>1. media' = media /\ Ordered(h) /\ \A q \in Requests \ {r} : req'[q] = req[q]
    BY <1>2, <1>9 DEF IInv, PlaceInv, shown, Same
  <2> QED  BY <1>6, <1>9, <1>14, <2>1 DEF Ordered, Ranked
<1>16. PlaceInv'
  BY <1>13, <1>15 DEF PlaceInv
<1> QED
  BY <1>2, <1>10, <1>11, <1>16, TagQuietStep, CountQuietStep, FormQuietStep DEF IInv, Typed

\* A row at the end leaves the order of those before as it was.
LEMMA RankedStays ==
  ASSUME NEW s \in Seq(Media), NEW row \in Media
  PROVE  \A x : Ranked(s, x) => Ranked(Append(s, row), x)
<1>1. /\ Len(s) \in Nat /\ Len(Append(s, row)) = Len(s) + 1
      /\ \A j \in 1..Len(s) : Append(s, row)[j] = s[j]
  OBVIOUS
<1>2. ASSUME NEW x, Ranked(s, x)
      PROVE  Ranked(Append(s, row), x)
  <2>1. x.after \in 0..Len(s) /\ \A j \in 1..x.after : s[j].place < x.place
    BY <1>2 DEF Ranked
  <2>2. x.after \in 0..(Len(s) + 1) /\ \A j \in 1..x.after : j \in 1..Len(s)
    BY <1>1, <2>1
  <2> QED  BY <1>1, <2>1, <2>2 DEF Ranked
<1> QED  BY <1>2

LEMMA AddMediaStep ==
  ASSUME IInv, NEW r \in Requests, AddGigMedia(r)
  PROVE  IInv'
<1>i. PICK g : g = req[r].gig
  OBVIOUS
<1>j. PICK p : p = req[r].place
  OBVIOUS
<1>k. PICK row : row = [place |-> p, after |-> req[r].after, state |-> "approved"]
  OBVIOUS
<1>1. Typed /\ ShopRows /\ WorkTyped /\ used \in Counters
  BY DEF IInv, Typed, ShopRows
<1>2. /\ req[r].pc = "place" /\ Done(r)
      /\ media' = [media EXCEPT ![g] = Append(media[g], row)]
      /\ UNCHANGED <<reviews, summary, tags, links, categories, category, used, since>>
  BY <1>i, <1>j, <1>k DEF AddGigMedia
<1>3. g \in Gigs /\ p \in Nat
  BY <1>i, <1>j, <1>1, <1>2 DEF WorkTyped, Begun, Work
<1>4. row \in Media /\ row.place = p /\ row.after = req[r].after
  <2>1. req[r].after \in Nat
    BY <1>1 DEF WorkTyped, Work
  <2> QED  BY <1>3, <1>k, <2>1 DEF Media, Decisions
<1>5. media \in [Gigs -> Seq(Media)]
  BY <1>1 DEF ShopRows
<1>6. /\ media' \in [Gigs -> Seq(Media)] /\ media'[g] = Append(media[g], row)
      /\ \A h \in Gigs \ {g} : media'[h] = media[h]
  BY <1>2, <1>3, <1>4, <1>5
<1>7. WorkTyped' /\ req'[r] = NoReq /\ Same(r)
  BY <1>1, <1>2, DoneTurns
<1>8. req'[r].held = {} /\ req'[r].new = {} /\ req'[r].pc = "idle"
  BY <1>1, <1>7, NoWork
<1>9. Typed'
  BY <1>1, <1>2, <1>6, <1>7 DEF Typed, ShopRows
<1>10. TagQuiet /\ CountQuiet /\ FormQuiet
  BY <1>2, <1>7, <1>8, OwnStep
<1>11. \A h \in Gigs \ {g} : Places(h)' = Places(h)
  BY <1>6 DEF Places
<1>12. Places(g)' = Places(g) \cup {p}
  <2>1. PICK s \in Seq(Media) : s = media[g]
    BY <1>3, <1>5
  <2>2. media'[g] = Append(s, row)
    BY <1>6, <2>1
  <2>3. /\ DOMAIN s = 1..Len(s) /\ Len(s) \in Nat
        /\ DOMAIN Append(s, row) = 1..(Len(s) + 1)
        /\ Append(s, row)[Len(s) + 1] = row
        /\ \A i \in 1..Len(s) : Append(s, row)[i] = s[i]
    BY <1>4, <2>1
  <2>4. 1..(Len(s) + 1) = (1..Len(s)) \cup {Len(s) + 1}
    BY <2>3
  <2>5. Places(g)' = {Append(s, row)[i].place : i \in 1..(Len(s) + 1)}
    BY <2>2, <2>3 DEF Places
  <2>6. Places(g) = {s[i].place : i \in 1..Len(s)}
    BY <2>1, <2>3 DEF Places
  <2> QED  BY <1>4, <2>3, <2>4, <2>5, <2>6
<1>13. \A q \in Requests \ {r} : req'[q] = req[q]
  BY <1>7 DEF Same
<1>14. ASSUME NEW h \in Gigs
       PROVE  \E m \in Nat : Filled(h, m)'
  <2>1. PICK m \in Nat : Filled(h, m)
    BY DEF IInv, PlaceInv
  <2>2. \A q \in Requests : req'[q].pc = "place" /\ req'[q].gig = h => req'[q].place <= m
    BY <1>8, <1>13, <2>1 DEF Filled
  <2>3. \A q \in Requests : req'[q].pc = "place" => req'[q].place \in Nat
    BY <1>7 DEF WorkTyped, Work
  <2>4. CASE h = g /\ p = m
    <3>1. Places(g)' = 0..(m + 1 - 1)
      <4>1. (0..(m - 1)) \cup {m} = 0..(m + 1 - 1)
        OBVIOUS
      <4> QED  BY <1>12, <2>1, <2>4, <4>1 DEF Filled
    <3>2. \A q \in Requests : req'[q].pc = "place" /\ req'[q].gig = h => req'[q].place <= m + 1
      BY <2>2, <2>3
    <3>3. Filled(h, m + 1)'
      BY <2>4, <3>1, <3>2 DEF Filled
    <3>4. m + 1 \in Nat
      OBVIOUS
    <3> QED  BY <3>3, <3>4
  <2>5. CASE h = g /\ p # m
    <3>1. p <= m
      BY <1>i, <1>j, <1>2, <2>1, <2>5 DEF Filled
    <3>2. (0..(m - 1)) \cup {p} = 0..(m - 1)
      BY <1>3, <2>5, <3>1
    <3>3. Places(h)' = 0..(m - 1)
      BY <1>12, <2>1, <2>5, <3>2 DEF Filled
    <3> QED  BY <2>2, <3>3 DEF Filled
  <2>6. CASE h # g
    <3>1. Places(h)' = 0..(m - 1)
      BY <1>11, <2>1, <2>6 DEF Filled
    <3> QED  BY <2>2, <3>1 DEF Filled
  <2> QED  BY <2>4, <2>5, <2>6
<1>15. ASSUME NEW h \in Gigs
       PROVE  Ordered(h)'
  <2>1. Ordered(h)
    BY DEF IInv, PlaceInv
  <2>2. CASE h # g
    BY <1>6, <1>8, <1>13, <2>1, <2>2 DEF Ordered, Ranked
  <2>3. CASE h = g
    <3>1. PICK s \in Seq(Media) : s = media[g]
      BY <1>3, <1>5
    <3>2. media'[g] = Append(s, row)
      BY <1>6, <3>1
    <3>3. Ranked(s, row)
      <4>1. Ranked(s, req[r])
        BY <1>i, <1>2, <2>1, <2>3, <3>1 DEF Ordered
      <4> QED  BY <1>j, <1>4, <4>1 DEF Ranked
    <3>4. \A x : Ranked(s, x) => Ranked(Append(s, row), x)
      BY <1>4, <3>1, RankedStays
    <3>5. \A i \in DOMAIN Append(s, row) : Ranked(Append(s, row), Append(s, row)[i])
      <4>1. /\ DOMAIN Append(s, row) = 1..(Len(s) + 1) /\ Len(s) \in Nat
            /\ Append(s, row)[Len(s) + 1] = row
            /\ \A i \in 1..Len(s) : Append(s, row)[i] = s[i] /\ i \in DOMAIN s
        BY <1>4, <3>1
      <4>2. \A i \in 1..(Len(s) + 1) : i \in 1..Len(s) \/ i = Len(s) + 1
        BY <4>1
      <4>3. \A i \in DOMAIN s : Ranked(s, s[i])
        BY <2>1, <2>3, <3>1 DEF Ordered
      <4> QED  BY <3>3, <3>4, <4>1, <4>2, <4>3
    <3>6. \A q \in Requests : req'[q].pc = "place" /\ req'[q].gig = g =>
            Ranked(Append(s, row), req'[q])
      <4>1. \A q \in Requests : req[q].pc = "place" /\ req[q].gig = g => Ranked(s, req[q])
        BY <2>1, <2>3, <3>1 DEF Ordered
      <4> QED  BY <1>8, <1>13, <3>4, <4>1
    <3> QED  BY <2>3, <3>2, <3>5, <3>6 DEF Ordered, Ranked
  <2> QED  BY <2>2, <2>3
<1>16. PlaceInv'
  BY <1>14, <1>15 DEF PlaceInv
<1> QED
  BY <1>1, <1>9, <1>10, <1>16, TagQuietStep, CountQuietStep, FormQuietStep DEF IInv

LEMMA MediaDecideStep ==
  ASSUME IInv, adminModerationMediaDecide
  PROVE  IInv'
<1>0. PICK g \in Gigs, d \in Decisions :
           \E i \in DOMAIN media[g] : SetGigMediaModerationState(g, i, d)
  BY DEF adminModerationMediaDecide
<1>1. PICK i \in DOMAIN media[g] : SetGigMediaModerationState(g, i, d)
  BY <1>0
<1>2. UNCHANGED <<reviews, summary, tags, links, categories, category, used, req, since>>
  BY DEF adminModerationMediaDecide
<1>3. Typed /\ ShopRows /\ WorkTyped
  BY DEF IInv, Typed
<1>4. PICK s \in Seq(Media) : s = media[g]
  BY <1>3 DEF ShopRows
<1>5. i \in 1..Len(s) /\ Len(s) \in Nat /\ s[i] \in Media
  BY <1>4
<1>6. PICK t : t = [s EXCEPT ![i] = [s[i] EXCEPT !.state = d]]
  OBVIOUS
<1>7. /\ [s[i] EXCEPT !.state = d] \in Media /\ [s[i] EXCEPT !.state = d].place = s[i].place
      /\ [s[i] EXCEPT !.state = d].after = s[i].after
  BY <1>5 DEF Media
<1>8. /\ t \in Seq(Media) /\ DOMAIN t = DOMAIN s /\ Len(t) = Len(s) /\ DOMAIN s = 1..Len(s)
      /\ \A j \in DOMAIN s : t[j].place = s[j].place /\ t[j].after = s[j].after
  BY <1>5, <1>6, <1>7
<1>9. media' = [media EXCEPT ![g] = t]
  BY <1>1, <1>4, <1>6 DEF SetGigMediaModerationState
<1>10. /\ media' \in [Gigs -> Seq(Media)] /\ media'[g] = t
       /\ \A h \in Gigs \ {g} : media'[h] = media[h]
  BY <1>3, <1>8, <1>9 DEF ShopRows
<1>11. WorkTyped' /\ CountQuiet /\ FormQuiet /\ TagQuiet
  BY <1>2, AdminStep
<1>12. Typed'
  BY <1>2, <1>3, <1>10, <1>11 DEF Typed, ShopRows
<1>13. \A h \in Gigs : Places(h)' = Places(h)
  <2>1. {t[j].place : j \in DOMAIN t} = {s[j].place : j \in DOMAIN s}
    BY <1>8
  <2>2. Places(g)' = Places(g)
    <3>1. Places(g) = {s[j].place : j \in DOMAIN s}
      BY <1>4 DEF Places
    <3>2. media'[g] = t
      BY <1>10
    <3>3. Places(g)' = {t[j].place : j \in DOMAIN t}
      BY <3>2 DEF Places
    <3> QED  BY <2>1, <3>1, <3>3
  <2>3. ASSUME NEW h \in Gigs \ {g}
        PROVE  Places(h)' = Places(h)
    BY <1>10 DEF Places
  <2> QED  BY <2>2, <2>3
<1>14. ASSUME NEW h \in Gigs
       PROVE  Ordered(h)'
  <2>1. Ordered(h)
    BY DEF IInv, PlaceInv
  <2>2. CASE h # g
    BY <1>2, <1>10, <2>1, <2>2 DEF Ordered, Ranked
  <2>3. CASE h = g
    <3>1. \A x : Ranked(s, x) => Ranked(t, x)
      <4>1. ASSUME NEW x, Ranked(s, x)
            PROVE  Ranked(t, x)
        <5>1. x.after \in 0..Len(s) /\ \A j \in 1..x.after : j \in 1..Len(s)
          BY <1>5, <4>1 DEF Ranked
        <5> QED  BY <1>8, <4>1, <5>1 DEF Ranked
      <4> QED  BY <4>1
    <3>2. \A j \in DOMAIN s : Ranked(s, s[j])
      BY <1>4, <2>1, <2>3 DEF Ordered
    <3>3. \A j \in DOMAIN s : Ranked(s, t[j])
      BY <1>8, <3>2 DEF Ranked
    <3>4. \A q \in Requests : req[q].pc = "place" /\ req[q].gig = g => Ranked(s, req[q])
      BY <1>4, <2>1, <2>3 DEF Ordered
    <3>5. media'[g] = t /\ req' = req
      BY <1>2, <1>10
    <3> QED  BY <1>8, <2>3, <3>1, <3>3, <3>4, <3>5 DEF Ordered, Ranked
  <2> QED  BY <2>2, <2>3
<1>15. PlaceInv'
  BY <1>2, <1>13, <1>14 DEF IInv, PlaceInv, Filled
<1> QED
  BY <1>3, <1>11, <1>12, <1>15, TagQuietStep, CountQuietStep, FormQuietStep DEF IInv

LEMMA InitInv ==
  ASSUME Init
  PROVE  IInv
<1>1. /\ reviews = [o \in Orders |-> "none"] /\ summary = {}
      /\ tags = {} /\ links = [g \in Gigs |-> {}]
      /\ categories = {1} /\ category = [g \in Gigs |-> 0]
      /\ media = [g \in Gigs |-> <<>>]
      /\ used = [tags |-> 0, categories |-> 1, requests |-> 0]
      /\ req = [r \in Requests |-> NoReq]
      /\ since = [reviews |-> {}, forms |-> [g \in Gigs |-> {}]]
  BY DEF Init
<1>2. NoReq \in Work /\ NoReq.pc = "idle" /\ Begun(NoReq) /\ NoReq.new = {} /\ NoReq.held = {}
  BY NoWork
<1>3. \A q \in Requests : req[q] = NoReq
  BY <1>1
<1>4. WorkTyped
  BY <1>1, <1>2, <1>3 DEF WorkTyped
<1>5. used \in Counters /\ categories \subseteq 1..MaxCategories
  BY <1>1, BoundsAssumption DEF Counters
<1>6. ShopRows
  BY <1>1, <1>5 DEF ShopRows, ReviewStates
<1>7. TagInv
  BY <1>1, <1>2, <1>3 DEF TagInv, NameInv, LinkedInv, Keeps
<1>8. RatingsExplained /\ TagsExplained
  BY <1>1 DEF RatingsExplained, TagsExplained, Approved
<1>9. CountInv /\ FormInv
  BY <1>2, <1>3 DEF CountInv, FormInv
<1>10. ASSUME NEW g \in Gigs
       PROVE  Filled(g, 0)
  <2>1. Places(g) = {} /\ 0..(0 - 1) = {}
    BY <1>1 DEF Places
  <2> QED  BY <1>2, <1>3, <2>1 DEF Filled
<1>11. PlaceInv
  <2>1. \A g \in Gigs : Ordered(g)
    BY <1>1, <1>2, <1>3 DEF Ordered
  <2> QED  BY <1>10, <2>1 DEF PlaceInv
<1> QED  BY <1>4, <1>6, <1>7, <1>8, <1>9, <1>11 DEF IInv, Typed

LEMMA StepInv ==
  ASSUME IInv, [Next]_vars
  PROVE  IInv'
<1>1. CASE UNCHANGED vars
  <2>1. Typed /\ req' = req /\ UNCHANGED <<shown, used, since>> /\ used \in Counters
    BY <1>1 DEF vars, IInv, Typed, ShopRows
  <2>2. WorkTyped' /\ CountQuiet /\ FormQuiet /\ PlaceQuiet /\ TagQuiet
    BY <2>1, AdminStep DEF shown
  <2>3. Typed'
    BY <2>1, <2>2, RowsStay
  <2> QED  BY <2>2, <2>3, QuietStep
<1>2. ASSUME NEW r \in Requests,
             \/ CreateReview(r) \/ adminModerationReviewDecide(r)
             \/ Recalculate(r) \/ CommitReview(r)
             \/ sellGigUpdate(r) \/ UpdateGig(r)
             \/ SetGigTags(r) \/ SetGigTagsDelete(r) \/ SetGigTagsUpsert(r)
             \/ SetGigTagsCommit(r)
             \/ sellGigMedia(r) \/ AddGigMedia(r)
             \/ RequestAborts(r)
      PROVE  IInv'
  BY <1>2, CreateReviewStep, ReviewDecideStep, RecalculateStep, CommitReviewStep, GigUpdateStep,
     UpdateGigStep, SetGigTagsStep, DeleteStep, UpsertStep, CommitTagsStep, UploadStep,
     AddMediaStep, AbortStep
<1>3. CASE adminTagRename \/ adminTagDelete
  BY <1>3, TagRenameStep, TagDeleteStep
<1>4. CASE adminCategoryCreate \/ adminCategoryDelete
  BY <1>4, CategoryStep
<1>5. CASE adminModerationMediaDecide
  BY <1>5, MediaDecideStep
<1> QED  BY <1>1, <1>2, <1>3, <1>4, <1>5 DEF Next

LEMMA Invariant == Spec => []IInv
<1>1. Init => IInv
  BY InitInv
<1>2. IInv /\ [Next]_vars => IInv'
  BY StepInv
<1> QED  BY <1>1, <1>2, PTL DEF Spec

\* The rows of the catalogue and its requests keep their types; every link has its
\* tag, no two tags share a slug (the UNIQUE of tags.slug), every gig's category is
\* there, and what a saving holds is a tag that no admin has deleted meanwhile.
THEOREM TypeCorrect == Spec => []TypeOK
<1>1. ASSUME IInv
      PROVE  TypeOK
  <2>1. Typed /\ ShopRows /\ WorkTyped /\ NameInv /\ LinkedInv
    BY <1>1 DEF IInv, Typed, TagInv
  <2>2. \A g \in Gigs : {l.tag : l \in links[g]} \subseteq {t.id : t \in tags}
    BY <2>1 DEF LinkedInv
  <2>3. \A t, u \in tags : t.slug = u.slug => t = u
    BY <2>1 DEF NameInv, Foreign
  <2>4. ASSUME NEW r \in Requests
        PROVE  /\ req[r].pc \in {"idle", "recount", "counted", "update", "clear", "delete",
                                 "tags", "place"}
               /\ req[r].held \subseteq {t.id : t \in tags \cup req[r].new}
    <3>1. req[r].pc \in {"idle", "place"} \cup Reviewing \cup Tagging
      BY <2>1 DEF WorkTyped, Work
    <3>2. Keeps(req[r])
      BY <1>1 DEF IInv, TagInv
    <3> QED  BY <3>1, <3>2 DEF Keeps, Reviewing, Tagging
  <2>5. since.reviews \subseteq Orders /\ DOMAIN since.forms = Gigs
    BY <2>1 DEF ShopRows
  <2> QED  BY <2>1, <2>2, <2>3, <2>4, <2>5 DEF TypeOK, ShopRows, Counters
<1> QED  BY <1>1, Invariant, PTL

\* store/reviews.go:31, store/admin.go:184: the rating of the seller's profile is off
\* by no more than the reviews that were committed while its last recount was under way.
THEOREM RatingsHold == Spec => []RatingsExplained
<1>1. IInv => RatingsExplained
  BY DEF IInv
<1> QED  BY <1>1, Invariant, PTL

\* SetGigTags replaces a gig's tags: what a form left is gone once a later one has been
\* saved, unless the two were saved at the same time.
THEOREM TagsHold == Spec => []TagsExplained
<1>1. IInv => TagsExplained
  BY DEF IInv
<1> QED  BY <1>1, Invariant, PTL

\* AddGigMedia: an image comes after every image that was there when it was uploaded,
\* however many are uploaded at once and whatever is rejected.
THEOREM PlacesHold == Spec => []UploadsKeepOrder
<1>1. IInv => UploadsKeepOrder
  BY DEF IInv, PlaceInv, Ordered, Ranked, UploadsKeepOrder
<1> QED  BY <1>1, Invariant, PTL

=============================================================================
