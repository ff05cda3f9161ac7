------------------------------ MODULE Catalogue ------------------------------
(***************************************************************************)
(* What the pages of one seller show: the rating, the tags and category of *)
(* the gigs, their images; written by buyers, the seller and admins at     *)
(* once (handlers/orders.go, handlers/seller.go, handlers/admin.go,        *)
(* store/reviews.go, store/catalog.go, store/admin.go).                    *)
(*                                                                         *)
(* A statement sees what was committed when it began (READ COMMITTED); a   *)
(* row written by a transaction is waited for by the others.  What a       *)
(* transaction has written is in its request until it commits.             *)
(*                                                                         *)
(* A definition X_fault just before X is X with a plausible bug in it.  No *)
(* action uses it; it is put in X's place to see a property fail.          *)
(***************************************************************************)
EXTENDS Integers, FiniteSets, Sequences

CONSTANTS
  Requests,      \* requests handled at once
  Orders,        \* the seller's accepted orders
  Gigs,          \* the seller's gigs
  Slugs,         \* what slugify makes of the names of tags
  Forms,         \* bound: the tags a seller submits, in their order
  MaxStarted,    \* bound: requests
  MaxTags,       \* bound: tags rows ever
  MaxCategories  \* bound: categories rows ever

ASSUME FormsAssumption == Forms \subseteq Seq(Slugs)
ASSUME BoundsAssumption ==
  MaxStarted \in Nat /\ MaxTags \in Nat /\ MaxCategories \in Nat \ {0}

VARIABLES
  reviews,     \* moderation_state of each order's review
  summary,     \* the reviews in rating_avg and rating_count of seller_profiles
  tags,        \* tags rows
  links,       \* gig_tags rows of each gig
  categories,  \* ids of the categories rows
  category,    \* category_id of each gig, 0 for NULL
  media,       \* gig_media rows of each gig, in the order of their creation
  used,        \* ids given so far, to tags and to categories, and requests
  req,         \* what each request has read, written and is about to do
  since        \* (not in the code) what was committed during the last recount,
               \* and during the last saving of each gig's tags

shown == <<reviews, summary, tags, links, categories, category, media>>
vars == <<shown, used, req, since>>

ReviewStates == {"none", "approved", "rejected"}
Decisions == {"approved", "rejected"}
Tag == [id : 1..MaxTags, slug : Slugs]

\* A link is known by the request that made it.
Link == [tag : 1..MaxTags, form : 1..MaxStarted]

\* after (not in the code): how many images were there when its place was read.
Media == [place : Nat, after : Nat, state : Decisions]

NoReq == [pc |-> "idle", form |-> 0, order |-> 0, to |-> "none", counted |-> {},
          gig |-> 0, category |-> 0, todo |-> <<>>, old |-> {}, held |-> {}, new |-> {},
          linked |-> {}, place |-> 0, after |-> 0, meanwhile |-> {}]

TypeOK ==
  /\ reviews \in [Orders -> ReviewStates] /\ summary \subseteq Orders
  /\ tags \subseteq Tag /\ links \in [Gigs -> SUBSET Link]
  /\ \A g \in Gigs : {l.tag : l \in links[g]} \subseteq {t.id : t \in tags}
  /\ \A t, u \in tags : t.slug = u.slug => t = u
  /\ categories \subseteq 1..MaxCategories /\ category \in [Gigs -> categories \cup {0}]
  /\ media \in [Gigs -> Seq(Media)]
  /\ used \in [tags : 0..MaxTags, categories : 0..MaxCategories, requests : 0..MaxStarted]
  /\ \A r \in Requests :
       /\ req[r].pc \in {"idle", "recount", "counted", "update", "clear", "delete", "tags",
                         "place"}
       /\ req[r].held \subseteq {t.id : t \in tags \cup req[r].new}
  /\ since.reviews \subseteq Orders /\ DOMAIN since.forms = Gigs

Init ==
  /\ reviews = [o \in Orders |-> "none"] /\ summary = {}
  /\ tags = {} /\ links = [g \in Gigs |-> {}]
  /\ categories = {1} /\ category = [g \in Gigs |-> 0]
  /\ media = [g \in Gigs |-> <<>>]
  /\ used = [tags |-> 0, categories |-> 1, requests |-> 0]
  /\ req = [r \in Requests |-> NoReq]
  /\ since = [reviews |-> {}, forms |-> [g \in Gigs |-> {}]]

Start(r, as) ==
  /\ req[r].pc = "idle" /\ used.requests < MaxStarted
  /\ used' = [used EXCEPT !.requests = @ + 1]
  /\ req' = [req EXCEPT ![r] = as]

Done(r) == req' = [req EXCEPT ![r] = NoReq]

\* An error return, a lock that would close a circle of waits, or a crash: the
\* transaction is rolled back.
RequestAborts(r) ==
  /\ req[r].pc # "idle"
  /\ Done(r)
  /\ UNCHANGED <<shown, used, since>>

-----------------------------------------------------------------------------
(* Reviews and the rating.                                                   *)

\* No other transaction has written the order's review.
ReviewFree(o) == \A q \in Requests : req[q].pc \in {"recount", "counted"} => req[q].order # o

Written(o, state) == [NoReq EXCEPT !.pc = "recount", !.order = o, !.to = state]

\* One review per order: a second one is refused and nothing is done.  It shows
\* at once.
CreateReview(r) ==
  /\ \E o \in Orders :
       /\ ReviewFree(o) /\ reviews[o] = "none"
       /\ Start(r, Written(o, "approved"))
  /\ UNCHANGED <<shown, since>>

\* Approve or reject, whatever it was.
SetReviewModerationStateAdmin(r, o, state) ==
  /\ ReviewFree(o) /\ reviews[o] # "none"
  /\ Start(r, Written(o, state))

adminModerationReviewDecide(r) ==
  /\ \E o \in Orders, state \in Decisions : SetReviewModerationStateAdmin(r, o, state)
  /\ UNCHANGED <<shown, since>>

Approved(of) == {o \in Orders : of[o] = "approved"}

\* The approved reviews as the transaction sees them, its own write included.
Counted_beforeTheWrite(r) == Approved(reviews)
Counted(r) == Approved([reviews EXCEPT ![req[r].order] = req[r].to])

\* The statement that sets rating_avg and rating_count begins ...
Recalculate(r) ==
  /\ req[r].pc = "recount"
  /\ req' = [req EXCEPT ![r].pc = "counted", ![r].counted = Counted(r), ![r].meanwhile = {}]
  /\ UNCHANGED <<shown, used, since>>

\* ... and has got the profile's row, which it may have had to wait for: what it
\* counted stays.
CommitReview(r) ==
  LET o == req[r].order IN
  /\ req[r].pc = "counted"
  /\ reviews' = [reviews EXCEPT ![o] = req[r].to]
  /\ summary' = req[r].counted
  /\ since' = [since EXCEPT !.reviews = req[r].meanwhile]
  /\ req' = [q \in Requests |->
               IF q = r THEN NoReq
               ELSE IF req[q].pc = "counted" THEN [req[q] EXCEPT !.meanwhile = @ \cup {o}]
               ELSE req[q]]
  /\ UNCHANGED <<tags, links, categories, category, media, used>>

-----------------------------------------------------------------------------
(* Tags and categories.                                                      *)

\* The form names a category of the page, and the tags as they were typed.
sellGigUpdate(r) ==
  /\ \E g \in Gigs, c \in categories \cup {0}, f \in Forms :
       Start(r, [NoReq EXCEPT !.pc = "update", !.form = used.requests + 1, !.gig = g,
                              !.category = c, !.todo = f])
  /\ UNCHANGED <<shown, since>>

\* A category that is gone by now ends the request.
UpdateGig(r) ==
  /\ req[r].pc = "update" /\ req[r].category \in categories \cup {0}
  /\ category' = [category EXCEPT ![req[r].gig] = req[r].category]
  /\ req' = [req EXCEPT ![r].pc = "clear"]
  /\ UNCHANGED <<reviews, summary, tags, links, categories, media, used, since>>

Cleared_nothing(g) == {}
Cleared(g) == links[g]

\* SetGigTags begins: the DELETE sees the links that are there ...
SetGigTags(r) ==
  /\ req[r].pc = "clear"
  /\ req' = [req EXCEPT ![r].pc = "delete", ![r].old = Cleared(req[r].gig), ![r].meanwhile = {}]
  /\ UNCHANGED <<shown, used, since>>

\* What other transactions have deleted.
Deleted(r) == UNION {req[q].old : q \in {q \in Requests \ {r} : /\ req[q].pc = "tags"
                                                                 /\ req[q].gig = req[r].gig}}

\* ... and deletes those that are still there, once nobody else is about to.
SetGigTagsDelete(r) ==
  LET still == req[r].old \cap links[req[r].gig] IN
  /\ req[r].pc = "delete" /\ still \cap Deleted(r) = {}
  /\ req' = [req EXCEPT ![r].pc = "tags", ![r].old = still]
  /\ UNCHANGED <<shown, used, since>>

\* Whether some other transaction keeps the rows of the slug, or of the tag.
SlugFree(r, slug) ==
  \A q \in Requests \ {r} :
    \A t \in tags \cup req[q].new : t.id \in req[q].held => t.slug # slug

\* The upsert of one name, and the link to it: the tag that is there, or a new one,
\* is kept until the commit.  A name that was seen is one that is held already.
\* A link that is there by now stays as it is (DO NOTHING).
SetGigTagsUpsert(r) ==
  LET slug  == Head(req[r].todo)
      there == {t \in tags \cup req[r].new : t.slug = slug}
      new   == IF there = {} THEN {[id |-> used.tags + 1, slug |-> slug]} ELSE {}
      ids   == {t.id : t \in there \cup new}
      met   == {l \in links[req[r].gig] \ req[r].old : l.tag \in ids} IN
  /\ req[r].pc = "tags" /\ req[r].todo # <<>>
  /\ SlugFree(r, slug) /\ met \cap Deleted(r) = {}
  /\ used.tags + Cardinality(new) <= MaxTags
  /\ used' = [used EXCEPT !.tags = @ + Cardinality(new)]
  /\ req' = [req EXCEPT ![r].todo = Tail(@), ![r].held = @ \cup ids, ![r].new = @ \cup new,
                        ![r].linked = @ \cup (ids \ {l.tag : l \in met})]
  /\ UNCHANGED <<shown, since>>

\* Its COMMIT.
SetGigTagsCommit(r) ==
  LET g == req[r].gig IN
  /\ req[r].pc = "tags" /\ req[r].todo = <<>>
  /\ tags' = tags \cup req[r].new
  /\ links' = [links EXCEPT ![g] =
       (@ \ req[r].old) \cup {[tag |-> i, form |-> req[r].form] : i \in req[r].linked}]
  /\ since' = [since EXCEPT !.forms[g] = {req[r].form} \cup req[r].meanwhile]
  /\ req' = [q \in Requests |->
               IF q = r THEN NoReq
               ELSE IF req[q].pc \in {"delete", "tags"} /\ req[q].gig = g
                    THEN [req[q] EXCEPT !.meanwhile = @ \cup {req[r].form}]
               ELSE req[q]]
  /\ UNCHANGED <<reviews, summary, categories, category, media, used>>

\* No other transaction keeps the tag ...
TagUnheld(i) == \A q \in Requests : req[q].pc = "tags" => i \notin req[q].held

\* ... or has deleted a link to it.
TagFree(i) ==
  TagUnheld(i) /\ \A q \in Requests : req[q].pc = "tags" => i \notin {l.tag : l \in req[q].old}

SlugTaken(i, slug) ==
  \E t \in tags \cup UNION {req[q].new : q \in Requests} : t.slug = slug /\ t.id # i

\* A name whose slug is taken is refused.
RenameTag(t, slug) ==
  /\ TagUnheld(t.id) /\ ~SlugTaken(t.id, slug)
  /\ tags' = (tags \ {t}) \cup {[t EXCEPT !.slug = slug]}

adminTagRename ==
  /\ \E t \in tags, slug \in Slugs : RenameTag(t, slug)
  /\ UNCHANGED <<reviews, summary, links, categories, category, media, used, req, since>>

\* The links go with the tag.
DeleteTag(t) ==
  /\ TagFree(t.id)
  /\ tags' = tags \ {t}
  /\ links' = [g \in Gigs |-> {l \in links[g] : l.tag # t.id}]

adminTagDelete ==
  /\ \E t \in tags : DeleteTag(t)
  /\ UNCHANGED <<reviews, summary, categories, category, media, used, req, since>>

CreateCategory ==
  /\ used' = [used EXCEPT !.categories = @ + 1]
  /\ categories' = categories \cup {used.categories + 1}

adminCategoryCreate ==
  /\ used.categories < MaxCategories /\ CreateCategory
  /\ UNCHANGED <<reviews, summary, tags, links, category, media, req, since>>

Orphaned_kept(c) == category
Orphaned(c) == [g \in Gigs |-> IF category[g] = c THEN 0 ELSE category[g]]

\* Its gigs fall back to no category.
DeleteCategory(c) ==
  /\ categories' = categories \ {c}
  /\ category' = Orphaned(c)

adminCategoryDelete ==
  /\ \E c \in categories : DeleteCategory(c)
  /\ UNCHANGED <<reviews, summary, tags, links, media, used, req, since>>

-----------------------------------------------------------------------------
(* Images.                                                                   *)

Places(g) == {media[g][i].place : i \in DOMAIN media[g]}

Highest(places) == CHOOSE p \in places : \A q \in places : q <= p

\* One more than the highest place, whatever its image's moderation.
NextPlace_ofTheApproved(g) ==
  LET places == {media[g][i].place : i \in {j \in DOMAIN media[g] : media[g][j].state = "approved"}}
  IN  IF places = {} THEN 0 ELSE Highest(places) + 1
NextPlace(g) == IF Places(g) = {} THEN 0 ELSE Highest(Places(g)) + 1

\* AddGigMedia reads the next place ...
sellGigMedia(r) ==
  /\ \E g \in Gigs : Start(r, [NoReq EXCEPT !.pc = "place", !.gig = g, !.place = NextPlace(g),
                                           !.after = Len(media[g])])
  /\ UNCHANGED <<shown, since>>

\* ... and inserts the row, no constraint on the place; it shows at once.
AddGigMedia(r) ==
  /\ req[r].pc = "place"
  /\ media' = [media EXCEPT ![req[r].gig] =
                 Append(@, [place |-> req[r].place, after |-> req[r].after, state |-> "approved"])]
  /\ Done(r)
  /\ UNCHANGED <<reviews, summary, tags, links, categories, category, used, since>>

\* The row and its place stay.
SetGigMediaModerationState(g, i, state) == media' = [media EXCEPT ![g][i].state = state]

adminModerationMediaDecide ==
  /\ \E g \in Gigs, state \in Decisions :
       \E i \in DOMAIN media[g] : SetGigMediaModerationState(g, i, state)
  /\ UNCHANGED <<reviews, summary, tags, links, categories, category, used, req, since>>

-----------------------------------------------------------------------------
Next ==
  \/ \E r \in Requests :
       \/ CreateReview(r) \/ adminModerationReviewDecide(r)
       \/ Recalculate(r) \/ CommitReview(r)
       \/ sellGigUpdate(r) \/ UpdateGig(r)
       \/ SetGigTags(r) \/ SetGigTagsDelete(r) \/ SetGigTagsUpsert(r) \/ SetGigTagsCommit(r)
       \/ sellGigMedia(r) \/ AddGigMedia(r)
       \/ RequestAborts(r)
  \/ adminTagRename \/ adminTagDelete \/ adminCategoryCreate \/ adminCategoryDelete
  \/ adminModerationMediaDecide

Spec == Init /\ [][Next]_vars

-----------------------------------------------------------------------------
(* Properties.                                                               *)

\* store/reviews.go:31 and store/admin.go:184 have the rating never drift from the
\* reviews: it is off by no more than the reviews that were committed while the
\* last recount was under way, and exact if there were none.
RatingsExplained ==
  (summary \ Approved(reviews)) \cup (Approved(reviews) \ summary) \subseteq since.reviews

\* A gig's tags are those of the form saved last, and of forms that were saved while
\* it was: what any earlier form left is gone, whoever renames, deletes or fails.
TagsExplained ==
  \A g \in Gigs : {l.form : l \in links[g]} \subseteq since.forms[g]

\* AddGigMedia and the ORDER BY position of store/catalog.go:451: an image comes after
\* every image that was there when it was uploaded, whatever is rejected or approved
\* before and after; only those that are uploaded at once may come in any order.
UploadsKeepOrder ==
  \A g \in Gigs : \A i \in DOMAIN media[g] :
    \A j \in 1..media[g][i].after : media[g][j].place < media[g][i].place

=============================================================================
