----------------------------- MODULE Catalogue -----------------------------
(***************************************************************************)
(* The books, what they are linked to, and their pictures at Cloudinary.   *)
(*                                                                         *)
(* A row and the picture it shows live in two systems: every handler here  *)
(* uploads or removes a picture in one step and writes the row in another, *)
(* and either may fail. Handlers of several administrators interleave      *)
(* between their awaits. A Prisma call, with its nested writes, is one     *)
(* transaction and one step; the foreign keys are the schema's.            *)
(*                                                                         *)
(* Categories, authors and promotions are the things a book is linked to.  *)
(* Titles, prices and dates are left out; they are written with the links. *)
(***************************************************************************)
EXTENDS Integers, FiniteSets

CONSTANTS
    Book,
    Label,          \* categories and authors
    Promotion,
    Pictures,       \* bound on the number of uploads
    Admin,          \* requests about books in progress at a time
    NoPicture,
    Elsewhere       \* the address of something that is no picture of ours

Picture == 1..Pictures

\* What a thumbnail column or a request may hold; a text from which the public
\* id of a picture can be taken stands for that picture.
Address == Picture \cup {NoPicture, Elsewhere}

ASSUME CatalogueAssumption ==
    /\ Pictures \in Nat
    /\ {NoPicture, Elsewhere} \cap (1..Pictures) = {}
    /\ NoPicture # Elsewhere
    /\ "no book" \notin Book

VARIABLES
    book,           \* per book: none, live, gone
    thumbnail,      \* the picture the row of a book shows
    linked,         \* the labels and promotions that exist
    links,          \* bookcategory, bookauthor and bookpromotion rows
    image,          \* per picture: the book of its bookimage row, or none
    cloud,          \* the pictures at Cloudinary
    uploads,        \* how many were ever uploaded
    holder,         \* per book: what refers to it that holds it (Restrict)
    reviews,        \* the books the customer has reviewed
    task,           \* the requests about books
    named           \* the pictures a request has named: to show them, or to
                    \* remove them, with their book or alone (history)

catalogueVars == <<book, thumbnail, linked, links, image, cloud, uploads, holder,
                   reviews, task, named>>
rows == <<book, thumbnail, links>>
shop == <<holder, reviews>>

NoBook == "no book"
NoTask == [pc |-> "idle", book |-> NoBook, labels |-> {}, keep |-> FALSE,
           new |-> NoPicture, old |-> {}]

CatalogueInit ==
    /\ book = [b \in Book |-> "none"]
    /\ thumbnail = [b \in Book |-> NoPicture]
    /\ linked = {}
    /\ links = {}
    /\ image = [p \in Picture |-> NoBook]
    /\ cloud = {}
    /\ uploads = 0
    /\ holder = [b \in Book |-> "none"]
    /\ reviews = {}
    /\ task = [a \in Admin |-> NoTask]
    /\ named = {}

Live(b) == book[b] = "live"
Doing(a, pc) == task[a].pc = pc

\* The next step of a, and the pictures it is about; what it no longer needs
\* to know is forgotten.
Then(a, pc, new, old) ==
    task' = [task EXCEPT ![a] = [NoTask EXCEPT !.pc = pc, !.book = task[a].book,
                                               !.new = new, !.old = old]]
Done(a) == task' = [task EXCEPT ![a] = NoTask]
StartTask(a, t) == Doing(a, "idle") /\ task' = [task EXCEPT ![a] = t]

\* destroy and delete_resources succeed on what is not there.
Destroy(S) == cloud' = cloud \ S

-----------------------------------------------------------------------------
(* Uploads, shared by the handlers.                                        *)

Upload(a) ==
    /\ task[a].pc \in {"upload to create", "upload to update", "upload image"}
    /\ uploads < Pictures
    /\ uploads' = uploads + 1
    /\ cloud' = cloud \cup {uploads + 1}
    /\ task' = [task EXCEPT ![a].new = uploads + 1,
                            ![a].pc = CASE Doing(a, "upload to create") -> "create"
                                        [] Doing(a, "upload to update") -> "update"
                                        [] OTHER -> "image row"]
    /\ UNCHANGED <<rows, linked, image, shop, named>>

\* A request that meets an error, or dies with the process. What it has
\* uploaded so far stays.
TaskFails(a) ==
    /\ ~Doing(a, "idle")
    /\ Done(a)
    /\ UNCHANGED <<rows, linked, image, cloud, uploads, shop, named>>

-----------------------------------------------------------------------------
(* createBook and updateBook.                                              *)

LinksOf(b, S) == {b} \X S
OtherLinks(b, S) == {x \in links : ~(x[1] = b /\ x[2] \in S)}

\* The labels asked for are counted among those that exist.
CreateBook(a, b, L) ==
    /\ book[b] = "none"
    /\ \A i \in Admin : task[i].book # b
    /\ L \subseteq linked \cap Label
    /\ StartTask(a, [NoTask EXCEPT !.pc = "upload to create", !.book = b, !.labels = L])
    /\ UNCHANGED <<rows, linked, image, cloud, uploads, shop, named>>

\* One nested create: a label deleted meanwhile fails all of it.
CreateRow(a) ==
    /\ Doing(a, "create")
    /\ LET b == task[a].book
       IN  IF task[a].labels \subseteq linked
           THEN /\ book' = [book EXCEPT ![b] = "live"]
                /\ thumbnail' = [thumbnail EXCEPT ![b] = task[a].new]
                /\ links' = links \cup LinksOf(b, task[a].labels)
           ELSE UNCHANGED rows
    /\ Done(a)
    /\ UNCHANGED <<linked, image, cloud, uploads, shop, named>>

\* With a file the book is read for the picture to drop. Without one it is not,
\* and the thumbnail is the client's own text, if there is one: any address.
\* keep: the request leaves the labels as they are.
UpdateBook(a, b, L, keep) ==
    /\ L \subseteq linked \cap Label
    /\ \/ /\ Live(b)
          /\ StartTask(a, [NoTask EXCEPT !.pc = "upload to update", !.book = b,
                               !.labels = L, !.keep = keep, !.old = {thumbnail[b]} \cap Picture])
          /\ named' = named
       \/ /\ book[b] # "none"
          /\ \E text \in (1..uploads) \cup {NoPicture, Elsewhere} :
                /\ StartTask(a, [NoTask EXCEPT !.pc = "update", !.book = b, !.labels = L,
                                     !.keep = keep, !.new = text])
                /\ named' = named \cup ({text} \cap Picture)
    /\ UNCHANGED <<rows, linked, image, cloud, uploads, shop>>

\* Mutant: the old picture is dropped before the row is written.
UpdateRow_DropFirst(a) ==
    /\ Doing(a, "update")
    /\ Destroy(task[a].old)
    /\ IF task[a].old # {}
       THEN thumbnail' = thumbnail /\ task' = [task EXCEPT ![a].old = {}]
       ELSE /\ thumbnail' = IF Live(task[a].book) /\ task[a].new # NoPicture
                            THEN [thumbnail EXCEPT ![task[a].book] = task[a].new] ELSE thumbnail
            /\ Done(a)
    /\ UNCHANGED <<book, links, linked, image, uploads, shop, named>>

\* One update with nested deleteMany and create: all of it or nothing. No text
\* leaves the thumbnail as it is.
UpdateRow(a) ==
    /\ Doing(a, "update")
    /\ LET b == task[a].book
           new == task[a].new
       IN  IF Live(b) /\ task[a].labels \subseteq linked
           THEN /\ links' = IF task[a].keep THEN links
                            ELSE OtherLinks(b, Label) \cup LinksOf(b, task[a].labels)
                /\ thumbnail' = IF new = NoPicture THEN thumbnail
                                ELSE [thumbnail EXCEPT ![b] = new]
                /\ IF task[a].old = {} THEN Done(a)
                   ELSE Then(a, "drop old", NoPicture, task[a].old)
           ELSE links' = links /\ thumbnail' = thumbnail /\ Done(a)
    /\ UNCHANGED <<book, linked, image, cloud, uploads, shop, named>>

\* Not awaited, and an error is only logged.
DropOld(a) ==
    /\ Doing(a, "drop old")
    /\ Destroy(task[a].old)
    /\ Done(a)
    /\ UNCHANGED <<rows, linked, image, uploads, shop, named>>

-----------------------------------------------------------------------------
(* deleteBook.                                                             *)

DeleteBook(a, b) ==
    /\ Live(b)
    /\ StartTask(a, [NoTask EXCEPT !.pc = "read images", !.book = b, !.new = thumbnail[b]])
    /\ named' = named \cup ({thumbnail[b]} \cap Picture)
    /\ UNCHANGED <<rows, linked, image, cloud, uploads, shop>>

DeleteReadsImages(a) ==
    /\ Doing(a, "read images")
    /\ LET shown == {p \in Picture : image[p] = task[a].book}
       IN  Then(a, "delete images", task[a].new, shown) /\ named' = named \cup shown
    /\ UNCHANGED <<rows, linked, image, cloud, uploads, shop>>

\* An error of Cloudinary is logged, and the rows go all the same.
DeleteImages(a) ==
    /\ Doing(a, "delete images")
    /\ Destroy(task[a].old) \/ cloud' = cloud
    /\ Then(a, "delete image rows", task[a].new, {})
    /\ UNCHANGED <<rows, linked, image, uploads, shop, named>>

\* All rows of the book, also those added since they were read.
DeleteImageRows(a) ==
    /\ Doing(a, "delete image rows")
    /\ image' = [p \in Picture |-> IF image[p] = task[a].book THEN NoBook ELSE image[p]]
    /\ Then(a, "delete thumbnail", task[a].new, {})
    /\ UNCHANGED <<rows, linked, cloud, uploads, shop, named>>

DeleteThumbnail(a) ==
    /\ Doing(a, "delete thumbnail")
    /\ Destroy({task[a].new})
    /\ Then(a, "delete row", NoPicture, {})
    /\ UNCHANGED <<rows, linked, image, uploads, shop, named>>

\* Mutant: order items do not hold their book (onDelete: Cascade).
DeleteRow_Cascades(a) ==
    /\ Doing(a, "delete row")
    /\ LET b == task[a].book
       IN  /\ book' = [book EXCEPT ![b] = "gone"]
           /\ links' = OtherLinks(b, Label \cup Promotion)
           /\ image' = [p \in Picture |-> IF image[p] = b THEN NoBook ELSE image[p]]
    /\ Done(a)
    /\ UNCHANGED <<thumbnail, linked, cloud, uploads, shop, named>>

\* The transaction: links, row, and by cascade image rows and reviews. An order
\* item or a cart item of the book makes it fail, when the pictures are gone.
DeleteRow(a) ==
    /\ Doing(a, "delete row")
    /\ LET b == task[a].book
       IN  IF Live(b) /\ holder[b] = "none"
           THEN /\ book' = [book EXCEPT ![b] = "gone"]
                /\ links' = OtherLinks(b, Label \cup Promotion)
                /\ image' = [p \in Picture |-> IF image[p] = b THEN NoBook ELSE image[p]]
                /\ reviews' = reviews \ {b}
           ELSE UNCHANGED <<book, links, image, reviews>>
    /\ Done(a)
    /\ UNCHANGED <<thumbnail, linked, cloud, uploads, holder, named>>

-----------------------------------------------------------------------------
(* The images of a book.                                                   *)

AddImage(a, b) ==
    /\ Live(b)
    /\ StartTask(a, [NoTask EXCEPT !.pc = "upload image", !.book = b])
    /\ UNCHANGED <<rows, linked, image, cloud, uploads, shop, named>>

AddImageRow(a) ==
    /\ Doing(a, "image row")
    /\ image' = IF Live(task[a].book) THEN [image EXCEPT ![task[a].new] = task[a].book]
                ELSE image
    /\ Done(a)
    /\ UNCHANGED <<rows, linked, cloud, uploads, shop, named>>

\* By public ids: the pictures go first, the rows after them. Nobody asks whether
\* there are rows: the ids are the client's, and may be those of thumbnails.
DropPictures(a, P) ==
    /\ StartTask(a, [NoTask EXCEPT !.pc = "drop image row", !.old = P])
    /\ named' = named \cup P
    /\ Destroy(P)
    /\ UNCHANGED <<rows, linked, image, uploads, shop>>

\* By the id of a row, which is read for its public id.
DropImage(a, p) == image[p] # NoBook /\ DropPictures(a, {p})

DropImageRow(a) ==
    /\ Doing(a, "drop image row")
    /\ image' = [p \in Picture |-> IF p \in task[a].old THEN NoBook ELSE image[p]]
    /\ Done(a)
    /\ UNCHANGED <<rows, linked, cloud, uploads, shop, named>>

-----------------------------------------------------------------------------
(* Categories, authors, promotions.                                        *)

CreateLabel(l) ==
    /\ l \notin linked
    /\ linked' = linked \cup {l}
    /\ UNCHANGED <<rows, image, cloud, uploads, shop, task, named>>

\* The transaction removes the links and then the row.
DeleteLinked(l) ==
    /\ l \in linked
    /\ linked' = linked \ {l}
    /\ links' = {x \in links : x[2] # l}
    /\ UNCHANGED <<book, thumbnail, image, cloud, uploads, shop, task, named>>

\* Nobody asks whether the books exist, the foreign key does.
CreatePromotion(q, B) ==
    /\ q \notin linked
    /\ \A b \in B : Live(b)
    /\ linked' = linked \cup {q}
    /\ links' = links \cup (B \X {q})
    /\ UNCHANGED <<book, thumbnail, image, cloud, uploads, shop, task, named>>

\* With bookIds; without them the links stay.
UpdatePromotion(q, B) ==
    /\ q \in linked
    /\ \A b \in B : Live(b)
    /\ links' = {x \in links : x[2] # q} \cup (B \X {q})
    /\ UNCHANGED <<book, thumbnail, linked, image, cloud, uploads, shop, task, named>>

-----------------------------------------------------------------------------
(* What customers do with a book.                                          *)

\* Cart items come and go; order items stay for good, and the order is
\* delivered, returned or set by hand.
UseBook(b) ==
    /\ Live(b)
    /\ \/ /\ holder[b] \in {"none", "cart"}
          /\ \E h \in {"none", "cart"} : holder' = [holder EXCEPT ![b] = h]
       \/ /\ holder[b] # "none"
          /\ \E h \in {"order", "delivered"} : holder' = [holder EXCEPT ![b] = h]
    /\ UNCHANGED <<rows, linked, image, cloud, uploads, reviews, task, named>>

\* A delivered order has the book, and (userId, bookId) is unique: the second of
\* two reviews sent at once fails on the key.
Review(b) ==
    /\ Live(b)
    /\ holder[b] = "delivered"
    /\ b \notin reviews
    /\ reviews' = reviews \cup {b}
    /\ UNCHANGED <<rows, linked, image, cloud, uploads, holder, task, named>>

Unreview(b) ==
    /\ b \in reviews
    /\ reviews' = reviews \ {b}
    /\ UNCHANGED <<rows, linked, image, cloud, uploads, holder, task, named>>

-----------------------------------------------------------------------------
Handle(a) ==
    \/ Upload(a) \/ TaskFails(a)
    \/ CreateRow(a) \/ UpdateRow(a) \/ DropOld(a)
    \/ DeleteReadsImages(a) \/ DeleteImages(a) \/ DeleteImageRows(a)
    \/ DeleteThumbnail(a) \/ DeleteRow(a)
    \/ AddImageRow(a) \/ DropImageRow(a)

CatalogueNext ==
    \/ \E a \in Admin :
          \/ Handle(a)
          \/ \E b \in Book :
                \/ \E L \in SUBSET Label : CreateBook(a, b, L)
                \/ \E L \in SUBSET Label : UpdateBook(a, b, L, FALSE)
                \/ UpdateBook(a, b, {}, TRUE)
                \/ DeleteBook(a, b) \/ AddImage(a, b)
          \/ \E P \in SUBSET (1..uploads) \ {{}} : DropPictures(a, P)
          \/ \E p \in Picture : DropImage(a, p)
    \/ \E l \in Label : CreateLabel(l) \/ DeleteLinked(l)
    \/ \E q \in Promotion : DeleteLinked(q)
    \/ \E q \in Promotion, B \in SUBSET Book : CreatePromotion(q, B) \/ UpdatePromotion(q, B)
    \/ \E b \in Book : UseBook(b) \/ Review(b) \/ Unreview(b)

-----------------------------------------------------------------------------
CatalogueTypeOK ==
    /\ book \in [Book -> {"none", "live", "gone"}]
    /\ thumbnail \in [Book -> Address]
    /\ linked \subseteq Label \cup Promotion
    /\ links \subseteq {b \in Book : Live(b)} \X linked
    /\ image \in [Picture -> {b \in Book : Live(b)} \cup {NoBook}]
    /\ cloud \subseteq 1..uploads
    /\ holder \in [Book -> {"none", "cart", "order", "delivered"}]
    /\ \A b \in Book : holder[b] # "none" => Live(b)
    /\ reviews \subseteq {b \in Book : Live(b)}
    /\ named \subseteq 1..uploads

\* A live book shows no picture that Cloudinary has lost, however updates with and
\* without a file, new images and failures interleave: a picture goes only with
\* the update that has replaced it, or when a request named it. Pictures that were
\* named are not counted: a text may put one on a second book, and to remove a
\* picture by its id, or with a book that then stays after all, takes it first.
ShownPicturesExist ==
    \A b \in Book : Live(b) =>
        /\ thumbnail[b] \in Picture \ named => thumbnail[b] \in cloud
        /\ \A p \in Picture \ named : image[p] = b => p \in cloud
=============================================================================
