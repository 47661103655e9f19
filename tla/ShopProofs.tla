----------------------------- MODULE ShopProofs -----------------------------
(* What a shop window shows and what a customer pays.                       *)
(*                                                                          *)
(* Catalogue: a picture is dropped by a request that has taken it off its   *)
(* book, or because a request named it. Of the pictures nobody has named    *)
(* the invariant says who knows which: a fresh one is of one request and of *)
(* no row, a picture is shown in one place, and what an update will drop is *)
(* its own book's.                                                          *)
(*                                                                          *)
(* Carts: a book that did not race is in at most one checkout, which has    *)
(* read the row that is there; ids are never used again, so the clean-up    *)
(* by id finds these rows and no other.                                     *)
(*                                                                          *)
(* The amounts are folds over the lines: that the folds are well defined    *)
(* and compare is proved by counting the lines.                             *)
(*                                                                          *)
(* Listing: by cursor the client has all rows down to the cursor's, by      *)
(* number the first rows of the list and none of the others, but for rows   *)
(* that a tie has carried over the border between them.                     *)
EXTENDS MCShop, FiniteSetTheorems, NaturalsInduction, WellFoundedInduction, TLAPS

-----------------------------------------------------------------------------
(* The catalogue: what requests know, and whose a picture is.              *)

Pcs == {"idle", "upload to create", "create", "upload to update", "update", "drop old",
        "read images", "delete images", "delete image rows", "delete thumbnail",
        "delete row", "upload image", "image row", "drop image row"}
TaskType == [pc : Pcs, book : Book \cup {NoBook}, labels : SUBSET Label, keep : BOOLEAN,
             new : Address, old : SUBSET Picture]

\* What is known of a request: an update with a file has a picture to write, and
\* what a deletion takes away was named.
Replacing(a) == task[a].pc \in {"upload to update", "update", "drop old"}
Deleting(a) == task[a].pc \in {"read images", "delete images", "delete image rows",
                               "delete thumbnail"}
Fresh(a) == task[a].pc \in {"create", "update", "image row"} /\ task[a].new \in Picture \ named

Knows(a) ==
    /\ task[a].pc \notin {"idle", "drop image row"} => task[a].book \in Book
    /\ task[a].pc \in {"create", "image row"} => task[a].new \in Picture
    /\ task[a].pc = "update" /\ task[a].old # {} => task[a].new # NoPicture
    /\ Deleting(a) => task[a].new \in named \cup {NoPicture, Elsewhere}
    /\ task[a].pc = "delete images" => task[a].old \subseteq named
TasksKnow ==
    /\ task \in [Admin -> TaskType]
    /\ uploads \in 0..Pictures
    /\ \A a \in Admin : Knows(a)

\* The uploads so far are all that anything refers to.
Known(p) == p \in Picture => p <= uploads
KnownTo(a) == Known(task[a].new) /\ \A p \in task[a].old : Known(p)
OnlyUploads ==
    /\ \A b \in Book : Known(thumbnail[b])
    /\ \A p \in Picture : image[p] # NoBook => Known(p)
    /\ \A a \in Admin : KnownTo(a)

\* A picture no row has yet is in the cloud, and nobody else will use or drop it.
Spare(a) ==
    Fresh(a) =>
        /\ task[a].new \in cloud
        /\ image[task[a].new] = NoBook
        /\ \A b \in Book : thumbnail[b] # task[a].new
        /\ \A i \in Admin : task[a].new \notin task[i].old /\ (i # a => task[i].new # task[a].new)
FreshIsNobodys == \A a \in Admin : Spare(a)

\* A picture is shown in one place.
OnePlace ==
    \A b \in Book : thumbnail[b] \in Picture \ named =>
        /\ image[thumbnail[b]] = NoBook
        /\ \A c \in Book \ {b} : thumbnail[c] # thumbnail[b]

\* What an update will drop is the picture of its book and of nothing else, and
\* once it has written the row, not even of that.
Drops(a) ==
    Replacing(a) => \A p \in task[a].old \ named :
        /\ image[p] = NoBook
        /\ \A b \in Book : thumbnail[b] = p => b = task[a].book /\ task[a].pc # "drop old"
DropsOwn == \A a \in Admin : Drops(a)

PicturesInv ==
    /\ TasksKnow
    /\ OnlyUploads
    /\ FreshIsNobodys
    /\ OnePlace
    /\ DropsOwn
    /\ ShownPicturesExist
CatalogueInv == CatalogueTypeOK /\ PicturesInv

Turns(a, pc, b, new, old) ==
    /\ task' \in [Admin -> TaskType]
    /\ \A i \in Admin \ {a} : task'[i] = task[i]
    /\ task'[a].pc = pc /\ task'[a].book = b /\ task'[a].new = new /\ task'[a].old = old

\* No text and no other address is a picture.
LEMMA NoPictures == NoPicture \notin Picture /\ Elsewhere \notin Picture
  BY CatalogueAssumption DEF Picture

\* A request that does nothing is a task.
LEMMA NoTaskTyped == NoTask \in TaskType
  BY DEF NoTask, TaskType, Pcs, Address

LEMMA TaskTyped == TasksKnow => task \in [Admin -> TaskType]
  BY DEF TasksKnow, Knows

LEMMA NoTaskIs ==
  \E y \in TaskType : y = NoTask /\ y.book = NoBook /\ y.new = NoPicture /\ y.old = {}
  <1>1. NoTask.book = NoBook /\ NoTask.new = NoPicture /\ NoTask.old = {}
    BY DEF NoTask
  <1>2. QED
    BY <1>1, NoTaskTyped

\* A request starts as what it is asked for.
LEMMA StartsTask ==
  ASSUME TasksKnow, NEW a \in Admin, NEW x \in TaskType, StartTask(a, x)
  PROVE  Turns(a, x.pc, x.book, x.new, x.old) /\ task[a].pc = "idle"
  <1>1. task' = [task EXCEPT ![a] = x] /\ task[a].pc = "idle"
    BY DEF StartTask, Doing
  <1>2. QED
    BY <1>1, TaskTyped DEF Turns

\* A request ends with nothing in its hands.
LEMMA DoneTurns ==
  ASSUME TasksKnow, NEW a \in Admin, Done(a) PROVE Turns(a, "idle", NoBook, NoPicture, {})
  <1>1. PICK x : x = NoTask
    OBVIOUS
  <1>2. x \in TaskType /\ x.pc = "idle" /\ x.book = NoBook /\ x.new = NoPicture /\ x.old = {}
    BY <1>1, NoTaskTyped DEF NoTask
  <1>3. task' = [task EXCEPT ![a] = x]
    BY <1>1 DEF Done
  <1>4. QED
    BY <1>2, <1>3, TaskTyped DEF Turns

\* A request goes on with the same book.
LEMMA ThenTurns ==
  ASSUME TasksKnow, NEW a \in Admin, NEW pc \in Pcs, NEW new \in Address,
         NEW old \in SUBSET Picture, Then(a, pc, new, old)
  PROVE  Turns(a, pc, task[a].book, new, old)
  <1>1. PICK y \in TaskType : y = NoTask
    BY NoTaskTyped
  <1>2. PICK b \in Book \cup {NoBook} : b = task[a].book
    BY TaskTyped DEF TaskType
  <1>3. PICK x : x = [y EXCEPT !.pc = pc, !.book = b, !.new = new, !.old = old]
    OBVIOUS
  <1>4. x \in TaskType /\ x.pc = pc /\ x.book = b /\ x.new = new /\ x.old = old
    BY <1>3 DEF TaskType
  <1>5. task' = [task EXCEPT ![a] = x]
    BY <1>1, <1>2, <1>3 DEF Then
  <1>6. QED
    BY <1>2, <1>4, <1>5, TaskTyped DEF Turns

\* What each action does to the requests and to the pictures.
PictureRows == <<book, thumbnail, image, cloud, uploads, named>>

LEMMA UploadIs ==
  ASSUME TasksKnow, NEW a \in Admin, Upload(a)
  PROVE  /\ uploads + 1 \in Picture /\ uploads' = uploads + 1
         /\ cloud' = cloud \cup {uploads + 1}
         /\ UNCHANGED <<book, thumbnail, image, named>>
         /\ \/ task[a].pc = "upload to create" /\ Turns(a, "create", task[a].book, uploads + 1, task[a].old)
            \/ task[a].pc = "upload to update" /\ Turns(a, "update", task[a].book, uploads + 1, task[a].old)
            \/ task[a].pc = "upload image" /\ Turns(a, "image row", task[a].book, uploads + 1, task[a].old)
  <1>1. uploads + 1 \in Picture
    <2>1. uploads < Pictures /\ uploads \in 0..Pictures /\ Pictures \in Nat
      BY CatalogueAssumption DEF Upload, TasksKnow
    <2>2. QED
      BY <2>1 DEF Picture
  <1>2. PICK x \in TaskType : x = task[a]
    BY TaskTyped
  <1>3. PICK pc : pc = CASE Doing(a, "upload to create") -> "create"
                         [] Doing(a, "upload to update") -> "update"
                         [] OTHER -> "image row"
    OBVIOUS
  <1>4. PICK y : y = [x EXCEPT !.new = uploads + 1, !.pc = pc]
    OBVIOUS
  <1>5. \/ task[a].pc = "upload to create" /\ pc = "create"
        \/ task[a].pc = "upload to update" /\ pc = "update"
        \/ task[a].pc = "upload image" /\ pc = "image row"
    BY <1>3 DEF Upload, Doing
  <1>6. pc \in Pcs
    BY <1>5 DEF Pcs
  <1>7. y \in TaskType /\ y.pc = pc /\ y.book = x.book /\ y.new = uploads + 1 /\ y.old = x.old
    BY <1>1, <1>4, <1>6 DEF TaskType, Address
  <1>8. task' = [task EXCEPT ![a] = y]
    <2>1. task' = [task EXCEPT ![a].new = uploads + 1, ![a].pc = pc]
      BY <1>3 DEF Upload
    <2>2. QED
      BY <1>2, <1>4, <2>1, TaskTyped
  <1>9. Turns(a, pc, task[a].book, uploads + 1, task[a].old)
    BY <1>2, <1>7, <1>8, TaskTyped DEF Turns
  <1>10. QED
    BY <1>1, <1>5, <1>9 DEF Upload, rows

LEMMA TaskFailsIs ==
  ASSUME TasksKnow, NEW a \in Admin, TaskFails(a)
  PROVE  Turns(a, "idle", NoBook, NoPicture, {}) /\ UNCHANGED PictureRows
  BY DoneTurns DEF TaskFails, rows, PictureRows

LEMMA CreateBookIs ==
  ASSUME TasksKnow, NEW a \in Admin, NEW b \in Book, NEW L \in SUBSET Label, CreateBook(a, b, L)
  PROVE  /\ task[a].pc = "idle" /\ Turns(a, "upload to create", b, NoPicture, {})
         /\ UNCHANGED PictureRows
  <1>1. PICK y \in TaskType : y = NoTask /\ y.book = NoBook /\ y.new = NoPicture /\ y.old = {}
    BY NoTaskIs
  <1>2. PICK x : x = [y EXCEPT !.pc = "upload to create", !.book = b, !.labels = L]
    OBVIOUS
  <1>3. "upload to create" \in Pcs
    BY DEF Pcs
  <1>4. x \in TaskType /\ x.pc = "upload to create" /\ x.book = b /\ x.new = NoPicture /\ x.old = {}
    BY <1>1, <1>2, <1>3 DEF TaskType
  <1>5. StartTask(a, x)
    BY <1>1, <1>2 DEF CreateBook
  <1>6. Turns(a, "upload to create", b, NoPicture, {}) /\ task[a].pc = "idle"
    BY <1>4, <1>5, StartsTask
  <1>7. QED
    BY <1>6 DEF CreateBook, rows, PictureRows

LEMMA CreateRowIs ==
  ASSUME TasksKnow, NEW a \in Admin, CreateRow(a)
  PROVE  /\ task[a].pc = "create" /\ Turns(a, "idle", NoBook, NoPicture, {})
         /\ UNCHANGED <<image, cloud, uploads, named>>
         /\ \/ /\ book' = [book EXCEPT ![task[a].book] = "live"]
               /\ thumbnail' = [thumbnail EXCEPT ![task[a].book] = task[a].new]
            \/ UNCHANGED <<book, thumbnail>>
  BY DoneTurns DEF CreateRow, rows, Doing

LEMMA UpdateBookIs ==
  ASSUME TasksKnow, NEW a \in Admin, NEW b \in Book, NEW L \in SUBSET Label,
         NEW keep \in BOOLEAN, UpdateBook(a, b, L, keep)
  PROVE  /\ UNCHANGED <<book, thumbnail, image, cloud, uploads>>
         /\ \/ /\ Turns(a, "upload to update", b, NoPicture, {thumbnail[b]} \cap Picture)
               /\ named' = named
            \/ \E text \in (1..uploads) \cup {NoPicture, Elsewhere} :
                  Turns(a, "update", b, text, {}) /\ named' = named \cup ({text} \cap Picture)
  <1>1. UNCHANGED <<book, thumbnail, image, cloud, uploads>>
    BY DEF UpdateBook, rows
  <1>p. "upload to update" \in Pcs /\ "update" \in Pcs /\ NoPicture \in Address
    BY DEF Pcs, Address
  <1>2. ASSUME StartTask(a, [NoTask EXCEPT !.pc = "upload to update", !.book = b,
                               !.labels = L, !.keep = keep, !.old = {thumbnail[b]} \cap Picture])
        PROVE  Turns(a, "upload to update", b, NoPicture, {thumbnail[b]} \cap Picture)
    <2>1. PICK S \in SUBSET Picture : S = {thumbnail[b]} \cap Picture
      OBVIOUS
    <2>y. PICK y \in TaskType : y = NoTask /\ y.book = NoBook /\ y.new = NoPicture /\ y.old = {}
      BY NoTaskIs
    <2>3. PICK x : x = [y EXCEPT !.pc = "upload to update", !.book = b, !.labels = L,
                                 !.keep = keep, !.old = S]
      OBVIOUS
    <2>4. /\ x \in TaskType /\ x.pc = "upload to update" /\ x.book = b
          /\ x.new = NoPicture /\ x.old = S
      BY <1>p, <2>y, <2>3 DEF TaskType
    <2>5. StartTask(a, x)
      BY <1>2, <2>1, <2>y, <2>3
    <2>6. QED
      BY <2>1, <2>4, <2>5, StartsTask
  <1>3. ASSUME NEW text \in (1..uploads) \cup {NoPicture, Elsewhere},
               StartTask(a, [NoTask EXCEPT !.pc = "update", !.book = b, !.labels = L,
                                !.keep = keep, !.new = text])
        PROVE  Turns(a, "update", b, text, {})
    <2>1. PICK y \in TaskType : y = NoTask /\ y.book = NoBook /\ y.new = NoPicture /\ y.old = {}
      BY NoTaskIs
    <2>t. text \in Address
      <3>1. uploads \in 0..Pictures /\ Pictures \in Nat
        BY CatalogueAssumption DEF TasksKnow
      <3>2. QED
        BY <3>1 DEF Address, Picture
    <2>2. PICK x : x = [y EXCEPT !.pc = "update", !.book = b, !.labels = L, !.keep = keep,
                                 !.new = text]
      OBVIOUS
    <2>3. /\ x \in TaskType /\ x.pc = "update" /\ x.book = b /\ x.new = text /\ x.old = {}
      BY <1>p, <2>1, <2>t, <2>2 DEF TaskType
    <2>4. StartTask(a, x)
      BY <1>3, <2>1, <2>2
    <2>5. QED
      BY <2>3, <2>4, StartsTask
  <1>4. QED
    BY <1>1, <1>2, <1>3 DEF UpdateBook

LEMMA UpdateRowIs ==
  ASSUME TasksKnow, NEW a \in Admin, UpdateRow(a)
  PROVE  /\ task[a].pc = "update"
         /\ UNCHANGED <<book, image, cloud, uploads, named>>
         /\ \/ /\ thumbnail' \in {thumbnail, [thumbnail EXCEPT ![task[a].book] = task[a].new]}
               /\ Turns(a, "idle", NoBook, NoPicture, {})
            \/ /\ thumbnail' = [thumbnail EXCEPT ![task[a].book] = task[a].new]
               /\ Turns(a, "drop old", task[a].book, NoPicture, task[a].old)
  <1>1. task[a].pc = "update" /\ UNCHANGED <<book, image, cloud, uploads, named>>
    BY DEF UpdateRow, Doing
  <1>2. CASE /\ thumbnail' \in {thumbnail, [thumbnail EXCEPT ![task[a].book] = task[a].new]}
             /\ Done(a)
    BY <1>1, <1>2, DoneTurns
  <1>3. CASE /\ thumbnail' = IF task[a].new = NoPicture THEN thumbnail
                             ELSE [thumbnail EXCEPT ![task[a].book] = task[a].new]
             /\ task[a].old # {}
             /\ Then(a, "drop old", NoPicture, task[a].old)
    <2>1. "drop old" \in Pcs /\ task[a].old \in SUBSET Picture /\ NoPicture \in Address
      BY TaskTyped DEF Pcs, TaskType, Address
    <2>2. Turns(a, "drop old", task[a].book, NoPicture, task[a].old)
      BY <1>3, <2>1, ThenTurns
    <2>3. task[a].new # NoPicture
      BY <1>1, <1>3 DEF TasksKnow, Knows
    <2>4. QED
      BY <1>1, <1>3, <2>2, <2>3
  <1>4. QED
    BY <1>2, <1>3 DEF UpdateRow

LEMMA DropOldIs ==
  ASSUME TasksKnow, NEW a \in Admin, DropOld(a)
  PROVE  /\ task[a].pc = "drop old" /\ Turns(a, "idle", NoBook, NoPicture, {})
         /\ cloud' = cloud \ task[a].old
         /\ UNCHANGED <<book, thumbnail, image, uploads, named>>
  BY DoneTurns DEF DropOld, Destroy, Doing, rows

LEMMA DeleteBookIs ==
  ASSUME CatalogueTypeOK, TasksKnow, NEW a \in Admin, NEW b \in Book, DeleteBook(a, b)
  PROVE  /\ Turns(a, "read images", b, thumbnail[b], {})
         /\ named' = named \cup ({thumbnail[b]} \cap Picture)
         /\ UNCHANGED <<book, thumbnail, image, cloud, uploads>>
  <1>a. PICK p : p = thumbnail[b]
    OBVIOUS
  <1>b. p \in Address
    BY <1>a DEF CatalogueTypeOK
  <1>1. PICK y \in TaskType : y = NoTask /\ y.book = NoBook /\ y.new = NoPicture /\ y.old = {}
    BY NoTaskIs
  <1>2. PICK x : x = [y EXCEPT !.pc = "read images", !.book = b, !.new = p]
    OBVIOUS
  <1>3. "read images" \in Pcs
    BY DEF Pcs
  <1>4. x \in TaskType /\ x.pc = "read images" /\ x.book = b /\ x.new = p /\ x.old = {}
    BY <1>a, <1>b, <1>1, <1>2, <1>3 DEF TaskType
  <1>5. StartTask(a, x)
    BY <1>a, <1>b, <1>1, <1>2 DEF DeleteBook
  <1>6. Turns(a, "read images", b, p, {})
    BY <1>4, <1>5, StartsTask
  <1>7. QED
    BY <1>a, <1>b, <1>6 DEF DeleteBook, rows

LEMMA DeletionIs ==
  ASSUME TasksKnow, NEW a \in Admin,
         DeleteReadsImages(a) \/ DeleteImages(a) \/ DeleteImageRows(a) \/ DeleteThumbnail(a)
  PROVE  /\ UNCHANGED <<book, thumbnail, uploads>>
         /\ task[a].pc # "read images" => named' = named
         /\ \/ /\ task[a].pc = "read images" /\ UNCHANGED <<image, cloud>>
               /\ named' = named \cup {p \in Picture : image[p] = task[a].book}
               /\ Turns(a, "delete images", task[a].book, task[a].new,
                        {p \in Picture : image[p] = task[a].book})
            \/ /\ task[a].pc = "delete images" /\ image' = image
               /\ cloud' \in {cloud, cloud \ task[a].old}
               /\ Turns(a, "delete image rows", task[a].book, task[a].new, {})
            \/ /\ task[a].pc = "delete image rows" /\ cloud' = cloud
               /\ image' = [p \in Picture |-> IF image[p] = task[a].book THEN NoBook ELSE image[p]]
               /\ Turns(a, "delete thumbnail", task[a].book, task[a].new, {})
            \/ /\ task[a].pc = "delete thumbnail" /\ image' = image
               /\ cloud' = cloud \ {task[a].new}
               /\ Turns(a, "delete row", task[a].book, NoPicture, {})
  <1>p. /\ "delete images" \in Pcs /\ "delete image rows" \in Pcs /\ "delete thumbnail" \in Pcs
        /\ "delete row" \in Pcs /\ task[a].new \in Address
        /\ {} \in SUBSET Picture /\ NoPicture \in Address
    BY TaskTyped DEF Pcs, TaskType, Address
  <1>u. UNCHANGED <<book, thumbnail, uploads>>
    BY DEF DeleteReadsImages, DeleteImages, DeleteImageRows, DeleteThumbnail, rows
  <1>1. CASE DeleteReadsImages(a)
    <2>1. PICK S : S = {p \in Picture : image[p] = task[a].book}
      OBVIOUS
    <2>2. S \in SUBSET Picture
      BY <2>1
    <2>3. Then(a, "delete images", task[a].new, S) /\ named' = named \cup S
      BY <1>1, <2>1 DEF DeleteReadsImages
    <2>4. Turns(a, "delete images", task[a].book, task[a].new, S)
      BY <1>p, <2>2, <2>3, ThenTurns
    <2>5. QED
      BY <1>1, <1>u, <2>1, <2>3, <2>4 DEF DeleteReadsImages, Doing
  <1>2. CASE DeleteImages(a)
    <2>1. Turns(a, "delete image rows", task[a].book, task[a].new, {})
      BY <1>2, <1>p, ThenTurns DEF DeleteImages
    <2>2. QED
      BY <1>2, <1>u, <2>1 DEF DeleteImages, Doing, Destroy
  <1>3. CASE DeleteImageRows(a)
    <2>1. Turns(a, "delete thumbnail", task[a].book, task[a].new, {})
      BY <1>3, <1>p, ThenTurns DEF DeleteImageRows
    <2>2. QED
      BY <1>3, <1>u, <2>1 DEF DeleteImageRows, Doing
  <1>4. CASE DeleteThumbnail(a)
    <2>1. Turns(a, "delete row", task[a].book, NoPicture, {})
      BY <1>4, <1>p, ThenTurns DEF DeleteThumbnail
    <2>2. QED
      BY <1>4, <1>u, <2>1 DEF DeleteThumbnail, Doing, Destroy
  <1>5. QED
    BY <1>1, <1>2, <1>3, <1>4

LEMMA DeleteRowIs ==
  ASSUME TasksKnow, NEW a \in Admin, DeleteRow(a)
  PROVE  /\ task[a].pc = "delete row" /\ Turns(a, "idle", NoBook, NoPicture, {})
         /\ UNCHANGED <<thumbnail, cloud, uploads, named>>
         /\ \/ /\ book' = [book EXCEPT ![task[a].book] = "gone"]
               /\ image' = [p \in Picture |-> IF image[p] = task[a].book THEN NoBook ELSE image[p]]
            \/ UNCHANGED <<book, image>>
  BY DoneTurns DEF DeleteRow, Doing

LEMMA AddImageIs ==
  ASSUME TasksKnow, NEW a \in Admin, NEW b \in Book, AddImage(a, b)
  PROVE  /\ task[a].pc = "idle" /\ Turns(a, "upload image", b, NoPicture, {})
         /\ UNCHANGED PictureRows
  <1>1. PICK y \in TaskType : y = NoTask /\ y.book = NoBook /\ y.new = NoPicture /\ y.old = {}
    BY NoTaskIs
  <1>2. PICK x : x = [y EXCEPT !.pc = "upload image", !.book = b]
    OBVIOUS
  <1>3. "upload image" \in Pcs
    BY DEF Pcs
  <1>4. x \in TaskType /\ x.pc = "upload image" /\ x.book = b /\ x.new = NoPicture /\ x.old = {}
    BY <1>1, <1>2, <1>3 DEF TaskType
  <1>5. StartTask(a, x)
    BY <1>1, <1>2 DEF AddImage
  <1>6. Turns(a, "upload image", b, NoPicture, {}) /\ task[a].pc = "idle"
    BY <1>4, <1>5, StartsTask
  <1>7. QED
    BY <1>6 DEF AddImage, rows, PictureRows

LEMMA AddImageRowIs ==
  ASSUME TasksKnow, NEW a \in Admin, AddImageRow(a)
  PROVE  /\ task[a].pc = "image row" /\ Turns(a, "idle", NoBook, NoPicture, {})
         /\ UNCHANGED <<book, thumbnail, cloud, uploads, named>>
         /\ \/ image' = [image EXCEPT ![task[a].new] = task[a].book]
            \/ image' = image
  BY DoneTurns DEF AddImageRow, Doing, rows

LEMMA DropPicturesIs ==
  ASSUME TasksKnow, NEW a \in Admin, NEW P \in SUBSET Picture, DropPictures(a, P)
  PROVE  /\ Turns(a, "drop image row", NoBook, NoPicture, P)
         /\ named' = named \cup P /\ cloud' = cloud \ P
         /\ UNCHANGED <<book, thumbnail, image, uploads>>
  <1>1. PICK y \in TaskType : y = NoTask /\ y.book = NoBook /\ y.new = NoPicture /\ y.old = {}
    BY NoTaskIs
  <1>2. PICK x : x = [y EXCEPT !.pc = "drop image row", !.old = P]
    OBVIOUS
  <1>3. "drop image row" \in Pcs
    BY DEF Pcs
  <1>4. x \in TaskType /\ x.pc = "drop image row" /\ x.book = NoBook /\ x.new = NoPicture /\ x.old = P
    BY <1>1, <1>2, <1>3 DEF TaskType
  <1>5. StartTask(a, x)
    BY <1>1, <1>2 DEF DropPictures
  <1>6. Turns(a, "drop image row", NoBook, NoPicture, P)
    BY <1>4, <1>5, StartsTask
  <1>7. QED
    BY <1>6 DEF DropPictures, rows, Destroy

LEMMA DropImageRowIs ==
  ASSUME TasksKnow, NEW a \in Admin, DropImageRow(a)
  PROVE  /\ task[a].pc = "drop image row" /\ Turns(a, "idle", NoBook, NoPicture, {})
         /\ UNCHANGED <<book, thumbnail, cloud, uploads, named>>
         /\ image' = [p \in Picture |-> IF p \in task[a].old THEN NoBook ELSE image[p]]
  BY DoneTurns DEF DropImageRow, Doing, rows

\* The types, and the foreign keys with them, hold from the start.
LEMMA InitCatalogueTyped == CatalogueInit => CatalogueTypeOK
  BY DEF CatalogueInit, CatalogueTypeOK, Live, Address

\* Every handler keeps them.
LEMMA NextCatalogueTyped ==
  CatalogueTypeOK /\ TasksKnow /\ OnlyUploads /\ [CatalogueNext]_catalogueVars => CatalogueTypeOK'
  <1> SUFFICES ASSUME CatalogueTypeOK, TasksKnow, OnlyUploads, [CatalogueNext]_catalogueVars
               PROVE  CatalogueTypeOK'
    OBVIOUS
  <1> DEFINE Alive == {b \in Book : Live(b)}
  <1>t. /\ book \in [Book -> {"none", "live", "gone"}]
        /\ thumbnail \in [Book -> Address]
        /\ linked \subseteq Label \cup Promotion
        /\ links \subseteq Alive \X linked
        /\ image \in [Picture -> Alive \cup {NoBook}]
        /\ cloud \subseteq 1..uploads
        /\ holder \in [Book -> {"none", "cart", "order", "delivered"}]
        /\ \A b \in Book : holder[b] # "none" => Live(b)
        /\ reviews \subseteq Alive
        /\ named \subseteq 1..uploads
    BY DEF CatalogueTypeOK
  <1>u. uploads \in Nat
    <2>1. uploads \in 0..Pictures
      BY DEF TasksKnow, Knows
    <2>2. Pictures \in Nat
      BY CatalogueAssumption
    <2>3. QED
      BY <2>1, <2>2
  <1>s. ASSUME UNCHANGED <<book, thumbnail, linked, links, image, holder, reviews>>,
               cloud' \subseteq 1..uploads', named' \subseteq 1..uploads'
        PROVE  CatalogueTypeOK'
    BY <1>s DEF CatalogueTypeOK, Live
  <1>1. ASSUME NEW a \in Admin, Handle(a) PROVE CatalogueTypeOK'
    <2>1. CASE Upload(a) \/ TaskFails(a)
      <3>1. UNCHANGED <<book, thumbnail, linked, links, image, holder, reviews, named>>
        BY <2>1 DEF Upload, TaskFails, rows, shop
      <3>2. cloud' \subseteq 1..uploads' /\ named' \subseteq 1..uploads'
        <4>1. \/ uploads' = uploads /\ cloud' = cloud
              \/ uploads' = uploads + 1 /\ cloud' = cloud \cup {uploads + 1}
          BY <2>1 DEF Upload, TaskFails
        <4>2. 1..uploads \subseteq 1..(uploads + 1) /\ uploads + 1 \in 1..(uploads + 1)
          BY <1>u
        <4>3. QED
          BY <1>t, <3>1, <4>1, <4>2
      <3>3. QED
        BY <1>s, <3>1, <3>2
    <2>2. CASE CreateRow(a)
      <3>1. task[a].pc = "create" /\ task[a].book \in Book /\ task[a].new \in Picture
        BY <2>2, CreateRowIs DEF TasksKnow, Knows
      <3>2. CASE UNCHANGED rows
        BY <1>s, <1>t, <2>2, <3>2 DEF CreateRow, rows, shop
      <3>3. CASE /\ task[a].labels \subseteq linked
                 /\ book' = [book EXCEPT ![task[a].book] = "live"]
                 /\ thumbnail' = [thumbnail EXCEPT ![task[a].book] = task[a].new]
                 /\ links' = links \cup LinksOf(task[a].book, task[a].labels)
        <4>1. Alive \subseteq Alive' /\ task[a].book \in Alive'
          BY <1>t, <3>1, <3>3 DEF Live
        <4>2. UNCHANGED <<linked, image, cloud, uploads, holder, reviews, named>>
          BY <2>2 DEF CreateRow, shop
        <4>3. links' \subseteq Alive' \X linked'
          BY <1>t, <3>3, <4>1, <4>2 DEF LinksOf
        <4>4. image' \in [Picture -> Alive' \cup {NoBook}] /\ reviews' \subseteq Alive'
          BY <1>t, <4>1, <4>2
        <4>5. \A b \in Book : holder'[b] # "none" => Live(b)'
          BY <1>t, <4>1, <4>2
        <4>6. /\ book' \in [Book -> {"none", "live", "gone"}]
              /\ thumbnail' \in [Book -> Address]
          BY <1>t, <3>1, <3>3 DEF Address
        <4>7. QED
          BY <1>t, <4>2, <4>3, <4>4, <4>5, <4>6 DEF CatalogueTypeOK
      <3>4. QED
        BY <2>2, <3>2, <3>3 DEF CreateRow
    <2>3. CASE UpdateRow(a)
      <3>1. task[a].pc = "update" /\ task[a].book \in Book /\ task[a].new \in Address
        BY <2>3, UpdateRowIs, TaskTyped DEF TasksKnow, Knows, TaskType
      <3>2. UNCHANGED <<book, linked, image, cloud, uploads, holder, reviews, named>>
        BY <2>3 DEF UpdateRow, shop
      <3>3. thumbnail' \in [Book -> Address]
        BY <1>t, <2>3, <3>1, UpdateRowIs
      <3>4. \/ links' = links
            \/ /\ Live(task[a].book) /\ task[a].labels \subseteq linked
               /\ links' = OtherLinks(task[a].book, Label) \cup LinksOf(task[a].book, task[a].labels)
        BY <2>3 DEF UpdateRow
      <3>5. links' \subseteq Alive \X linked
        BY <1>t, <3>1, <3>4 DEF LinksOf, OtherLinks
      <3>6. Alive' = Alive
        BY <3>2 DEF Live
      <3>7. QED
        BY <1>t, <3>2, <3>3, <3>5, <3>6 DEF CatalogueTypeOK, Live
    <2>4. CASE DropOld(a)
      BY <1>s, <1>t, <2>4 DEF DropOld, Destroy, rows, shop
    <2>5. CASE DeleteReadsImages(a) \/ DeleteImages(a) \/ DeleteThumbnail(a)
      <3>1. UNCHANGED <<book, thumbnail, linked, links, image, holder, reviews, uploads>>
        BY <2>5 DEF DeleteReadsImages, DeleteImages, DeleteThumbnail, rows, shop
      <3>2. cloud' \subseteq cloud
        BY <2>5 DEF DeleteReadsImages, DeleteImages, DeleteThumbnail, Destroy
      <3>3. named' = named \/ named' = named \cup {p \in Picture : image[p] = task[a].book}
        BY <2>5 DEF DeleteReadsImages, DeleteImages, DeleteThumbnail
      <3>4. task[a].book # NoBook
        BY <2>5, CatalogueAssumption DEF DeleteReadsImages, DeleteImages, DeleteThumbnail, Doing,
           TasksKnow, Knows, NoBook
      <3>5. \A p \in Picture : image[p] = task[a].book => p \in 1..uploads
        BY <3>4, <1>u DEF OnlyUploads, Known, Picture
      <3>6. named' \subseteq 1..uploads
        BY <1>t, <3>3, <3>5
      <3>7. QED
        BY <1>s, <1>t, <3>1, <3>2, <3>6
    <2>6. CASE DeleteImageRows(a)
      BY <1>t, <2>6 DEF DeleteImageRows, CatalogueTypeOK, Live, rows, shop
    <2>7. CASE DeleteRow(a)
      <3>1. task[a].pc = "delete row" /\ task[a].book \in Book
        BY <2>7, DeleteRowIs DEF TasksKnow, Knows
      <3>2. UNCHANGED <<thumbnail, linked, cloud, uploads, holder, named>>
        BY <2>7 DEF DeleteRow
      <3>3. CASE UNCHANGED <<book, links, image, reviews>>
        BY <1>s, <1>t, <3>2, <3>3
      <3>4. CASE /\ holder[task[a].book] = "none"
                 /\ book' = [book EXCEPT ![task[a].book] = "gone"]
                 /\ links' = OtherLinks(task[a].book, Label \cup Promotion)
                 /\ image' = [p \in Picture |-> IF image[p] = task[a].book THEN NoBook ELSE image[p]]
                 /\ reviews' = reviews \ {task[a].book}
        <4>1. Alive' = Alive \ {task[a].book}
          BY <1>t, <3>1, <3>4 DEF Live
        <4>2. links' \subseteq Alive' \X linked'
          BY <1>t, <3>2, <3>4, <4>1 DEF OtherLinks
        <4>3. image' \in [Picture -> Alive' \cup {NoBook}] /\ reviews' \subseteq Alive'
          BY <1>t, <3>4, <4>1
        <4>4. \A b \in Book : holder'[b] # "none" => Live(b)'
          BY <1>t, <3>2, <3>4, <4>1
        <4>5. book' \in [Book -> {"none", "live", "gone"}]
          BY <1>t, <3>4
        <4>6. QED
          BY <1>t, <3>2, <4>2, <4>3, <4>4, <4>5 DEF CatalogueTypeOK
      <3>5. QED
        BY <2>7, <3>3, <3>4 DEF DeleteRow
    <2>8. CASE AddImageRow(a)
      <3>1. UNCHANGED <<book, thumbnail, linked, links, cloud, uploads, holder, reviews, named>>
        BY <2>8 DEF AddImageRow, rows, shop
      <3>2. task[a].pc = "image row" /\ task[a].book \in Book /\ task[a].new \in Picture
        BY <2>8, AddImageRowIs DEF TasksKnow, Knows
      <3>3. image' \in [Picture -> Alive \cup {NoBook}]
        BY <1>t, <2>8, <3>2 DEF AddImageRow
      <3>4. Alive' = Alive
        BY <3>1 DEF Live
      <3>5. QED
        BY <1>t, <3>1, <3>3, <3>4 DEF CatalogueTypeOK, Live
    <2>9. CASE DropImageRow(a)
      BY <1>t, <2>9 DEF DropImageRow, CatalogueTypeOK, Live, rows, shop
    <2>10. QED
      BY <1>1, <2>1, <2>2, <2>3, <2>4, <2>5, <2>6, <2>7, <2>8, <2>9 DEF Handle
  <1>2. ASSUME NEW a \in Admin, NEW b \in Book, NEW L \in SUBSET Label, NEW keep,
               CreateBook(a, b, L) \/ UpdateBook(a, b, L, keep) \/ DeleteBook(a, b) \/ AddImage(a, b)
        PROVE  CatalogueTypeOK'
    <2>1. UNCHANGED <<book, thumbnail, linked, links, image, cloud, uploads, holder, reviews>>
      BY <1>2 DEF CreateBook, UpdateBook, DeleteBook, AddImage, rows, shop
    <2>2. \/ named' = named
          \/ named' = named \cup ({thumbnail[b]} \cap Picture)
          \/ \E text \in (1..uploads) \cup {NoPicture, Elsewhere} :
                named' = named \cup ({text} \cap Picture)
      <3>1. CASE CreateBook(a, b, L) \/ AddImage(a, b)
        BY <3>1 DEF CreateBook, AddImage
      <3>2. CASE UpdateBook(a, b, L, keep)
        BY <3>2 DEF UpdateBook
      <3>3. CASE DeleteBook(a, b)
        BY <3>3 DEF DeleteBook
      <3>4. QED
        BY <1>2, <3>1, <3>2, <3>3
    <2>3. thumbnail[b] \in Picture => thumbnail[b] \in 1..uploads
      BY <1>u DEF OnlyUploads, Known, Picture
    <2>4. named' \subseteq 1..uploads
      BY <1>t, <2>2, <2>3, NoPictures
    <2>5. QED
      BY <1>s, <1>t, <2>1, <2>4
  <1>3. ASSUME NEW a \in Admin, NEW P \in SUBSET (1..uploads), DropPictures(a, P)
        PROVE  CatalogueTypeOK'
    <2>1. UNCHANGED <<book, thumbnail, linked, links, image, uploads, holder, reviews>>
      BY <1>3 DEF DropPictures, rows, shop
    <2>2. cloud' \subseteq cloud /\ named' = named \cup P
      BY <1>3, <1>t DEF DropPictures, Destroy
    <2>3. QED
      BY <1>s, <1>t, <2>1, <2>2
  <1>d. ASSUME NEW a \in Admin, NEW p \in Picture, DropImage(a, p) PROVE CatalogueTypeOK'
    <2>1. {p} \in SUBSET (1..uploads)
      BY <1>d, <1>u DEF DropImage, OnlyUploads, Known, Picture
    <2>2. QED
      BY <1>3, <1>d, <2>1 DEF DropImage
  <1>4. ASSUME NEW l \in Label, CreateLabel(l) PROVE CatalogueTypeOK'
    BY <1>4, <1>t DEF CreateLabel, CatalogueTypeOK, Live, rows, shop
  <1>5. ASSUME NEW l \in Label \cup Promotion, DeleteLinked(l) PROVE CatalogueTypeOK'
    BY <1>5, <1>t DEF DeleteLinked, CatalogueTypeOK, Live, shop
  <1>6. ASSUME NEW q \in Promotion, NEW B \in SUBSET Book, CreatePromotion(q, B) \/ UpdatePromotion(q, B)
        PROVE  CatalogueTypeOK'
    <2>1. UNCHANGED <<book, thumbnail, image, cloud, uploads, holder, reviews, named>>
      BY <1>6 DEF CreatePromotion, UpdatePromotion, shop
    <2>2. linked' = linked \cup {q} /\ B \subseteq Alive /\ links' \subseteq links \cup (B \X {q})
      BY <1>6 DEF CreatePromotion, UpdatePromotion
    <2>3. Alive' = Alive
      BY <2>1 DEF Live
    <2>4. links' \subseteq Alive' \X linked' /\ linked' \subseteq Label \cup Promotion
      BY <1>t, <2>2, <2>3
    <2>5. QED
      BY <1>t, <2>1, <2>3, <2>4 DEF CatalogueTypeOK, Live
  <1>7. ASSUME NEW b \in Book, UseBook(b) \/ Review(b) \/ Unreview(b) PROVE CatalogueTypeOK'
    BY ZenonT(30), <1>7, <1>t DEF UseBook, Review, Unreview, CatalogueTypeOK, Live, rows
  <1>8. CASE UNCHANGED catalogueVars
    BY <1>8, <1>s, <1>t DEF catalogueVars
  <1>9. QED
    BY <1>1, <1>2, <1>3, <1>d, <1>4, <1>5, <1>6, <1>7, <1>8 DEF CatalogueNext

\* The steps that touch neither rows, pictures nor requests.
LEMMA PicturesStay ==
  ASSUME PicturesInv, UNCHANGED PictureRows, task' = task PROVE PicturesInv'
  <1>1. UNCHANGED <<book, thumbnail, image, cloud, uploads, named>>
    BY DEF PictureRows
  <1>2. TasksKnow'
    BY <1>1 DEF PicturesInv, TasksKnow, Knows, Deleting
  <1>3. OnlyUploads'
    BY <1>1 DEF PicturesInv, OnlyUploads, Known, KnownTo
  <1>4. FreshIsNobodys'
    BY <1>1 DEF PicturesInv, FreshIsNobodys, Spare, Fresh
  <1>5. OnePlace' /\ DropsOwn'
    <2>1. OnePlace'
      BY <1>1 DEF PicturesInv, OnePlace
    <2>2. DropsOwn'
      BY <1>1 DEF PicturesInv, DropsOwn, Drops, Replacing
    <2>3. QED
      BY <2>1, <2>2
  <1>6. ShownPicturesExist'
    BY <1>1 DEF PicturesInv, ShownPicturesExist, Live
  <1>7. QED
    BY <1>2, <1>3, <1>4, <1>5, <1>6 DEF PicturesInv

\* What a step of the request a may do to the pictures and to itself.
Removes(a, p) == (task[a].pc = "drop old" /\ p \in task[a].old) \/ p \in named'
Shows(a, b) ==
    /\ task[a].pc \in {"create", "update"}
    /\ b = task[a].book /\ thumbnail'[b] = task[a].new
Hangs(a, p) ==
    /\ task[a].pc = "image row" /\ p = task[a].new /\ image'[p] = task[a].book
StepOf(a) ==
    /\ \A i \in Admin \ {a} : task'[i] = task[i]
    /\ uploads \in Nat /\ uploads' \in {uploads, uploads + 1}
    /\ named \subseteq named'
    /\ \A b \in Book : thumbnail'[b] = thumbnail[b] \/ Shows(a, b)
    /\ \A b \in Book : Live(b)' => Live(b) \/ Shows(a, b)
    /\ \A p \in Picture : image'[p] \in {image[p], NoBook} \/ Hangs(a, p)
    /\ \A p \in Picture : p \in cloud => p \in cloud' \/ Removes(a, p)
    /\ \A p \in task'[a].old : p \in task[a].old \cup named' \/ \E b \in Book : thumbnail[b] = p
    /\ \/ task'[a].new \in {NoPicture, Elsewhere, task[a].new} \cup named'
       \/ uploads' = uploads + 1 /\ task'[a].new = uploads + 1

\* What a request knows survives the steps of the others.
LEMMA OthersKnow ==
  ASSUME PicturesInv, NEW a \in Admin, NEW i \in Admin, i # a, StepOf(a)
  PROVE  Knows(i)' /\ KnownTo(i)'
  <1>1. Knows(i) /\ KnownTo(i)
    BY DEF PicturesInv, TasksKnow, OnlyUploads
  <1>2. task'[i] = task[i] /\ named \subseteq named' /\ uploads \in Nat /\ uploads' \in {uploads, uploads + 1}
    BY DEF StepOf
  <1>3. Knows(i)'
    BY <1>1, <1>2 DEF Knows, Deleting
  <1>4. \A p : Known(p) => Known(p)'
    BY <1>2 DEF Known, Picture
  <1>5. KnownTo(i)'
    BY <1>1, <1>2, <1>4 DEF KnownTo
  <1>6. QED
    BY <1>3, <1>5

\* Nobody takes up the picture another request has uploaded.
LEMMA OthersSpare ==
  ASSUME PicturesInv, NEW a \in Admin, NEW i \in Admin, i # a, StepOf(a)
  PROVE  Spare(i)'
  <1>1. task'[i] = task[i] /\ uploads \in Nat /\ named \subseteq named'
    BY DEF StepOf
  <1>2. PICK p : p = task[i].new
    OBVIOUS
  <1>3. SUFFICES ASSUME Fresh(i), p \in Picture, p \notin named'
                 PROVE  /\ p \in cloud' /\ image'[p] = NoBook
                        /\ \A b \in Book : thumbnail'[b] # p
                        /\ \A k \in Admin : p \notin task'[k].old /\ (k # i => task'[k].new # p)
    BY <1>1, <1>2 DEF Spare, Fresh
  <1>4. /\ p \in cloud /\ image[p] = NoBook
        /\ \A b \in Book : thumbnail[b] # p
        /\ \A k \in Admin : p \notin task[k].old /\ (k # i => task[k].new # p)
    BY <1>2, <1>3 DEF PicturesInv, FreshIsNobodys, Spare
  <1>5. p <= uploads
    BY <1>2, <1>3 DEF PicturesInv, OnlyUploads, KnownTo, Known
  <1>6. p \in cloud'
    BY <1>3, <1>4 DEF StepOf, Removes
  <1>7. image'[p] = NoBook
    BY <1>3, <1>4 DEF StepOf, Hangs
  <1>8. \A b \in Book : thumbnail'[b] # p
    BY <1>4 DEF StepOf, Shows
  <1>9. p \notin task'[a].old
    BY <1>3, <1>4 DEF StepOf
  <1>10. task'[a].new # p
    <2>1. p \in Nat /\ p # uploads + 1 /\ p # NoPicture /\ p # Elsewhere
      <3>1. p \in Nat
        <4>1. Pictures \in Nat
          BY CatalogueAssumption
        <4>2. QED
          BY <1>3, <4>1 DEF Picture
      <3>2. QED
        BY <1>1, <1>3, <1>5, <3>1, NoPictures
    <2>2. QED
      BY <1>3, <1>4, <2>1 DEF StepOf
  <1>11. QED
    BY <1>4, <1>6, <1>7, <1>8, <1>9, <1>10 DEF StepOf

\* What a request shows that nobody has named was fresh.
LEMMA ShowsFresh ==
  ASSUME PicturesInv, NEW a \in Admin, StepOf(a)
  PROVE  /\ \A b \in Book : Shows(a, b) /\ thumbnail'[b] \in Picture \ named' =>
               Fresh(a) /\ thumbnail'[b] = task[a].new /\ task[a].pc # "image row"
         /\ \A p \in Picture \ named' : Hangs(a, p) =>
               Fresh(a) /\ p = task[a].new /\ task[a].pc = "image row"
  BY DEF StepOf, Shows, Hangs, Fresh

\* Nobody begins to show what another request will drop.
LEMMA OthersDrop ==
  ASSUME PicturesInv, NEW a \in Admin, NEW i \in Admin, i # a, StepOf(a)
  PROVE  Drops(i)'
  <1>1. task'[i] = task[i] /\ named \subseteq named'
    BY DEF StepOf
  <1>2. task[i].old \subseteq Picture
    BY DEF PicturesInv, TasksKnow, TaskType
  <1>3. Fresh(a) => task[a].new \notin task[i].old
    BY DEF PicturesInv, FreshIsNobodys, Spare
  <1>4. Drops(i)
    BY DEF PicturesInv, DropsOwn
  <1>5. /\ \A b \in Book : \/ thumbnail'[b] = thumbnail[b]
                             \/ thumbnail'[b] \notin Picture \ named'
                             \/ (Fresh(a) /\ thumbnail'[b] = task[a].new)
        /\ \A p \in Picture \ named' : image'[p] \in {image[p], NoBook} \/ (Fresh(a) /\ p = task[a].new)
    BY ShowsFresh DEF StepOf
  <1>6. ASSUME Replacing(i), NEW p \in task[i].old, p \notin named'
        PROVE  /\ image'[p] = NoBook
               /\ \A b \in Book : thumbnail'[b] = p => b = task[i].book /\ task[i].pc # "drop old"
    <2>1. /\ p \in Picture \ named' /\ image[p] = NoBook
          /\ \A b \in Book : thumbnail[b] = p => b = task[i].book /\ task[i].pc # "drop old"
      BY <1>1, <1>2, <1>4, <1>6 DEF Drops
    <2>2. QED
      BY <1>3, <1>5, <1>6, <2>1
  <1>7. QED
    BY <1>1, <1>6 DEF Drops, Replacing

LEMMA PlacesKeep ==
  ASSUME PicturesInv, NEW a \in Admin, StepOf(a)
  PROVE  OnePlace'
  <1>1. Fresh(a) => /\ image[task[a].new] = NoBook
                    /\ \A b \in Book : thumbnail[b] # task[a].new
    BY DEF PicturesInv, FreshIsNobodys, Spare
  <1>2. SUFFICES ASSUME NEW b \in Book, NEW p \in Picture, p \notin named', thumbnail'[b] = p
                 PROVE  image'[p] = NoBook /\ \A c \in Book \ {b} : thumbnail'[c] # p
    BY DEF OnePlace
  <1>3. CASE thumbnail'[b] = thumbnail[b]
    <2>1. p \notin named
      BY <1>2 DEF StepOf
    <2>2. image[p] = NoBook /\ \A c \in Book \ {b} : thumbnail[c] # p
      BY <1>2, <1>3, <2>1 DEF PicturesInv, OnePlace
    <2>3. ~(Fresh(a) /\ p = task[a].new)
      BY <1>1, <1>2, <1>3
    <2>4. image'[p] = NoBook
      BY <1>2, <2>2, <2>3, ShowsFresh DEF StepOf
    <2>5. ASSUME NEW c \in Book \ {b}, thumbnail'[c] = p PROVE FALSE
      BY <1>2, <2>2, <2>3, <2>5, ShowsFresh DEF StepOf
    <2>6. QED
      BY <2>4, <2>5
  <1>4. CASE Shows(a, b)
    <2>1. Fresh(a) /\ p = task[a].new /\ task[a].pc # "image row" /\ b = task[a].book
      BY <1>2, <1>4, ShowsFresh DEF Shows
    <2>2. image'[p] = NoBook
      BY <1>1, <1>2, <2>1 DEF StepOf, Hangs
    <2>3. \A c \in Book \ {b} : thumbnail'[c] = thumbnail[c]
      BY <2>1 DEF StepOf, Shows
    <2>4. QED
      BY <1>1, <2>1, <2>2, <2>3
  <1>5. QED
    BY <1>3, <1>4 DEF StepOf

LEMMA ShownKeep ==
  ASSUME CatalogueTypeOK, PicturesInv, NEW a \in Admin, StepOf(a)
  PROVE  ShownPicturesExist'
  <1>1. Fresh(a) => task[a].new \in cloud /\ task[a].new \notin task[a].old
    BY DEF PicturesInv, FreshIsNobodys, Spare
  <1>2. Drops(a) /\ named \subseteq named'
    BY DEF PicturesInv, DropsOwn, StepOf
  <1>3. SUFFICES ASSUME NEW b \in Book, Live(b)', NEW p \in Picture, p \notin named'
                 PROVE  /\ thumbnail'[b] = p => p \in cloud'
                        /\ image'[p] = b => p \in cloud'
    BY DEF ShownPicturesExist
  <1>4. b # NoBook /\ p \notin named
    BY <1>2, <1>3, CatalogueAssumption DEF NoBook
  <1>f. CASE Fresh(a) /\ p = task[a].new
    <2>1. task[a].pc # "drop old"
      BY <1>f DEF Fresh
    <2>2. QED
      BY <1>1, <1>3, <1>f, <2>1 DEF StepOf, Removes
  <1>5. ASSUME thumbnail'[b] = p PROVE p \in cloud'
    <2>1. CASE Shows(a, b)
      BY <1>3, <1>5, <1>f, <2>1, ShowsFresh
    <2>2. CASE ~Shows(a, b)
      <3>1. Live(b) /\ thumbnail[b] = p
        BY <1>3, <1>5, <2>2 DEF StepOf
      <3>2. p \in cloud
        BY <1>3, <1>4, <3>1 DEF PicturesInv, ShownPicturesExist
      <3>3. ~Removes(a, p)
        BY <1>2, <1>3, <1>4, <3>1 DEF Removes, Drops, Replacing
      <3>4. QED
        BY <1>3, <3>2, <3>3 DEF StepOf
    <2>3. QED
      BY <2>1, <2>2
  <1>6. ASSUME image'[p] = b PROVE p \in cloud'
    <2>1. CASE Hangs(a, p)
      BY <1>3, <1>6, <1>f, <2>1, ShowsFresh
    <2>2. CASE ~Hangs(a, p)
      <3>1. image[p] = b
        BY <1>3, <1>4, <1>6, <2>2 DEF StepOf
      <3>2. Live(b)
        BY <1>3, <1>4, <3>1 DEF CatalogueTypeOK
      <3>3. p \in cloud
        BY <1>3, <1>4, <3>1, <3>2 DEF PicturesInv, ShownPicturesExist
      <3>4. ~Removes(a, p)
        BY <1>2, <1>3, <1>4, <3>1 DEF Removes, Drops, Replacing
      <3>5. QED
        BY <1>3, <3>3, <3>4 DEF StepOf
    <2>3. QED
      BY <2>1, <2>2
  <1>7. QED
    BY <1>5, <1>6

LEMMA UploadsKeep ==
  ASSUME PicturesInv, NEW a \in Admin, StepOf(a), KnownTo(a)'
  PROVE  OnlyUploads'
  <1>1. \A p : Known(p) => Known(p)'
    BY DEF StepOf, Known, Picture
  <1>2. \A i \in Admin : KnownTo(i)'
    BY OthersKnow
  <1>3. KnownTo(a)
    BY DEF PicturesInv, OnlyUploads
  <1>4. ASSUME NEW b \in Book PROVE Known(thumbnail[b])'
    <2>1. thumbnail'[b] \in {thumbnail[b], task[a].new}
      BY DEF StepOf, Shows
    <2>2. Known(thumbnail'[b])
      BY <1>3, <2>1 DEF PicturesInv, OnlyUploads, KnownTo
    <2>3. QED
      BY <2>2 DEF StepOf, Known, Picture
  <1>5. ASSUME NEW p \in Picture, image'[p] # NoBook PROVE Known(p)'
    BY <1>1, <1>3, <1>5 DEF StepOf, Hangs, PicturesInv, OnlyUploads, KnownTo
  <1>6. QED
    BY <1>2, <1>4, <1>5 DEF OnlyUploads

\* What is left to show of a step is about the request that makes it.
LEMMA StepKeeps ==
  ASSUME CatalogueTypeOK, PicturesInv, NEW a \in Admin, StepOf(a),
         task' \in [Admin -> TaskType], uploads' \in 0..Pictures,
         Knows(a)', KnownTo(a)', Spare(a)', Drops(a)'
  PROVE  PicturesInv'
  <1>1. TasksKnow'
    BY OthersKnow DEF TasksKnow
  <1>2. FreshIsNobodys' /\ DropsOwn'
    BY OthersSpare, OthersDrop DEF FreshIsNobodys, DropsOwn
  <1>3. OnlyUploads' /\ OnePlace' /\ ShownPicturesExist'
    BY UploadsKeep, PlacesKeep, ShownKeep
  <1>4. QED
    BY <1>1, <1>2, <1>3 DEF PicturesInv

\* The parts, request by request.
LEMMA KnownHere ==
  PicturesInv => /\ TasksKnow /\ OnlyUploads /\ uploads \in Nat /\ Pictures \in Nat
                 /\ \A a \in Admin : Knows(a) /\ KnownTo(a) /\ Spare(a) /\ Drops(a)
  <1> SUFFICES ASSUME PicturesInv
               PROVE  /\ TasksKnow /\ OnlyUploads /\ uploads \in Nat /\ Pictures \in Nat
                      /\ \A a \in Admin : Knows(a) /\ KnownTo(a) /\ Spare(a) /\ Drops(a)
    OBVIOUS
  <1>1. uploads \in 0..Pictures
    BY DEF PicturesInv, TasksKnow
  <1>2. Pictures \in Nat
    BY CatalogueAssumption
  <1>3. uploads \in Nat
    BY <1>1, <1>2
  <1>4. QED
    BY <1>2, <1>3 DEF PicturesInv, TasksKnow, OnlyUploads, FreshIsNobodys, DropsOwn

\* A request that carries nothing of which it is the only one to know has nothing
\* to answer for.
LEMMA CarriesNone ==
  ASSUME NEW a \in Admin, NEW pc, NEW b, NEW new, NEW old, Turns(a, pc, b, new, old),
         pc \in {"idle", "upload to create", "update", "upload image", "delete row", "drop image row",
                 "read images", "delete images", "delete image rows", "delete thumbnail"},
         pc \notin {"idle", "drop image row"} => b \in Book,
         pc = "update" => old = {}, pc = "delete images" => old \subseteq named',
         new \in named' \cup {NoPicture, Elsewhere}, Known(new)', \A p \in old : Known(p)'
  PROVE  Knows(a)' /\ KnownTo(a)' /\ Spare(a)' /\ Drops(a)'
  <1>1. task'[a].pc = pc /\ task'[a].book = b /\ task'[a].new = new /\ task'[a].old = old
    BY DEF Turns
  <1>2. Knows(a)'
    BY <1>1 DEF Knows, Deleting
  <1>3. KnownTo(a)'
    BY <1>1 DEF KnownTo, Known
  <1>4. Spare(a)'
    BY <1>1, NoPictures DEF Spare, Fresh
  <1>5. Drops(a)'
    BY <1>1 DEF Drops, Replacing
  <1>6. QED
    BY <1>2, <1>3, <1>4, <1>5

\* In particular one that carries no picture at all.
LEMMA CarriesNothing ==
  ASSUME NEW a \in Admin, NEW pc, NEW b, Turns(a, pc, b, NoPicture, {}),
         pc \in {"idle", "upload to create", "update", "upload image", "delete row"},
         pc # "idle" => b \in Book
  PROVE  Knows(a)' /\ KnownTo(a)' /\ Spare(a)' /\ Drops(a)'
  <1>1. PICK old, new : old = {} /\ new = NoPicture
    OBVIOUS
  <1>2. Turns(a, pc, b, new, old)
    BY <1>1
  <1>3. Known(new)' /\ \A p \in old : Known(p)'
    BY <1>1, NoPictures DEF Known
  <1>4. /\ old \subseteq named' /\ new \in named' \cup {NoPicture, Elsewhere}
        /\ old = {}
    BY <1>1
  <1>5. QED
    BY <1>2, <1>3, <1>4, CarriesNone

\* A step that writes no row and drops nothing.
LEMMA TakesNothing ==
  ASSUME CatalogueTypeOK, PicturesInv, NEW a \in Admin, NEW pc, NEW b, Turns(a, pc, b, NoPicture, {}),
         pc \in {"idle", "upload to create", "update", "upload image", "delete row"},
         pc # "idle" => b \in Book,
         UNCHANGED PictureRows
  PROVE  PicturesInv'
  <1>1. StepOf(a)
    <2>1. UNCHANGED <<book, thumbnail, image, cloud, uploads, named>>
      BY DEF PictureRows
    <2>2. /\ \A i \in Admin \ {a} : task'[i] = task[i]
          /\ task'[a].new = NoPicture /\ task'[a].old = {}
      BY DEF Turns
    <2>3. uploads \in Nat
      BY KnownHere
    <2>4. QED
      BY <2>1, <2>2, <2>3 DEF StepOf, Live
  <1>2. task' \in [Admin -> TaskType] /\ uploads' \in 0..Pictures
    BY DEF Turns, PictureRows, PicturesInv, TasksKnow
  <1>3. QED
    BY <1>1, <1>2, CarriesNothing, StepKeeps

\* The handlers, one by one.
LEMMA UploadKeeps ==
  ASSUME CatalogueTypeOK, PicturesInv, NEW a \in Admin, Upload(a) PROVE PicturesInv'
  <1> DEFINE p == uploads + 1
  <1>0. /\ p \in Picture /\ uploads' = p /\ cloud' = cloud \cup {p}
        /\ UNCHANGED <<book, thumbnail, image, named>>
    BY UploadIs DEF PicturesInv
  <1>n. uploads \in Nat /\ p \in Nat /\ uploads' \in 0..Pictures
    BY <1>0, KnownHere DEF Picture
  <1>1. PICK pc : /\ Turns(a, pc, task[a].book, p, task[a].old)
                  /\ \/ task[a].pc = "upload to create" /\ pc = "create"
                     \/ task[a].pc = "upload to update" /\ pc = "update"
                     \/ task[a].pc = "upload image" /\ pc = "image row"
    BY UploadIs DEF PicturesInv
  <1>2. /\ \A i \in Admin \ {a} : task'[i] = task[i]
        /\ task'[a].pc = pc /\ task'[a].book = task[a].book /\ task'[a].new = p
        /\ task'[a].old = task[a].old /\ task' \in [Admin -> TaskType]
    BY <1>1 DEF Turns
  <1>3. ~Known(p)
    BY <1>0, <1>n DEF Known
  <1>4. StepOf(a)
    BY <1>0, <1>2, <1>n DEF StepOf, Live
  <1>5. Knows(a)'
    BY <1>0, <1>1, <1>2, KnownHere, NoPictures DEF Knows, Deleting
  <1>6. KnownTo(a)'
    BY <1>0, <1>2, <1>n, KnownHere DEF KnownTo, Known, Picture
  <1>7. Spare(a)'
    <2>1. image[p] = NoBook /\ \A b \in Book : thumbnail[b] # p
      BY <1>0, <1>3, KnownHere DEF OnlyUploads
    <2>2. \A i \in Admin : p \notin task[i].old /\ task[i].new # p
      BY <1>3, KnownHere DEF KnownTo
    <2>3. QED
      BY <1>0, <1>2, <2>1, <2>2 DEF Spare
  <1>8. Drops(a)'
    <2>1. Drops(a)
      BY KnownHere
    <2>2. Replacing(a)' => Replacing(a)
      BY <1>1, <1>2 DEF Replacing
    <2>3. task'[a].pc # "drop old"
      BY <1>1, <1>2
    <2>4. QED
      BY <1>0, <1>2, <2>1, <2>2, <2>3 DEF Drops
  <1>9. QED
    BY <1>2, <1>4, <1>5, <1>6, <1>7, <1>8, <1>n, StepKeeps

LEMMA CreateRowKeeps ==
  ASSUME CatalogueTypeOK, PicturesInv, NEW a \in Admin, CreateRow(a) PROVE PicturesInv'
  <1>1. /\ task[a].pc = "create" /\ Turns(a, "idle", NoBook, NoPicture, {})
        /\ UNCHANGED <<image, cloud, uploads, named>>
        /\ \/ /\ book' = [book EXCEPT ![task[a].book] = "live"]
              /\ thumbnail' = [thumbnail EXCEPT ![task[a].book] = task[a].new]
           \/ UNCHANGED <<book, thumbnail>>
    BY CreateRowIs DEF PicturesInv
  <1>2. StepOf(a)
    <2>1. \A b \in Book : /\ thumbnail'[b] = thumbnail[b] \/ Shows(a, b)
                          /\ Live(b)' => Live(b) \/ Shows(a, b)
      BY <1>1 DEF CatalogueTypeOK, Shows, Live
    <2>2. QED
      BY <1>1, <2>1, KnownHere DEF StepOf, Turns
  <1>3. QED
    BY <1>1, <1>2, CarriesNothing, StepKeeps DEF Turns, PicturesInv, TasksKnow

LEMMA UpdateBookKeeps ==
  ASSUME CatalogueTypeOK, PicturesInv, NEW a \in Admin, NEW b \in Book, NEW L \in SUBSET Label,
         NEW keep \in BOOLEAN, UpdateBook(a, b, L, keep)
  PROVE  PicturesInv'
  <1>1. /\ UNCHANGED <<book, thumbnail, image, cloud, uploads>>
        /\ \/ /\ Turns(a, "upload to update", b, NoPicture, {thumbnail[b]} \cap Picture)
              /\ named' = named
           \/ \E text \in (1..uploads) \cup {NoPicture, Elsewhere} :
                 Turns(a, "update", b, text, {}) /\ named' = named \cup ({text} \cap Picture)
    BY UpdateBookIs DEF PicturesInv
  <1>2. ASSUME NEW text \in (1..uploads) \cup {NoPicture, Elsewhere},
               Turns(a, "update", b, text, {}), named' = named \cup ({text} \cap Picture)
        PROVE  PicturesInv'
    <2>1. text \in named' \cup {NoPicture, Elsewhere} /\ Known(text)'
      <3>1. uploads \in Nat /\ Pictures \in Nat /\ uploads \in 0..Pictures
        BY KnownHere DEF TasksKnow
      <3>2. text \in 1..uploads => text \in Picture /\ text <= uploads
        BY <3>1 DEF Picture
      <3>3. QED
        BY <1>1, <1>2, <3>2, NoPictures DEF Known
    <2>2. /\ \A i \in Admin \ {a} : task'[i] = task[i]
          /\ task'[a].new = text /\ task'[a].old = {} /\ task' \in [Admin -> TaskType]
      BY <1>2 DEF Turns
    <2>3. StepOf(a)
      BY <1>1, <1>2, <2>1, <2>2, KnownHere DEF StepOf, Live
    <2>4. Knows(a)' /\ KnownTo(a)' /\ Spare(a)' /\ Drops(a)'
      <3>1. PICK old : old = {}
        OBVIOUS
      <3>2. Turns(a, "update", b, text, old) /\ \A p \in old : Known(p)'
        BY <1>2, <3>1
      <3>3. QED
        BY <2>1, <3>1, <3>2, CarriesNone
    <2>5. QED
      BY <1>1, <2>2, <2>3, <2>4, StepKeeps DEF PicturesInv, TasksKnow
  <1>3. CASE /\ Turns(a, "upload to update", b, NoPicture, {thumbnail[b]} \cap Picture)
             /\ named' = named
    <2>1. /\ \A i \in Admin \ {a} : task'[i] = task[i]
          /\ task'[a].pc = "upload to update" /\ task'[a].book = b /\ task'[a].new = NoPicture
          /\ task'[a].old = {thumbnail[b]} \cap Picture /\ task' \in [Admin -> TaskType]
      BY <1>3 DEF Turns
    <2>2. StepOf(a)
      BY <1>1, <1>3, <2>1, KnownHere DEF StepOf, Live
    <2>3. Knows(a)' /\ Spare(a)'
      BY <2>1 DEF Knows, Deleting, Spare, Fresh
    <2>4. KnownTo(a)'
      <3>1. Known(thumbnail[b])
        BY <1>1, KnownHere DEF OnlyUploads
      <3>2. Known(NoPicture)'
        BY NoPictures DEF Known
      <3>3. \A p \in task'[a].old : Known(p)'
        BY <1>1, <2>1, <3>1 DEF Known
      <3>4. QED
        BY <2>1, <3>2, <3>3 DEF KnownTo
    <2>5. Drops(a)'
      <3>1. ASSUME NEW p \in {thumbnail[b]} \cap Picture, p \notin named
            PROVE  image[p] = NoBook /\ \A c \in Book : thumbnail[c] = p => c = b
        BY <3>1 DEF PicturesInv, OnePlace
      <3>2. QED
        BY <1>1, <1>3, <2>1, <3>1 DEF Drops
    <2>6. QED
      BY <1>1, <2>1, <2>2, <2>3, <2>4, <2>5, StepKeeps DEF PicturesInv, TasksKnow
  <1>4. QED
    BY <1>1, <1>2, <1>3

LEMMA UpdateRowKeeps ==
  ASSUME CatalogueTypeOK, PicturesInv, NEW a \in Admin, UpdateRow(a) PROVE PicturesInv'
  <1>1. /\ task[a].pc = "update"
        /\ UNCHANGED <<book, image, cloud, uploads, named>>
        /\ \/ /\ thumbnail' \in {thumbnail, [thumbnail EXCEPT ![task[a].book] = task[a].new]}
              /\ Turns(a, "idle", NoBook, NoPicture, {})
           \/ /\ thumbnail' = [thumbnail EXCEPT ![task[a].book] = task[a].new]
              /\ Turns(a, "drop old", task[a].book, NoPicture, task[a].old)
    BY UpdateRowIs DEF PicturesInv
  <1>2. \A b \in Book : thumbnail'[b] = thumbnail[b] \/ Shows(a, b)
    BY <1>1 DEF CatalogueTypeOK, Shows
  <1>3. CASE Turns(a, "idle", NoBook, NoPicture, {})
    <2>1. StepOf(a)
      BY <1>1, <1>2, <1>3, KnownHere DEF StepOf, Turns, Live
    <2>2. QED
      BY <1>1, <1>3, <2>1, CarriesNothing, StepKeeps DEF Turns, PicturesInv, TasksKnow
  <1>4. CASE /\ thumbnail' = [thumbnail EXCEPT ![task[a].book] = task[a].new]
             /\ Turns(a, "drop old", task[a].book, NoPicture, task[a].old)
    <2>1. task[a].book \in Book
      BY <1>1, KnownHere DEF Knows
    <2>2. /\ \A i \in Admin \ {a} : task'[i] = task[i]
          /\ task'[a].pc = "drop old" /\ task'[a].book = task[a].book
          /\ task'[a].new = NoPicture /\ task'[a].old = task[a].old
          /\ task' \in [Admin -> TaskType]
      BY <1>4 DEF Turns
    <2>3. \A b \in Book : thumbnail'[b] = IF b = task[a].book THEN task[a].new ELSE thumbnail[b]
      BY <1>4 DEF CatalogueTypeOK
    <2>4. StepOf(a)
      BY <1>1, <1>2, <2>2, KnownHere DEF StepOf, Live
    <2>5. Knows(a)' /\ Spare(a)'
      BY <2>1, <2>2 DEF Knows, Deleting, Spare, Fresh
    <2>6. KnownTo(a)'
      BY <1>1, <2>2, KnownHere, NoPictures DEF KnownTo, Known
    <2>7. Drops(a)'
      <3>1. Drops(a) /\ (Fresh(a) => task[a].new \notin task[a].old)
        BY KnownHere DEF Spare
      <3>2. task[a].old \subseteq Picture
        BY TaskTyped, KnownHere DEF TaskType
      <3>3. ASSUME NEW p \in task[a].old, p \notin named
            PROVE  image[p] = NoBook /\ \A b \in Book : thumbnail'[b] # p
        <4>1. /\ image[p] = NoBook
              /\ \A b \in Book : thumbnail[b] = p => b = task[a].book
          BY <1>1, <3>1, <3>3 DEF Drops, Replacing
        <4>2. p # task[a].new
          BY <1>1, <3>1, <3>2, <3>3 DEF Fresh
        <4>3. QED
          BY <2>3, <4>1, <4>2
      <3>4. QED
        BY <1>1, <2>2, <3>3 DEF Drops
    <2>8. QED
      BY <1>1, <2>2, <2>4, <2>5, <2>6, <2>7, StepKeeps DEF PicturesInv, TasksKnow
  <1>5. QED
    BY <1>1, <1>3, <1>4

LEMMA DropOldKeeps ==
  ASSUME CatalogueTypeOK, PicturesInv, NEW a \in Admin, DropOld(a) PROVE PicturesInv'
  <1>1. /\ task[a].pc = "drop old" /\ Turns(a, "idle", NoBook, NoPicture, {})
        /\ cloud' = cloud \ task[a].old
        /\ UNCHANGED <<book, thumbnail, image, uploads, named>>
    BY DropOldIs DEF PicturesInv
  <1>2. StepOf(a)
    BY <1>1, KnownHere DEF StepOf, Turns, Removes, Live
  <1>3. QED
    BY <1>1, <1>2, CarriesNothing, StepKeeps DEF Turns, PicturesInv, TasksKnow

LEMMA DeleteBookKeeps ==
  ASSUME CatalogueTypeOK, PicturesInv, NEW a \in Admin, NEW b \in Book, DeleteBook(a, b)
  PROVE  PicturesInv'
  <1>1. /\ Turns(a, "read images", b, thumbnail[b], {})
        /\ named' = named \cup ({thumbnail[b]} \cap Picture)
        /\ UNCHANGED <<book, thumbnail, image, cloud, uploads>>
    BY DeleteBookIs DEF PicturesInv
  <1>2. thumbnail[b] \in named' \cup {NoPicture, Elsewhere} /\ Known(thumbnail[b])'
    BY <1>1, KnownHere DEF CatalogueTypeOK, Address, OnlyUploads, Known
  <1>3. StepOf(a)
    BY <1>1, <1>2, KnownHere DEF StepOf, Turns, Live
  <1>4. Knows(a)' /\ KnownTo(a)' /\ Spare(a)' /\ Drops(a)'
    <2>1. PICK old, new : old = {} /\ new = thumbnail[b]
      OBVIOUS
    <2>2. Turns(a, "read images", b, new, old) /\ \A p \in old : Known(p)'
      BY <1>1, <2>1
    <2>3. new \in named' \cup {NoPicture, Elsewhere} /\ Known(new)'
      BY <1>1, <1>2, <2>1 DEF Known
    <2>4. QED
      BY <2>2, <2>3, CarriesNone
  <1>5. QED
    BY <1>1, <1>3, <1>4, StepKeeps DEF Turns, PicturesInv, TasksKnow

LEMMA DeletionKeeps ==
  ASSUME CatalogueTypeOK, PicturesInv, NEW a \in Admin,
         DeleteReadsImages(a) \/ DeleteImages(a) \/ DeleteImageRows(a) \/ DeleteThumbnail(a)
  PROVE  PicturesInv'
  <1>1. /\ UNCHANGED <<book, thumbnail, uploads>> /\ named \subseteq named'
        /\ task[a].pc \in {"read images", "delete images", "delete image rows", "delete thumbnail"}
        /\ \A p \in Picture : image'[p] \in {image[p], NoBook}
        /\ cloud' \in {cloud, cloud \ task[a].old, cloud \ {task[a].new}}
        /\ cloud' # cloud =>
              \/ (task[a].pc = "delete images" /\ cloud' = cloud \ task[a].old)
              \/ (task[a].pc = "delete thumbnail" /\ cloud' = cloud \ {task[a].new})
    BY DeletionIs DEF PicturesInv
  <1>2. PICK pc, new, old :
           /\ Turns(a, pc, task[a].book, new, old)
           /\ pc \in {"delete images", "delete image rows", "delete thumbnail", "delete row"}
           /\ new \in {task[a].new, NoPicture}
           /\ \/ old = {}
              \/ /\ old = {p \in Picture : image[p] = task[a].book}
                 /\ named' = named \cup {p \in Picture : image[p] = task[a].book}
    BY DeletionIs DEF PicturesInv
  <1>3. /\ task[a].book \in Book /\ task[a].book # NoBook /\ Known(task[a].new)
        /\ task[a].new \in named \cup {NoPicture, Elsewhere}
        /\ task[a].pc = "delete images" => task[a].old \subseteq named
    BY <1>1, KnownHere, CatalogueAssumption DEF Knows, KnownTo, Deleting, NoBook
  <1>4. new \in named' \cup {NoPicture, Elsewhere} /\ Known(new)'
    BY <1>1, <1>2, <1>3, NoPictures DEF Known
  <1>5. old \subseteq named' /\ \A p \in old : Known(p)'
    BY <1>1, <1>2, <1>3, KnownHere DEF OnlyUploads, Known
  <1>6. StepOf(a)
    <2>1. \A p \in Picture : p \in cloud => p \in cloud' \/ Removes(a, p)
      BY <1>1, <1>3, NoPictures DEF Removes
    <2>2. /\ \A i \in Admin \ {a} : task'[i] = task[i]
          /\ task'[a].new = new /\ task'[a].old = old
      BY <1>2 DEF Turns
    <2>3. QED
      BY <1>1, <1>4, <1>5, <2>1, <2>2, KnownHere DEF StepOf, Live
  <1>7. Knows(a)' /\ KnownTo(a)' /\ Spare(a)' /\ Drops(a)'
    BY <1>2, <1>3, <1>4, <1>5, CarriesNone
  <1>8. QED
    BY <1>1, <1>2, <1>6, <1>7, StepKeeps DEF Turns, PicturesInv, TasksKnow

LEMMA DeleteRowKeeps ==
  ASSUME CatalogueTypeOK, PicturesInv, NEW a \in Admin, DeleteRow(a) PROVE PicturesInv'
  <1>1. /\ Turns(a, "idle", NoBook, NoPicture, {})
        /\ UNCHANGED <<thumbnail, cloud, uploads, named>>
        /\ \/ /\ book' = [book EXCEPT ![task[a].book] = "gone"]
              /\ image' = [p \in Picture |-> IF image[p] = task[a].book THEN NoBook ELSE image[p]]
           \/ UNCHANGED <<book, image>>
    BY DeleteRowIs DEF PicturesInv
  <1>2. /\ \A b \in Book : Live(b)' => Live(b)
        /\ \A p \in Picture : image'[p] \in {image[p], NoBook}
    BY <1>1 DEF CatalogueTypeOK, Live
  <1>3. StepOf(a)
    BY <1>1, <1>2, KnownHere DEF StepOf, Turns
  <1>4. QED
    BY <1>1, <1>3, CarriesNothing, StepKeeps DEF Turns, PicturesInv, TasksKnow

LEMMA AddImageRowKeeps ==
  ASSUME CatalogueTypeOK, PicturesInv, NEW a \in Admin, AddImageRow(a) PROVE PicturesInv'
  <1>1. /\ task[a].pc = "image row" /\ Turns(a, "idle", NoBook, NoPicture, {})
        /\ UNCHANGED <<book, thumbnail, cloud, uploads, named>>
        /\ \/ image' = [image EXCEPT ![task[a].new] = task[a].book]
           \/ image' = image
    BY AddImageRowIs DEF PicturesInv
  <1>2. \A p \in Picture : image'[p] \in {image[p], NoBook} \/ Hangs(a, p)
    BY <1>1 DEF CatalogueTypeOK, Hangs
  <1>3. StepOf(a)
    BY <1>1, <1>2, KnownHere DEF StepOf, Turns, Live
  <1>4. QED
    BY <1>1, <1>3, CarriesNothing, StepKeeps DEF Turns, PicturesInv, TasksKnow

LEMMA DropPicturesKeeps ==
  ASSUME CatalogueTypeOK, PicturesInv, NEW a \in Admin, NEW P \in SUBSET Picture,
         \A p \in P : Known(p), DropPictures(a, P)
  PROVE  PicturesInv'
  <1>1. /\ Turns(a, "drop image row", NoBook, NoPicture, P)
        /\ named' = named \cup P /\ cloud' = cloud \ P
        /\ UNCHANGED <<book, thumbnail, image, uploads>>
    BY DropPicturesIs DEF PicturesInv
  <1>2. StepOf(a)
    BY <1>1, KnownHere DEF StepOf, Turns, Removes, Live
  <1>3. Knows(a)' /\ KnownTo(a)' /\ Spare(a)' /\ Drops(a)'
    <2>1. PICK new : new = NoPicture
      OBVIOUS
    <2>2. Turns(a, "drop image row", NoBook, new, P) /\ new \in named' \cup {NoPicture, Elsewhere}
      BY <1>1, <2>1
    <2>3. Known(new)' /\ \A p \in P : Known(p)'
      BY <1>1, <2>1, NoPictures DEF Known
    <2>4. QED
      BY <2>2, <2>3, CarriesNone
  <1>4. QED
    BY <1>1, <1>2, <1>3, StepKeeps DEF Turns, PicturesInv, TasksKnow

LEMMA DropImageRowKeeps ==
  ASSUME CatalogueTypeOK, PicturesInv, NEW a \in Admin, DropImageRow(a) PROVE PicturesInv'
  <1>1. /\ Turns(a, "idle", NoBook, NoPicture, {})
        /\ UNCHANGED <<book, thumbnail, cloud, uploads, named>>
        /\ image' = [p \in Picture |-> IF p \in task[a].old THEN NoBook ELSE image[p]]
    BY DropImageRowIs DEF PicturesInv
  <1>2. StepOf(a)
    BY <1>1, KnownHere DEF StepOf, Turns, Live
  <1>3. QED
    BY <1>1, <1>2, CarriesNothing, StepKeeps DEF Turns, PicturesInv, TasksKnow

\* The invariant of the pictures holds of an empty catalogue.
LEMMA InitPictures == CatalogueInit => PicturesInv
  <1> SUFFICES ASSUME CatalogueInit PROVE PicturesInv
    OBVIOUS
  <1>1. /\ \A a \in Admin : task[a] = NoTask
        /\ \A b \in Book : thumbnail[b] = NoPicture /\ book[b] = "none"
        /\ \A p \in Picture : image[p] = NoBook
        /\ uploads = 0
    BY DEF CatalogueInit
  <1>2. /\ NoTask.pc = "idle" /\ NoTask.new = NoPicture /\ NoTask.old = {}
        /\ NoPicture \notin Picture /\ 0 \in 0..Pictures
    <2>1. Pictures \in Nat /\ NoPicture \notin Picture
      BY CatalogueAssumption DEF Picture
    <2>2. 0 \in 0..Pictures
      BY <2>1
    <2>3. NoTask.pc = "idle" /\ NoTask.new = NoPicture /\ NoTask.old = {}
      BY DEF NoTask
    <2>4. QED
      BY <2>1, <2>2, <2>3
  <1>3. \A a \in Admin : task[a].pc = "idle" /\ task[a].new = NoPicture /\ task[a].old = {}
    BY <1>1, <1>2
  <1>4. task \in [Admin -> TaskType]
    BY NoTaskTyped DEF CatalogueInit
  <1>5. TasksKnow
    BY <1>1, <1>2, <1>3, <1>4 DEF TasksKnow, Knows, Deleting
  <1>6. OnlyUploads
    BY <1>1, <1>2, <1>3 DEF OnlyUploads, Known, KnownTo
  <1>7. FreshIsNobodys /\ DropsOwn
    BY <1>3 DEF FreshIsNobodys, Spare, Fresh, DropsOwn, Drops, Replacing
  <1>8. OnePlace /\ ShownPicturesExist
    BY <1>1, <1>2 DEF OnePlace, ShownPicturesExist, Live
  <1>9. QED
    BY <1>5, <1>6, <1>7, <1>8 DEF PicturesInv

\* Every step keeps it.
LEMMA NextPictures ==
  CatalogueTypeOK /\ PicturesInv /\ [CatalogueNext]_catalogueVars => PicturesInv'
  <1> SUFFICES ASSUME CatalogueTypeOK, PicturesInv, [CatalogueNext]_catalogueVars
               PROVE  PicturesInv'
    OBVIOUS
  <1>1. ASSUME NEW a \in Admin, Handle(a) PROVE PicturesInv'
    <2>1. CASE TaskFails(a)
      BY <2>1, TaskFailsIs, TakesNothing, KnownHere
    <2>2. QED
      BY <1>1, <2>1, UploadKeeps, CreateRowKeeps, UpdateRowKeeps, DropOldKeeps, DeletionKeeps,
         DeleteRowKeeps, AddImageRowKeeps, DropImageRowKeeps DEF Handle
  <1>2. ASSUME NEW a \in Admin, NEW b \in Book, NEW L \in SUBSET Label, NEW keep \in BOOLEAN,
               CreateBook(a, b, L) \/ UpdateBook(a, b, L, keep) \/ DeleteBook(a, b) \/ AddImage(a, b)
        PROVE  PicturesInv'
    <2>1. CASE CreateBook(a, b, L) \/ AddImage(a, b)
      BY <2>1, CreateBookIs, AddImageIs, TakesNothing, KnownHere
    <2>2. QED
      BY <1>2, <2>1, UpdateBookKeeps, DeleteBookKeeps
  <1>3. ASSUME NEW a \in Admin, NEW P \in SUBSET (1..uploads), DropPictures(a, P)
        PROVE  PicturesInv'
    <2>1. uploads \in Nat /\ Pictures \in Nat /\ uploads \in 0..Pictures
      BY KnownHere DEF TasksKnow
    <2>2. P \in SUBSET Picture /\ \A p \in P : Known(p)
      BY <1>3, <2>1 DEF Picture, Known
    <2>3. QED
      BY <1>3, <2>2, DropPicturesKeeps
  <1>d. ASSUME NEW a \in Admin, NEW p \in Picture, DropImage(a, p) PROVE PicturesInv'
    <2>1. Known(p) /\ DropPictures(a, {p})
      BY <1>d, KnownHere DEF DropImage, OnlyUploads
    <2>2. PICK P : P = {p}
      OBVIOUS
    <2>3. P \in SUBSET Picture /\ (\A x \in P : Known(x)) /\ DropPictures(a, P)
      BY <2>1, <2>2
    <2>4. QED
      BY <2>3, DropPicturesKeeps
  <1>4. ASSUME UNCHANGED PictureRows, task' = task PROVE PicturesInv'
    BY <1>4, PicturesStay
  <1>5. ASSUME NEW l, CreateLabel(l) \/ DeleteLinked(l) PROVE PicturesInv'
    BY <1>4, <1>5 DEF CreateLabel, DeleteLinked, PictureRows, rows
  <1>6. ASSUME NEW q, NEW B, CreatePromotion(q, B) \/ UpdatePromotion(q, B) PROVE PicturesInv'
    BY <1>4, <1>6 DEF CreatePromotion, UpdatePromotion, PictureRows, rows
  <1>7. ASSUME NEW b, UseBook(b) \/ Review(b) \/ Unreview(b) PROVE PicturesInv'
    BY <1>4, <1>7 DEF UseBook, Review, Unreview, PictureRows, rows
  <1>8. CASE UNCHANGED catalogueVars
    BY <1>4, <1>8 DEF catalogueVars, PictureRows
  <1>9. QED
    BY <1>1, <1>2, <1>3, <1>d, <1>5, <1>6, <1>7, <1>8 DEF CatalogueNext

\* Links, images, cart items and reviews refer to books that exist (the foreign
\* keys the repositories rely on).
THEOREM CatalogueTyped == CatalogueInit /\ [][CatalogueNext]_catalogueVars => []CatalogueTypeOK
  <1>1. CatalogueInit => CatalogueTypeOK /\ PicturesInv
    BY InitCatalogueTyped, InitPictures
  <1>2. CatalogueTypeOK /\ PicturesInv /\ [CatalogueNext]_catalogueVars
          => CatalogueTypeOK' /\ PicturesInv'
    BY NextCatalogueTyped, NextPictures DEF PicturesInv
  <1>3. QED
    BY <1>1, <1>2, PTL

\* A live book shows no picture that Cloudinary has lost, unless a request named
\* that picture, to show it or to remove it: for any books, pictures and
\* administrators who upload, write and drop at the same time (updateBook,
\* deleteBook, the handlers of images).
THEOREM PicturesStayShown ==
  CatalogueInit /\ [][CatalogueNext]_catalogueVars => []ShownPicturesExist
  <1>1. CatalogueInit => CatalogueTypeOK /\ PicturesInv
    BY InitCatalogueTyped, InitPictures
  <1>2. CatalogueTypeOK /\ PicturesInv /\ [CatalogueNext]_catalogueVars
          => CatalogueTypeOK' /\ PicturesInv'
    BY NextCatalogueTyped, NextPictures DEF PicturesInv
  <1>3. PicturesInv => ShownPicturesExist
    BY DEF PicturesInv
  <1>4. QED
    BY <1>1, <1>2, <1>3, PTL

-----------------------------------------------------------------------------
(* The cart: tabs, rows and the checkouts that have them.                  *)

Busy == {"ordering", "placed"}
Holds(t, b) == tab[t].pc \in Busy /\ b \in DOMAIN tab[t].lines
HoldsPlaced(t, b) == tab[t].pc = "placed" /\ b \in DOMAIN tab[t].lines

Formed(r) ==
    r = [pc |-> r.pc, title |-> r.title, units |-> r.units, id |-> r.id,
         lines |-> r.lines, voucher |-> r.voucher]
FormedLine(l) ==
    l = [id |-> l.id, quantity |-> l.quantity, price |-> l.price, rate |-> l.rate]

\* A line of b is of a row that was there, and no other book ever gets its id.
LineKnown(b, l) ==
    /\ b \in Title /\ FormedLine(l)
    /\ l.id \in 1..rowIds /\ l.quantity \in 0..MaxUnits
    /\ \A c \in Title \ {b} : item[c].id # l.id

\* What is known of a tab.
TabKnows(t) ==
    /\ Formed(tab[t])
    /\ tab[t].pc \in {"create cart", "find", "add", "change"} =>
          tab[t].title \in Title /\ tab[t].units \in 1..MaxUnits
    /\ tab[t].pc \in {"find", "add", "change"} => cart
    /\ tab[t].pc \in Busy =>
          /\ tab[t].lines = [b \in DOMAIN tab[t].lines |-> tab[t].lines[b]]
          /\ \A b \in DOMAIN tab[t].lines : LineKnown(b, tab[t].lines[b])
TabsKnow == tab = [t \in Tab |-> tab[t]] /\ \A t \in Tab : TabKnows(t)

\* An id is of one book, and a book without a row has no units.
RowsOwnIds ==
    \A b \in Title :
        /\ ~Row(b) => item[b].quantity = 0
        /\ \A c \in Title \ {b} : Row(b) => item[c].id # item[b].id

\* A book that did not race is in one checkout at most, which has read the row
\* that is there; once it is ordered, nothing else of it is in the cart.
CalmAt(b) ==
    /\ \A t \in Tab : Holds(t, b) =>
          /\ item[b].id = tab[t].lines[b].id
          /\ item[b].quantity = tab[t].lines[b].quantity
    /\ \A t, u \in Tab : Holds(t, b) /\ Holds(u, b) => t = u
    /\ \A t \in Tab : HoldsPlaced(t, b) => balance[b] = 0
    /\ (\A t \in Tab : ~HoldsPlaced(t, b)) => item[b].quantity = balance[b]
Calm == \A b \in Title \ raced : CalmAt(b)

CartInv == CartTypeOK /\ TabsKnow /\ RowsOwnIds /\ Calm

\* The units of b that are ordered and not cleaned up: none, or those of the one
\* tab that holds them. The sum is a function on the subsets of the tabs.
OrderedBy(b) == {t \in Tab : Tabs(t, "placed") /\ b \in DOMAIN tab[t].lines}
SumStep(b, g) ==
    [s \in SUBSET OrderedBy(b) |->
        IF s = {} THEN 0
        ELSE LET x == CHOOSE x \in s : TRUE IN tab[x].lines[b].quantity + g[s \ {x}]]

LEMMA PlacedSums == ASSUME NEW b PROVE Placed(b) = (CHOOSE g : g = SumStep(b, g))[OrderedBy(b)]
  BY DEF Placed, MapThenSumSet, MapThenFoldSet, SumStep, OrderedBy

LEMMA PlacedNone == ASSUME NEW b, OrderedBy(b) = {} PROVE Placed(b) = 0
  <1> DEFINE g == [s \in SUBSET OrderedBy(b) |-> 0]
  <1>1. g = SumStep(b, g)
    BY DEF SumStep
  <1>2. PICK h : h = (CHOOSE k : k = SumStep(b, k)) /\ h = SumStep(b, h)
    BY <1>1
  <1>3. h[OrderedBy(b)] = 0
    BY <1>2 DEF SumStep
  <1>4. QED
    BY <1>2, <1>3, PlacedSums

LEMMA PlacedOne ==
  ASSUME NEW b, NEW t, OrderedBy(b) = {t}, tab[t].lines[b].quantity \in Int
  PROVE  Placed(b) = tab[t].lines[b].quantity
  <1> DEFINE q == tab[t].lines[b].quantity
             g == [s \in SUBSET OrderedBy(b) |-> IF s = {} THEN 0 ELSE q]
  <1>1. \A s \in SUBSET {t} : s # {} => s = {t} /\ (CHOOSE x \in s : TRUE) = t /\ s \ {t} = {}
    <2>1. \A s \in SUBSET {t} : s # {} => s = {t}
      OBVIOUS
    <2>2. (CHOOSE x \in {t} : TRUE) = t
      OBVIOUS
    <2>3. QED
      BY <2>1, <2>2
  <1>2. g[{}] = 0 /\ {} \in SUBSET OrderedBy(b)
    OBVIOUS
  <1>3. ASSUME NEW s \in SUBSET OrderedBy(b), s # {}
        PROVE  g[s] = tab[CHOOSE x \in s : TRUE].lines[b].quantity + g[s \ {CHOOSE x \in s : TRUE}]
    <2>1. s = {t} /\ (CHOOSE x \in s : TRUE) = t /\ s \ {t} = {}
      BY <1>1, <1>3
    <2>2. g[s] = q /\ q + 0 = q
      BY <1>3
    <2>3. QED
      BY <1>2, <2>1, <2>2
  <1>4. g = SumStep(b, g)
    <2>1. g = [s \in SUBSET OrderedBy(b) |-> g[s]]
      OBVIOUS
    <2> HIDE DEF g
    <2>2. QED
      BY <1>2, <1>3, <2>1 DEF SumStep
  <1> HIDE DEF g
  <1>5. PICK h : h = (CHOOSE k : k = SumStep(b, k)) /\ h = SumStep(b, h)
    BY <1>4
  <1>6. h[{}] = 0
    BY <1>5 DEF SumStep
  <1>7. h[{t}] = tab[CHOOSE x \in {t} : TRUE].lines[b].quantity + h[{t} \ {CHOOSE x \in {t} : TRUE}]
    BY <1>5 DEF SumStep
  <1>8. h[{t}] = q
    BY <1>1, <1>6, <1>7
  <1>9. QED
    BY <1>5, <1>8, PlacedSums

\* A tab turns to pc with the book, the units and the lines it has then.
Turned(t, pc, title, units, lines) ==
    /\ tab' = [i \in Tab |-> tab'[i]]
    /\ \A i \in Tab \ {t} : tab'[i] = tab[i]
    /\ Formed(tab'[t])
    /\ tab'[t].pc = pc /\ tab'[t].title = title /\ tab'[t].units = units
    /\ tab'[t].lines = lines
Left(t) == \E title, units, lines : Turned(t, "idle", title, units, lines)

\* A tab becomes the record that is written.
LEMMA TurnsTo ==
  ASSUME tab = [i \in Tab |-> tab[i]], NEW t \in Tab, NEW x, Formed(x), tab' = [tab EXCEPT ![t] = x]
  PROVE  Turned(t, x.pc, x.title, x.units, x.lines)
  BY DEF Turned

\* A request that ends leaves its tab idle.
LEMMA ClosesLeaves ==
  ASSUME TabsKnow, NEW t \in Tab, Closes(t) PROVE Left(t)
  <1>1. PICK x : x = IdleTab
    OBVIOUS
  <1>2. Formed(x) /\ x.pc = "idle"
    BY <1>1 DEF IdleTab, Formed
  <1>3. tab' = [tab EXCEPT ![t] = x] /\ tab = [i \in Tab |-> tab[i]]
    BY <1>1 DEF Closes, TabsKnow
  <1>4. Turned(t, x.pc, x.title, x.units, x.lines)
    BY <1>2, <1>3, TurnsTo
  <1>5. QED
    BY <1>2, <1>4 DEF Left

\* The tab of a step, as a record.
LEMMA TabIs ==
  ASSUME TabsKnow, NEW t \in Tab
  PROVE  tab = [i \in Tab |-> tab[i]] /\ Formed(tab[t])
  BY DEF TabsKnow, TabKnows

\* The books a step tracks are raced when a checkout has them.
LEMMA TrackIs ==
  ASSUME NEW S \in SUBSET Title, NEW new, Track(S, new), raced \subseteq Title
  PROVE  /\ raced' \subseteq Title /\ raced \subseteq raced'
         /\ \A b \in S \ raced' : \A t \in Tab : ~Holds(t, b)
         /\ \A b \in Title \ raced' : balance'[b] = new[b]
         /\ (\A b \in Title : new[b] \in Int) => balance' \in [Title -> Int]
  <1>1. /\ raced' = raced \cup {b \in S : Held(b)}
        /\ balance' = [b \in Title |-> IF b \in raced' THEN 0 ELSE new[b]]
    BY DEF Track
  <1>2. \A b : (\E t \in Tab : Holds(t, b)) => Held(b)
    BY DEF Held, Holds, Busy
  <1>3. raced' \subseteq Title /\ raced \subseteq raced'
    BY <1>1
  <1>4. \A b \in S \ raced' : ~Held(b)
    BY <1>1
  <1>5. \A b \in Title \ raced' : balance'[b] = new[b]
    BY <1>1
  <1>6. ASSUME \A b \in Title : new[b] \in Int PROVE balance' \in [Title -> Int]
    <2>1. \A b \in Title : (IF b \in raced' THEN 0 ELSE new[b]) \in Int
      BY <1>6
    <2>2. QED
      BY <1>1, <2>1
  <1>7. QED
    BY <1>2, <1>3, <1>4, <1>5, <1>6

\* What each action does. The rows of a step, one by one.
LEMMA AddIs ==
  ASSUME TabsKnow, NEW t \in Tab, NEW b \in Title, Add(t, b, 1)
  PROVE  /\ tab[t].pc = "idle" /\ UNCHANGED <<cart, item, rowIds, balance, raced>>
         /\ \E lines : \/ cart /\ Turned(t, "find", b, 1, lines)
                       \/ Turned(t, "create cart", b, 1, lines)
  <1>1. PICK x : x = IdleTab
    OBVIOUS
  <1>2. Formed(x)
    BY <1>1 DEF IdleTab, Formed
  <1>3. PICK pc : pc = (IF cart THEN "find" ELSE "create cart")
    OBVIOUS
  <1>4. PICK y : y = [x EXCEPT !.pc = pc, !.title = b, !.units = 1]
    OBVIOUS
  <1>5. Formed(y) /\ y.pc = pc /\ y.title = b /\ y.units = 1
    BY <1>2, <1>4 DEF Formed
  <1>6. tab' = [tab EXCEPT ![t] = y] /\ tab = [i \in Tab |-> tab[i]]
    BY <1>1, <1>3, <1>4 DEF Add, TabsKnow
  <1>7. Turned(t, y.pc, y.title, y.units, y.lines)
    BY <1>5, <1>6, TurnsTo
  <1>8. Turned(t, pc, b, 1, y.lines)
    BY <1>5, <1>7
  <1>9. QED
    BY <1>3, <1>8 DEF Add, Tabs

LEMMA CreateCartIs ==
  ASSUME TabsKnow, NEW t \in Tab, CreateCart(t)
  PROVE  /\ tab[t].pc = "create cart" /\ cart' = TRUE /\ UNCHANGED <<item, rowIds, balance, raced>>
         /\ \/ Left(t)
            \/ Turned(t, "find", tab[t].title, tab[t].units, tab[t].lines)
  <1>1. PICK x : x = tab[t]
    OBVIOUS
  <1>2. Formed(x) /\ tab = [i \in Tab |-> tab[i]]
    BY <1>1, TabIs
  <1>3. CASE tab' = [tab EXCEPT ![t].pc = "find"]
    <2>1. PICK y : y = [x EXCEPT !.pc = "find"]
      OBVIOUS
    <2>2. Formed(y) /\ y.pc = "find" /\ y.title = x.title /\ y.units = x.units /\ y.lines = x.lines
      BY <1>2, <2>1 DEF Formed
    <2>3. tab' = [tab EXCEPT ![t] = y]
      BY <1>1, <1>2, <1>3, <2>1
    <2>4. Turned(t, y.pc, y.title, y.units, y.lines)
      BY <1>2, <2>2, <2>3, TurnsTo
    <2>5. Turned(t, "find", x.title, x.units, x.lines)
      BY <2>2, <2>4
    <2>6. QED
      BY <1>1, <2>5 DEF CreateCart, Tabs
  <1>4. QED
    BY <1>3, ClosesLeaves DEF CreateCart, Tabs

LEMMA FindRowIs ==
  ASSUME TabsKnow, NEW t \in Tab, FindRow(t)
  PROVE  /\ tab[t].pc = "find" /\ UNCHANGED <<cart, item, rowIds, balance, raced>>
         /\ Turned(t, "add", tab[t].title, tab[t].units, tab[t].lines)
  <1>1. PICK x : x = tab[t]
    OBVIOUS
  <1>2. Formed(x) /\ tab = [i \in Tab |-> tab[i]]
    BY <1>1, TabIs
  <1>3. PICK n : n = item[tab[t].title].id
    OBVIOUS
  <1>4. PICK y : y = [x EXCEPT !.id = n, !.pc = "add"]
    OBVIOUS
  <1>5. Formed(y) /\ y.pc = "add" /\ y.title = x.title /\ y.units = x.units /\ y.lines = x.lines
    BY <1>2, <1>4 DEF Formed
  <1>6. tab' = [tab EXCEPT ![t] = y]
    <2>1. tab' = [tab EXCEPT ![t].id = n, ![t].pc = "add"]
      BY <1>3 DEF FindRow
    <2>2. QED
      BY <1>1, <1>2, <1>4, <2>1
  <1>7. Turned(t, y.pc, y.title, y.units, y.lines)
    BY <1>2, <1>5, <1>6, TurnsTo
  <1>8. Turned(t, "add", x.title, x.units, x.lines)
    BY <1>5, <1>7
  <1>9. QED
    BY <1>1, <1>8 DEF FindRow, Tabs

LEMMA ChangeIs ==
  ASSUME TabsKnow, NEW t \in Tab, NEW b \in Title, NEW n \in 1..MaxUnits, Change(t, b, n)
  PROVE  /\ tab[t].pc = "idle" /\ Row(b) /\ UNCHANGED <<cart, item, rowIds, balance, raced>>
         /\ \E lines : Turned(t, "change", b, n, lines)
  <1>1. PICK x : x = IdleTab
    OBVIOUS
  <1>2. Formed(x)
    BY <1>1 DEF IdleTab, Formed
  <1>3. PICK k : k = item[b].id
    OBVIOUS
  <1>4. PICK y : y = [x EXCEPT !.pc = "change", !.title = b, !.units = n, !.id = k]
    OBVIOUS
  <1>5. Formed(y) /\ y.pc = "change" /\ y.title = b /\ y.units = n
    BY <1>2, <1>4 DEF Formed
  <1>6. tab' = [tab EXCEPT ![t] = y] /\ tab = [i \in Tab |-> tab[i]]
    BY <1>1, <1>3, <1>4 DEF Change, TabsKnow
  <1>7. Turned(t, y.pc, y.title, y.units, y.lines)
    BY <1>5, <1>6, TurnsTo
  <1>8. Turned(t, "change", b, n, y.lines)
    BY <1>5, <1>7
  <1>9. QED
    BY <1>8 DEF Change, Tabs

\* The rows after a step: a row keeps its id or goes, or one new row has a new id.
RowsStep ==
    /\ rowIds' \in {rowIds, rowIds + 1} /\ rowIds' \in 0..MaxRows
    /\ item' \in [Title -> [id : 0..rowIds', quantity : 0..MaxUnits]]
    /\ \A b \in Title : item'[b].id # 0 => cart' /\ item'[b].quantity > 0
    /\ \A b \in Title : item'[b].id = 0 => item'[b].quantity = 0
    /\ \/ \A b \in Title : item'[b].id \in {0, item[b].id}
       \/ \E c \in Title : /\ rowIds' = rowIds + 1 /\ item'[c].id = rowIds + 1
                           /\ \A b \in Title \ {c} : item'[b].id \in {0, item[b].id}

\* The numbers of the rows are numbers.
LEMMA IdsAre ==
  ASSUME CartTypeOK
  PROVE  /\ rowIds \in Nat
         /\ \A b \in Title : /\ item[b].id \in 0..rowIds /\ item[b].quantity \in 0..MaxUnits
                             /\ item[b].id \in Int /\ item[b].quantity \in Int
                             /\ balance[b] \in Int
  <1>1. rowIds \in Nat /\ MaxUnits \in Nat
    <2>1. MaxRows \in Nat /\ MaxUnits \in Nat /\ rowIds \in 0..MaxRows
      BY CartAssumption DEF CartTypeOK
    <2>2. QED
      BY <2>1
  <1>2. item \in [Title -> [id : 0..rowIds, quantity : 0..MaxUnits]] /\ balance \in [Title -> Int]
    BY DEF CartTypeOK
  <1>3. \A b \in Title : item[b].id \in 0..rowIds /\ item[b].quantity \in 0..MaxUnits
    BY <1>2
  <1>4. QED
    BY <1>1, <1>2, <1>3

\* Ids stay with their books, and a line stays of a row of its book.
LEMMA RowsKeep ==
  ASSUME CartTypeOK, RowsOwnIds, RowsStep
  PROVE  /\ RowsOwnIds'
         /\ \A b, l : LineKnown(b, l) => (LineKnown(b, l))'
  <1>1. rowIds \in Nat /\ (\A b \in Title : item[b].id \in 0..rowIds)
    BY IdsAre
  <1>2. /\ \A b \in Title : ~Row(b) => item[b].quantity = 0
        /\ \A b, c \in Title : b # c /\ item[b].id # 0 => item[c].id # item[b].id
    BY DEF RowsOwnIds, Row
  <1>3. /\ \A b \in Title : item'[b].id = 0 => item'[b].quantity = 0
        /\ rowIds' \in {rowIds, rowIds + 1}
        /\ \/ \A b \in Title : item'[b].id \in {0, item[b].id}
           \/ \E c \in Title : /\ rowIds' = rowIds + 1 /\ item'[c].id = rowIds + 1
                               /\ \A b \in Title \ {c} : item'[b].id \in {0, item[b].id}
    BY DEF RowsStep
  <1>4. \A i \in 0..rowIds : i # rowIds + 1 /\ i \in 0..(rowIds + 1)
    BY <1>1
  <1>5. rowIds + 1 # 0
    BY <1>1
  <1>6. \A b \in Title : item'[b].id \in {0, item[b].id} \/ item'[b].id = rowIds + 1
    BY <1>3
  <1>7. \A b, c \in Title : b # c /\ item'[b].id # 0 => item'[c].id # item'[b].id
    <2>1. SUFFICES ASSUME NEW b \in Title, NEW c \in Title, b # c, item'[b].id # 0
                   PROVE  item'[c].id # item'[b].id
      OBVIOUS
    <2>2. /\ item[b].id # 0 => item[c].id # item[b].id
          /\ item[b].id # rowIds + 1 /\ item[c].id # rowIds + 1
      BY <1>1, <1>2, <1>4, <2>1
    <2>3. CASE \A d \in Title : item'[d].id \in {0, item[d].id}
      <3>1. item'[b].id \in {0, item[b].id} /\ item'[c].id \in {0, item[c].id}
        BY <2>3
      <3>2. QED
        BY <2>1, <2>2, <3>1
    <2>4. ASSUME NEW d \in Title, item'[d].id = rowIds + 1,
                 \A e \in Title \ {d} : item'[e].id \in {0, item[e].id}
          PROVE  item'[c].id # item'[b].id
      <3>1. b # d => item'[b].id \in {0, item[b].id}
        BY <2>4
      <3>2. c # d => item'[c].id \in {0, item[c].id}
        BY <2>4
      <3>3. QED
        BY <1>5, <2>1, <2>2, <2>4, <3>1, <3>2
    <2>5. QED
      BY <1>3, <2>3, <2>4
  <1>8. RowsOwnIds'
    BY <1>3, <1>7 DEF RowsOwnIds, Row
  <1>9. ASSUME NEW b, NEW l, LineKnown(b, l) PROVE (LineKnown(b, l))'
    <2>1. /\ b \in Title /\ FormedLine(l) /\ l.id \in 1..rowIds /\ l.quantity \in 0..MaxUnits
          /\ \A c \in Title \ {b} : item[c].id # l.id
      BY <1>9 DEF LineKnown
    <2>2. l.id # 0 /\ l.id # rowIds + 1 /\ l.id \in 1..rowIds'
      BY <1>1, <1>3, <2>1
    <2>3. \A c \in Title \ {b} : item'[c].id # l.id
      BY <1>6, <2>1, <2>2
    <2>4. QED
      BY <2>1, <2>2, <2>3 DEF LineKnown
  <1>10. QED
    BY <1>8, <1>9

\* A tab that turns, and the others.
LEMMA TabsKeep ==
  ASSUME TabsKnow, cart => cart', \A b, l : LineKnown(b, l) => (LineKnown(b, l))',
         NEW t \in Tab, NEW pc, NEW title, NEW units, NEW lines, Turned(t, pc, title, units, lines),
         pc \in {"create cart", "find", "add", "change"} => title \in Title /\ units \in 1..MaxUnits,
         pc \in {"find", "add", "change"} => cart',
         pc \in Busy => /\ lines = [b \in DOMAIN lines |-> lines[b]]
                        /\ \A b \in DOMAIN lines : (LineKnown(b, lines[b]))'
  PROVE  TabsKnow'
  <1>1. /\ tab' = [i \in Tab |-> tab'[i]] /\ (\A i \in Tab \ {t} : tab'[i] = tab[i])
        /\ Formed(tab'[t]) /\ tab'[t].pc = pc /\ tab'[t].title = title /\ tab'[t].units = units
        /\ tab'[t].lines = lines
    BY DEF Turned
  <1>2. TabKnows(t)'
    BY <1>1 DEF TabKnows
  <1>3. ASSUME NEW i \in Tab \ {t} PROVE TabKnows(i)'
    <2>1. TabKnows(i) /\ tab'[i] = tab[i]
      BY <1>1 DEF TabsKnow
    <2>2. QED
      BY <2>1 DEF TabKnows
  <1>4. QED
    BY <1>1, <1>2, <1>3 DEF TabsKnow

\* The tabs when none of them turns.
LEMMA SameTabsKeep ==
  ASSUME TabsKnow, cart => cart', \A b, l : LineKnown(b, l) => (LineKnown(b, l))', tab' = tab
  PROVE  TabsKnow'
  BY DEF TabsKnow, TabKnows

\* A book no row, no count and no checkout of which changes stays calm.
LEMMA CalmStays ==
  ASSUME NEW b \in Title, CalmAt(b), item'[b] = item[b], balance'[b] = balance[b],
         \A t \in Tab : /\ (Holds(t, b))' => Holds(t, b) /\ tab'[t].lines[b] = tab[t].lines[b]
                        /\ (HoldsPlaced(t, b))' <=> HoldsPlaced(t, b)
  PROVE  CalmAt(b)'
  <1>1. \A t \in Tab : (Holds(t, b))' =>
          /\ item[b].id = tab'[t].lines[b].id
          /\ item[b].quantity = tab'[t].lines[b].quantity
    BY DEF CalmAt
  <1>2. \A t, u \in Tab : (Holds(t, b))' /\ (Holds(u, b))' => t = u
    BY DEF CalmAt
  <1>3. \A t \in Tab : (HoldsPlaced(t, b))' => balance'[b] = 0
    BY DEF CalmAt
  <1>4. (\A t \in Tab : ~(HoldsPlaced(t, b))') => item'[b].quantity = balance'[b]
    BY DEF CalmAt
  <1>5. QED
    BY <1>1, <1>2, <1>3, <1>4 DEF CalmAt

\* A book no checkout has is calm when its count is right.
LEMMA CalmFree ==
  ASSUME NEW b \in Title, \A t \in Tab : ~(Holds(t, b))', item'[b].quantity = balance'[b]
  PROVE  CalmAt(b)'
  <1>1. \A t \in Tab : ~(HoldsPlaced(t, b))'
    BY DEF Holds, HoldsPlaced, Busy
  <1>2. QED
    BY <1>1 DEF CalmAt

\* A tab that has nothing of b when it turns to what is no checkout changes
\* nobody's hold on b.
LEMMA OthersHold ==
  ASSUME NEW t \in Tab, NEW pc, NEW title, NEW units, NEW lines, Turned(t, pc, title, units, lines)
  PROVE  \A i \in Tab \ {t} : \A b : /\ (Holds(i, b))' <=> Holds(i, b)
                                     /\ (HoldsPlaced(i, b))' <=> HoldsPlaced(i, b)
                                     /\ tab'[i].lines = tab[i].lines
  BY DEF Turned, Holds, HoldsPlaced

\* A tab that is in no checkout has no book.
LEMMA HoldsNothing ==
  ASSUME NEW t \in Tab, NEW pc, NEW title, NEW units, NEW lines, Turned(t, pc, title, units, lines),
         pc \notin Busy
  PROVE  \A b : ~(Holds(t, b))' /\ ~(HoldsPlaced(t, b))'
  BY DEF Turned, Holds, HoldsPlaced, Busy

\* The steps that leave the rows: only a tab turns, not from "placed".
LEMMA TurningKeeps ==
  ASSUME CartInv, UNCHANGED <<item, rowIds, balance, raced>>, cart' \in BOOLEAN, cart => cart',
         NEW t \in Tab, tab[t].pc # "placed",
         NEW pc, NEW title, NEW units, NEW lines, Turned(t, pc, title, units, lines), pc \notin Busy,
         pc \in {"create cart", "find", "add", "change"} => title \in Title /\ units \in 1..MaxUnits,
         pc \in {"find", "add", "change"} => cart'
  PROVE  CartInv'
  <1>1. CartTypeOK /\ TabsKnow /\ RowsOwnIds /\ Calm
    BY DEF CartInv
  <1>2. CartTypeOK'
    BY <1>1 DEF CartTypeOK, Row
  <1>3. RowsOwnIds'
    BY <1>1 DEF RowsOwnIds, Row
  <1>4. \A b, l : LineKnown(b, l) => (LineKnown(b, l))'
    BY DEF LineKnown
  <1>5. TabsKnow'
    BY <1>1, <1>4, TabsKeep
  <1>6. ASSUME NEW b \in Title \ raced PROVE CalmAt(b)'
    <2>1. \A i \in Tab : (Holds(i, b))' => Holds(i, b) /\ tab'[i].lines[b] = tab[i].lines[b]
      BY HoldsNothing, OthersHold
    <2>2. \A i \in Tab : (HoldsPlaced(i, b))' <=> HoldsPlaced(i, b)
      <3>1. ~HoldsPlaced(t, b)
        BY DEF HoldsPlaced
      <3>2. QED
        BY <3>1, HoldsNothing, OthersHold
    <2>3. QED
      BY <1>1, <2>1, <2>2, CalmStays DEF Calm
  <1>7. Calm'
    BY <1>6 DEF Calm
  <1>8. QED
    BY <1>2, <1>3, <1>5, <1>7 DEF CartInv

LEMMA LeavingKeeps ==
  ASSUME CartInv, UNCHANGED <<item, rowIds, balance, raced>>, cart' \in BOOLEAN, cart => cart',
         NEW t \in Tab, tab[t].pc # "placed", Left(t)
  PROVE  CartInv'
  <1>1. PICK title, units, lines : Turned(t, "idle", title, units, lines)
    BY DEF Left
  <1>2. PICK pc : pc = "idle"
    OBVIOUS
  <1>3. pc \notin Busy /\ pc \notin {"create cart", "find", "add", "change"}
    BY <1>2 DEF Busy
  <1>4. Turned(t, pc, title, units, lines)
    BY <1>1, <1>2
  <1>5. QED
    BY <1>3, <1>4, TurningKeeps

\* The steps that write rows of S: they are counted, and raced when a checkout
\* has them.
LEMMA WritingKeeps ==
  ASSUME CartInv, cart' = cart, RowsStep, NEW S \in SUBSET Title,
         \A b \in Title \ S : item'[b] = item[b],
         NEW new, Track(S, new),
         \A b \in Title : new[b] = balance[b] + item'[b].quantity - item[b].quantity,
         tab' = tab \/ \E t \in Tab : tab[t].pc \notin Busy /\ Left(t)
  PROVE  CartInv'
  <1>1. CartTypeOK /\ TabsKnow /\ RowsOwnIds /\ Calm
    BY DEF CartInv
  <1>2. RowsOwnIds' /\ (\A b, l : LineKnown(b, l) => (LineKnown(b, l))')
    BY <1>1, RowsKeep
  <1>3. raced \subseteq Title
    BY <1>1 DEF CartTypeOK
  <1>4. /\ raced' \subseteq Title /\ raced \subseteq raced'
        /\ \A b \in S \ raced' : \A t \in Tab : ~Holds(t, b)
        /\ \A b \in Title \ raced' : balance'[b] = new[b]
        /\ (\A b \in Title : new[b] \in Int) => balance' \in [Title -> Int]
    BY <1>3, TrackIs
  <1>5. \A b \in Title : item[b].quantity \in Int /\ balance[b] \in Int
    BY <1>1, IdsAre
  <1>6. \A b \in Title : item'[b].quantity \in Int
    <2>1. item' \in [Title -> [id : 0..rowIds', quantity : 0..MaxUnits]]
      BY DEF RowsStep
    <2>2. \A b \in Title : item'[b].quantity \in 0..MaxUnits
      BY <2>1
    <2>3. QED
      BY <2>2
  <1>7. balance' \in [Title -> Int]
    BY <1>4, <1>5, <1>6
  <1>8. CartTypeOK'
    <2>1. cart \in BOOLEAN
      BY <1>1 DEF CartTypeOK
    <2>2. QED
      BY <1>4, <1>7, <2>1 DEF CartTypeOK, RowsStep, Row
  <1>9. /\ TabsKnow'
        /\ \A i \in Tab, b \in Title :
             /\ (Holds(i, b))' => Holds(i, b) /\ tab'[i].lines[b] = tab[i].lines[b]
             /\ (HoldsPlaced(i, b))' <=> HoldsPlaced(i, b)
    <2>1. CASE tab' = tab
      BY <1>1, <1>2, <2>1, SameTabsKeep DEF Holds, HoldsPlaced
    <2>2. ASSUME NEW t \in Tab, tab[t].pc \notin Busy, Left(t)
          PROVE  /\ TabsKnow'
                 /\ \A i \in Tab, b \in Title :
                      /\ (Holds(i, b))' => Holds(i, b) /\ tab'[i].lines[b] = tab[i].lines[b]
                      /\ (HoldsPlaced(i, b))' <=> HoldsPlaced(i, b)
      <3>1. PICK title, units, lines : Turned(t, "idle", title, units, lines)
        BY <2>2 DEF Left
      <3>2. PICK pc : pc = "idle"
        OBVIOUS
      <3>3. pc \notin Busy /\ pc \notin {"create cart", "find", "add", "change"}
        BY <3>2 DEF Busy
      <3>4. Turned(t, pc, title, units, lines)
        BY <3>1, <3>2
      <3>5. TabsKnow'
        BY <1>1, <1>2, <3>3, <3>4, TabsKeep
      <3>6. \A b : ~Holds(t, b) /\ ~HoldsPlaced(t, b)
        BY <2>2 DEF Holds, HoldsPlaced, Busy
      <3>7. QED
        BY <3>3, <3>4, <3>5, <3>6, HoldsNothing, OthersHold
    <2>3. QED
      BY <2>1, <2>2
  <1>10. ASSUME NEW b \in Title \ raced' PROVE CalmAt(b)'
    <2>1. CalmAt(b) /\ balance'[b] = balance[b] + item'[b].quantity - item[b].quantity
      BY <1>1, <1>4 DEF Calm
    <2>2. CASE b \in S
      <3>1. \A t \in Tab : ~Holds(t, b) /\ ~HoldsPlaced(t, b)
        BY <1>4, <2>2 DEF Holds, HoldsPlaced, Busy
      <3>2. item[b].quantity = balance[b]
        BY <2>1, <3>1 DEF CalmAt
      <3>3. item'[b].quantity = balance'[b]
        BY <1>5, <1>6, <2>1, <3>2
      <3>4. QED
        BY <1>9, <3>1, <3>3, CalmFree
    <2>3. CASE b \notin S
      <3>1. item'[b] = item[b] /\ balance'[b] = balance[b]
        BY <1>5, <2>1, <2>3
      <3>2. QED
        BY <1>9, <2>1, <3>1, CalmStays
    <2>4. QED
      BY <2>2, <2>3
  <1>11. QED
    BY <1>2, <1>8, <1>9, <1>10 DEF CartInv, Calm

\* The steps one by one: the tabs that only turn.
LEMMA AddKeeps ==
  ASSUME CartInv, NEW t \in Tab, NEW b \in Title, Add(t, b, 1) PROVE CartInv'
  <1>1. TabsKnow /\ cart \in BOOLEAN
    BY DEF CartInv, CartTypeOK
  <1>2. /\ tab[t].pc = "idle" /\ UNCHANGED <<cart, item, rowIds, balance, raced>>
        /\ \E lines : \/ cart /\ Turned(t, "find", b, 1, lines)
                      \/ Turned(t, "create cart", b, 1, lines)
    BY <1>1, AddIs
  <1>3. PICK pc, units, lines : /\ units = 1 /\ Turned(t, pc, b, units, lines)
                                /\ \/ pc = "find" /\ cart
                                   \/ pc = "create cart"
    BY <1>2
  <1>4. units \in 1..MaxUnits
    <2>1. MaxUnits \in Nat /\ MaxUnits # 0
      BY CartAssumption
    <2>2. 1 \in 1..MaxUnits
      BY <2>1
    <2>3. QED
      BY <1>3, <2>2
  <1>5. pc \notin Busy /\ (pc \in {"find", "add", "change"} => cart')
    BY <1>2, <1>3 DEF Busy
  <1>6. QED
    BY <1>1, <1>2, <1>3, <1>4, <1>5, TurningKeeps

LEMMA CreateCartKeeps ==
  ASSUME CartInv, NEW t \in Tab, CreateCart(t) PROVE CartInv'
  <1>1. TabsKnow
    BY DEF CartInv
  <1>2. /\ tab[t].pc = "create cart" /\ cart' = TRUE /\ UNCHANGED <<item, rowIds, balance, raced>>
        /\ \/ Left(t)
           \/ Turned(t, "find", tab[t].title, tab[t].units, tab[t].lines)
    BY <1>1, CreateCartIs
  <1>3. CASE Left(t)
    BY <1>2, <1>3, LeavingKeeps
  <1>4. CASE Turned(t, "find", tab[t].title, tab[t].units, tab[t].lines)
    <2>1. PICK pc, title, units, lines :
             /\ pc = "find" /\ title = tab[t].title /\ units = tab[t].units
             /\ Turned(t, pc, title, units, lines)
      BY <1>4
    <2>2. title \in Title /\ units \in 1..MaxUnits
      BY <1>1, <1>2, <2>1 DEF TabsKnow, TabKnows
    <2>3. pc \notin Busy
      BY <2>1 DEF Busy
    <2>4. QED
      BY <1>2, <2>1, <2>2, <2>3, TurningKeeps
  <1>5. QED
    BY <1>2, <1>3, <1>4

LEMMA FindRowKeeps ==
  ASSUME CartInv, NEW t \in Tab, FindRow(t) PROVE CartInv'
  <1>1. TabsKnow /\ cart \in BOOLEAN
    BY DEF CartInv, CartTypeOK
  <1>2. /\ tab[t].pc = "find" /\ UNCHANGED <<cart, item, rowIds, balance, raced>>
        /\ Turned(t, "add", tab[t].title, tab[t].units, tab[t].lines)
    BY <1>1, FindRowIs
  <1>3. PICK pc, title, units, lines :
           /\ pc = "add" /\ title = tab[t].title /\ units = tab[t].units
           /\ Turned(t, pc, title, units, lines)
    BY <1>2
  <1>4. title \in Title /\ units \in 1..MaxUnits /\ cart
    BY <1>1, <1>2, <1>3 DEF TabsKnow, TabKnows
  <1>5. pc \notin Busy
    BY <1>3 DEF Busy
  <1>6. QED
    BY <1>1, <1>2, <1>3, <1>4, <1>5, TurningKeeps

LEMMA ChangeKeeps ==
  ASSUME CartInv, NEW t \in Tab, NEW b \in Title, NEW n \in 1..MaxUnits, Change(t, b, n) PROVE CartInv'
  <1>1. TabsKnow /\ cart \in BOOLEAN
    BY DEF CartInv, CartTypeOK
  <1>2. /\ tab[t].pc = "idle" /\ Row(b) /\ UNCHANGED <<cart, item, rowIds, balance, raced>>
        /\ \E lines : Turned(t, "change", b, n, lines)
    BY <1>1, ChangeIs
  <1>3. PICK pc, lines : pc = "change" /\ Turned(t, pc, b, n, lines)
    BY <1>2
  <1>4. cart
    BY <1>2 DEF CartInv, CartTypeOK
  <1>5. pc \notin Busy
    BY <1>3 DEF Busy
  <1>6. QED
    BY <1>1, <1>2, <1>3, <1>4, <1>5, TurningKeeps

LEMMA AddFailsKeeps ==
  ASSUME CartInv, NEW t \in Tab, AddFails(t) PROVE CartInv'
  <1>1. Left(t)
    BY ClosesLeaves DEF AddFails, CartInv
  <1>2. tab[t].pc # "placed" /\ UNCHANGED <<cart, item, rowIds, balance, raced>> /\ cart \in BOOLEAN
    BY DEF AddFails, Tabs, CartInv, CartTypeOK
  <1>3. QED
    BY <1>1, <1>2, LeavingKeeps

LEMMA CheckoutFailsKeeps ==
  ASSUME CartInv, NEW t \in Tab, CheckoutFails(t) PROVE CartInv'
  <1>1. Left(t)
    BY ClosesLeaves DEF CheckoutFails, CartInv
  <1>2. tab[t].pc # "placed" /\ UNCHANGED <<cart, item, rowIds, balance, raced>> /\ cart \in BOOLEAN
    BY DEF CheckoutFails, Tabs, CartInv, CartTypeOK
  <1>3. QED
    BY <1>1, <1>2, LeavingKeeps

LEMMA CheckoutEmptyKeeps ==
  ASSUME CartInv, NEW t \in Tab, CheckoutEmpty(t) PROVE CartInv'
  <1>1. cart' = TRUE /\ UNCHANGED <<item, rowIds, tab, balance, raced>>
    BY DEF CheckoutEmpty
  <1>2. CartTypeOK' /\ RowsOwnIds' /\ Calm'
    BY <1>1 DEF CartInv, CartTypeOK, RowsOwnIds, Row, Calm, CalmAt, Holds, HoldsPlaced
  <1>3. TabsKnow'
    BY <1>1, SameTabsKeep DEF CartInv, LineKnown
  <1>4. QED
    BY <1>2, <1>3 DEF CartInv

\* The steps that write a row.
LEMMA OneRowStep ==
  ASSUME CartTypeOK, RowsOwnIds, NEW b \in Title, NEW y, item' = [item EXCEPT ![b] = y],
         cart', cart' = cart, rowIds' \in {rowIds, rowIds + 1}, rowIds' \in 0..MaxRows,
         y \in [id : 0..rowIds', quantity : 0..MaxUnits], y.id # 0, y.quantity > 0,
         y.id = item[b].id \/ (y.id = rowIds + 1 /\ rowIds' = rowIds + 1)
  PROVE  /\ RowsStep
         /\ \A c \in Title \ {b} : item'[c] = item[c]
         /\ item'[b] = y
  <1>1. PICK below : below = 0..rowIds
    OBVIOUS
  <1>2. item \in [Title -> [id : below, quantity : 0..MaxUnits]]
    BY <1>1 DEF CartTypeOK
  <1>3. below \subseteq 0..rowIds'
    <2>1. rowIds \in Nat
      BY IdsAre
    <2>2. QED
      BY <1>1, <2>1
  <1>4. PICK more : more = 0..rowIds'
    OBVIOUS
  <1>5. item' \in [Title -> [id : more, quantity : 0..MaxUnits]]
    BY <1>2, <1>3, <1>4
  <1>6. item'[b] = y /\ (\A c \in Title \ {b} : item'[c] = item[c])
    BY <1>2
  <1>7. \A c \in Title : /\ item[c].id # 0 => cart /\ item[c].quantity > 0
                         /\ item[c].id = 0 => item[c].quantity = 0
    BY DEF CartTypeOK, RowsOwnIds, Row
  <1>8. \A c \in Title : /\ item'[c].id # 0 => cart' /\ item'[c].quantity > 0
                         /\ item'[c].id = 0 => item'[c].quantity = 0
    BY <1>6, <1>7
  <1>9. \/ \A c \in Title : item'[c].id \in {0, item[c].id}
        \/ \E d \in Title : /\ rowIds' = rowIds + 1 /\ item'[d].id = rowIds + 1
                            /\ \A c \in Title \ {d} : item'[c].id \in {0, item[c].id}
    BY <1>6
  <1>10. QED
    BY <1>4, <1>5, <1>6, <1>8, <1>9 DEF RowsStep

\* A request that ends was no checkout.
LEMMA ClosingTab ==
  ASSUME CartInv, NEW t \in Tab, tab[t].pc \notin Busy, Closes(t)
  PROVE  \E i \in Tab : tab[i].pc \notin Busy /\ Left(i)
  BY ClosesLeaves DEF CartInv

LEMMA AddUnitsKeeps ==
  ASSUME CartInv, NEW t \in Tab, AddUnits(t) PROVE CartInv'
  <1>1. CartTypeOK /\ TabsKnow /\ RowsOwnIds
    BY DEF CartInv
  <1>2. PICK b, n : b = tab[t].title /\ n = tab[t].units
    OBVIOUS
  <1>3. tab[t].pc = "add" /\ b \in Title /\ n \in 1..MaxUnits /\ cart
    BY <1>1, <1>2 DEF AddUnits, Tabs, TabsKnow, TabKnows
  <1>4. PICK x \in [id : 0..rowIds, quantity : 0..MaxUnits] : x = item[b]
    BY <1>1, <1>3 DEF CartTypeOK
  <1>5. PICK y : y = [x EXCEPT !.quantity = @ + n]
    OBVIOUS
  <1>6. PICK new : new = [balance EXCEPT ![b] = @ + n]
    OBVIOUS
  <1>7. /\ x.id # 0 /\ x.quantity + n <= MaxUnits
        /\ item' = [item EXCEPT ![b].quantity = @ + n]
        /\ Track({b}, new) /\ Closes(t) /\ UNCHANGED <<cart, rowIds>>
    BY <1>2, <1>4, <1>6 DEF AddUnits, Row
  <1>8. x.quantity + n \in 0..MaxUnits /\ x.quantity + n > 0 /\ x.quantity \in Int /\ n \in Int
    <2>1. x.quantity \in 0..MaxUnits /\ n \in 1..MaxUnits /\ MaxUnits \in Nat
      BY <1>3, <1>4, CartAssumption
    <2>2. QED
      BY <1>7, <2>1
  <1>9. y \in [id : 0..rowIds, quantity : 0..MaxUnits] /\ y.id = x.id /\ y.quantity = x.quantity + n
    BY <1>4, <1>5, <1>8
  <1>10. item' = [item EXCEPT ![b] = y]
    BY <1>4, <1>5, <1>7
  <1>11. rowIds' = rowIds /\ rowIds \in 0..MaxRows /\ cart' = cart
    BY <1>1, <1>7 DEF CartTypeOK
  <1>12. RowsStep /\ (\A c \in Title \ {b} : item'[c] = item[c]) /\ item'[b] = y
    <2>1. y \in [id : 0..rowIds', quantity : 0..MaxUnits] /\ y.id # 0 /\ y.quantity > 0
      BY <1>7, <1>8, <1>9, <1>11
    <2>2. QED
      BY <1>1, <1>3, <1>4, <1>9, <1>10, <1>11, <2>1, OneRowStep
  <1>13. \A c \in Title : new[c] = balance[c] + item'[c].quantity - item[c].quantity
    <2>1. \A c \in Title : item[c].quantity \in Int /\ balance[c] \in Int
      BY <1>1, IdsAre
    <2>2. new[b] = balance[b] + n /\ (\A c \in Title \ {b} : new[c] = balance[c])
      BY <1>1, <1>3, <1>6 DEF CartTypeOK
    <2>3. item'[b].quantity = item[b].quantity + n
      BY <1>4, <1>9, <1>12
    <2>4. QED
      BY <1>3, <1>8, <1>12, <2>1, <2>2, <2>3
  <1>14. tab[t].pc \notin Busy
    BY <1>3 DEF Busy
  <1>15. \E i \in Tab : tab[i].pc \notin Busy /\ Left(i)
    BY <1>7, <1>14, ClosingTab
  <1>16. PICK S \in SUBSET Title : S = {b}
    BY <1>3
  <1>17. QED
    BY <1>7, <1>11, <1>12, <1>13, <1>15, <1>16, WritingKeeps

LEMMA AddRowKeeps ==
  ASSUME CartInv, NEW t \in Tab, AddRow(t) PROVE CartInv'
  <1>1. CartTypeOK /\ TabsKnow /\ RowsOwnIds
    BY DEF CartInv
  <1>2. PICK b, n : b = tab[t].title /\ n = tab[t].units
    OBVIOUS
  <1>3. tab[t].pc = "add" /\ b \in Title /\ n \in 1..MaxUnits /\ cart
    BY <1>1, <1>2 DEF AddRow, Tabs, TabsKnow, TabKnows
  <1>4. PICK y : y = [id |-> rowIds + 1, quantity |-> n]
    OBVIOUS
  <1>5. PICK new : new = [balance EXCEPT ![b] = @ + n]
    OBVIOUS
  <1>6. /\ item[b].id = 0 /\ rowIds < MaxRows /\ rowIds' = rowIds + 1
        /\ item' = [item EXCEPT ![b] = y]
        /\ Track({b}, new) /\ Closes(t) /\ cart' = cart
    BY <1>2, <1>4, <1>5 DEF AddRow, Row
  <1>7. /\ rowIds' \in 0..MaxRows /\ rowIds + 1 \in 0..rowIds' /\ rowIds + 1 # 0
        /\ n \in 0..MaxUnits /\ n > 0 /\ n \in Int
    <2>1. rowIds \in Nat /\ MaxRows \in Nat /\ MaxUnits \in Nat
      BY <1>1, IdsAre, CartAssumption
    <2>2. QED
      BY <1>3, <1>6, <2>1
  <1>8. y \in [id : 0..rowIds', quantity : 0..MaxUnits] /\ y.id = rowIds + 1 /\ y.quantity = n
    BY <1>4, <1>7
  <1>9. RowsStep /\ (\A c \in Title \ {b} : item'[c] = item[c]) /\ item'[b] = y
    BY <1>1, <1>3, <1>6, <1>7, <1>8, OneRowStep
  <1>10. \A c \in Title : new[c] = balance[c] + item'[c].quantity - item[c].quantity
    <2>1. \A c \in Title : item[c].quantity \in Int /\ balance[c] \in Int
      BY <1>1, IdsAre
    <2>2. new[b] = balance[b] + n /\ (\A c \in Title \ {b} : new[c] = balance[c])
      BY <1>1, <1>3, <1>5 DEF CartTypeOK
    <2>3. item'[b].quantity = n /\ item[b].quantity = 0
      BY <1>1, <1>3, <1>6, <1>8, <1>9 DEF RowsOwnIds, Row
    <2>4. QED
      BY <1>3, <1>7, <1>9, <2>1, <2>2, <2>3
  <1>11. tab[t].pc \notin Busy
    BY <1>3 DEF Busy
  <1>12. \E i \in Tab : tab[i].pc \notin Busy /\ Left(i)
    BY <1>6, <1>11, ClosingTab
  <1>13. PICK S \in SUBSET Title : S = {b}
    BY <1>3
  <1>14. QED
    BY <1>6, <1>9, <1>10, <1>12, <1>13, WritingKeeps

LEMMA ChangeWritesKeeps ==
  ASSUME CartInv, NEW t \in Tab, ChangeWrites(t) PROVE CartInv'
  <1>1. CartTypeOK /\ TabsKnow /\ RowsOwnIds
    BY DEF CartInv
  <1>2. PICK b, n : b = tab[t].title /\ n = tab[t].units
    OBVIOUS
  <1>3. tab[t].pc = "change" /\ b \in Title /\ n \in 1..MaxUnits /\ cart
    BY <1>1, <1>2 DEF ChangeWrites, Tabs, TabsKnow, TabKnows
  <1>4. PICK x \in [id : 0..rowIds, quantity : 0..MaxUnits] : x = item[b]
    BY <1>1, <1>3 DEF CartTypeOK
  <1>5. Closes(t) /\ UNCHANGED <<cart, rowIds>>
    BY DEF ChangeWrites
  <1>6. tab[t].pc \notin Busy /\ tab[t].pc # "placed"
    BY <1>3 DEF Busy
  <1>7. CASE UNCHANGED <<item, balance, raced>>
    <2>1. Left(t) /\ cart' \in BOOLEAN
      BY <1>1, <1>5, ClosesLeaves DEF CartTypeOK
    <2>2. QED
      BY <1>5, <1>6, <1>7, <2>1, LeavingKeeps
  <1>8. CASE ~UNCHANGED <<item, balance, raced>>
    <2>1. PICK y : y = [x EXCEPT !.quantity = n]
      OBVIOUS
    <2>2. PICK new : new = [balance EXCEPT ![b] = @ + n - x.quantity]
      OBVIOUS
    <2>3. /\ x.id # 0 /\ item' = [item EXCEPT ![b].quantity = n] /\ Track({b}, new)
      BY <1>2, <1>4, <1>8, <2>2 DEF ChangeWrites, Row
    <2>4. n \in 0..MaxUnits /\ n > 0 /\ x.quantity \in Int /\ n \in Int
      <3>1. x.quantity \in 0..MaxUnits /\ n \in 1..MaxUnits /\ MaxUnits \in Nat
        BY <1>3, <1>4, CartAssumption
      <3>2. QED
        BY <3>1
    <2>5. y \in [id : 0..rowIds, quantity : 0..MaxUnits] /\ y.id = x.id /\ y.quantity = n
      BY <1>4, <2>1, <2>4
    <2>6. item' = [item EXCEPT ![b] = y]
      BY <1>4, <2>1, <2>3
    <2>7. rowIds' = rowIds /\ rowIds \in 0..MaxRows /\ cart' = cart
      BY <1>1, <1>5 DEF CartTypeOK
    <2>8. RowsStep /\ (\A c \in Title \ {b} : item'[c] = item[c]) /\ item'[b] = y
      <3>1. y \in [id : 0..rowIds', quantity : 0..MaxUnits] /\ y.id # 0 /\ y.quantity > 0
        BY <2>3, <2>4, <2>5, <2>7
      <3>2. QED
        BY <1>1, <1>3, <1>4, <2>5, <2>6, <2>7, <3>1, OneRowStep
    <2>9. \A c \in Title : new[c] = balance[c] + item'[c].quantity - item[c].quantity
      <3>1. \A c \in Title : item[c].quantity \in Int /\ balance[c] \in Int
        BY <1>1, IdsAre
      <3>2. new[b] = balance[b] + n - x.quantity /\ (\A c \in Title \ {b} : new[c] = balance[c])
        BY <1>1, <1>3, <2>2 DEF CartTypeOK
      <3>3. item'[b].quantity = n /\ item[b].quantity = x.quantity
        BY <1>4, <2>5, <2>8
      <3>4. QED
        BY <1>3, <2>4, <2>8, <3>1, <3>2, <3>3
    <2>10. \E i \in Tab : tab[i].pc \notin Busy /\ Left(i)
      BY <1>5, <1>6, ClosingTab
    <2>11. PICK S \in SUBSET Title : S = {b}
      BY <1>3
    <2>12. QED
      BY <2>3, <2>7, <2>8, <2>9, <2>10, <2>11, WritingKeeps
  <1>9. QED
    BY <1>7, <1>8

LEMMA RemoveItemsKeeps ==
  ASSUME CartInv, NEW S \in SUBSET Title, RemoveItems(S) PROVE CartInv'
  <1>1. CartTypeOK /\ RowsOwnIds
    BY DEF CartInv
  <1>2. PICK new : new = [b \in Title |-> balance[b] - IF b \in S THEN item[b].quantity ELSE 0]
    OBVIOUS
  <1>3. PICK y : y = NoRow
    OBVIOUS
  <1>4. /\ item' = [b \in Title |-> IF b \in S THEN y ELSE item[b]]
        /\ Track(S, new) /\ UNCHANGED <<cart, rowIds, tab>>
    BY <1>2, <1>3 DEF RemoveItems
  <1>5. y \in [id : 0..rowIds, quantity : 0..MaxUnits] /\ y.id = 0 /\ y.quantity = 0
    <2>1. 0 \in 0..rowIds /\ 0 \in 0..MaxUnits
      BY <1>1, IdsAre, CartAssumption
    <2>2. QED
      BY <1>3, <2>1 DEF NoRow
  <1>6. item \in [Title -> [id : 0..rowIds, quantity : 0..MaxUnits]]
    BY <1>1 DEF CartTypeOK
  <1>7. item' \in [Title -> [id : 0..rowIds, quantity : 0..MaxUnits]]
    BY <1>4, <1>5, <1>6
  <1>8. \A b \in Title : /\ b \in S => item'[b] = y
                         /\ b \notin S => item'[b] = item[b]
    BY <1>4
  <1>9. \A c \in Title : /\ item[c].id # 0 => cart /\ item[c].quantity > 0
                         /\ item[c].id = 0 => item[c].quantity = 0
    BY <1>1 DEF CartTypeOK, RowsOwnIds, Row
  <1>10. \A c \in Title : /\ item'[c].id # 0 => cart' /\ item'[c].quantity > 0
                          /\ item'[c].id = 0 => item'[c].quantity = 0
                          /\ item'[c].id \in {0, item[c].id}
    BY <1>4, <1>5, <1>8, <1>9
  <1>11. RowsStep
    <2>1. rowIds' = rowIds /\ rowIds \in 0..MaxRows
      BY <1>1, <1>4 DEF CartTypeOK
    <2>2. QED
      BY <1>7, <1>10, <2>1 DEF RowsStep
  <1>12. \A c \in Title : new[c] = balance[c] + item'[c].quantity - item[c].quantity
    <2>1. \A c \in Title : item[c].quantity \in Int /\ balance[c] \in Int
      BY <1>1, IdsAre
    <2>2. QED
      BY <1>2, <1>5, <1>8, <2>1
  <1>13. \A b \in Title \ S : item'[b] = item[b]
    BY <1>8
  <1>14. cart' = cart /\ tab' = tab
    BY <1>4
  <1>15. QED
    BY <1>4, <1>11, <1>12, <1>13, <1>14, WritingKeeps

\* The checkouts.
LEMMA CheckoutIs ==
  ASSUME TabsKnow, NEW t \in Tab, NEW S \in SUBSET Title, Checkout(t, S)
  PROVE  /\ tab[t].pc = "idle" /\ Track(S, balance) /\ UNCHANGED <<cart, item, rowIds>>
         /\ \A b \in S : Row(b)
         /\ \E title, units, lines :
               /\ Turned(t, "ordering", title, units, lines)
               /\ DOMAIN lines = S /\ lines = [b \in S |-> lines[b]]
               /\ \A b \in S : /\ FormedLine(lines[b])
                               /\ lines[b].id = item[b].id
                               /\ lines[b].quantity = item[b].quantity
  <1>1. PICK running \in ActivePromotions(S), v \in VoucherChoices :
          tab' = [tab EXCEPT ![t] = [IdleTab EXCEPT
                     !.pc = "ordering",
                     !.voucher = v,
                     !.lines = [b \in S |-> [id |-> item[b].id, quantity |-> item[b].quantity,
                                             price |-> Price[b], rate |-> BestRate(running[b])]]]]
    BY DEF Checkout
  <1>2. PICK lines : lines = [b \in S |-> [id |-> item[b].id, quantity |-> item[b].quantity,
                                           price |-> Price[b], rate |-> BestRate(running[b])]]
    OBVIOUS
  <1>3. PICK x : x = IdleTab
    OBVIOUS
  <1>4. Formed(x)
    BY <1>3 DEF IdleTab, Formed
  <1>5. PICK y : y = [x EXCEPT !.pc = "ordering", !.voucher = v, !.lines = lines]
    OBVIOUS
  <1>6. Formed(y) /\ y.pc = "ordering" /\ y.lines = lines
    BY <1>4, <1>5 DEF Formed
  <1>7. tab' = [tab EXCEPT ![t] = y] /\ tab = [i \in Tab |-> tab[i]]
    BY <1>1, <1>2, <1>3, <1>5 DEF TabsKnow
  <1>8. Turned(t, y.pc, y.title, y.units, y.lines)
    BY <1>6, <1>7, TurnsTo
  <1>9. Turned(t, "ordering", y.title, y.units, lines)
    BY <1>6, <1>8
  <1>10. /\ DOMAIN lines = S /\ lines = [b \in S |-> lines[b]]
         /\ \A b \in S : /\ FormedLine(lines[b])
                         /\ lines[b].id = item[b].id
                         /\ lines[b].quantity = item[b].quantity
    BY <1>2 DEF FormedLine
  <1>11. QED
    BY <1>9, <1>10 DEF Checkout, Tabs

\* A book that another checkout has read is raced from now on.
LEMMA CheckoutKeeps ==
  ASSUME CartInv, NEW t \in Tab, NEW S \in SUBSET Title, Checkout(t, S) PROVE CartInv'
  <1>1. CartTypeOK /\ TabsKnow /\ RowsOwnIds /\ Calm
    BY DEF CartInv
  <1>2. /\ tab[t].pc = "idle" /\ Track(S, balance) /\ UNCHANGED <<cart, item, rowIds>>
        /\ \A b \in S : Row(b)
    BY <1>1, CheckoutIs
  <1>3. PICK title, units, lines :
           /\ Turned(t, "ordering", title, units, lines)
           /\ DOMAIN lines = S /\ lines = [b \in S |-> lines[b]]
           /\ \A b \in S : /\ FormedLine(lines[b])
                           /\ lines[b].id = item[b].id
                           /\ lines[b].quantity = item[b].quantity
    BY <1>1, CheckoutIs
  <1>4. PICK pc : pc = "ordering"
    OBVIOUS
  <1>5. Turned(t, pc, title, units, lines)
    BY <1>3, <1>4
  <1>6. PICK new : new = balance
    OBVIOUS
  <1>7. raced \subseteq Title /\ Track(S, new) /\ balance \in [Title -> Int]
    BY <1>1, <1>2, <1>6 DEF CartTypeOK
  <1>8. /\ raced' \subseteq Title /\ raced \subseteq raced'
        /\ \A b \in S \ raced' : \A i \in Tab : ~Holds(i, b)
        /\ \A b \in Title \ raced' : balance'[b] = balance[b]
        /\ balance' \in [Title -> Int]
    BY <1>6, <1>7, TrackIs
  <1>9. CartTypeOK'
    BY <1>1, <1>2, <1>8 DEF CartTypeOK, Row
  <1>10. RowsOwnIds'
    BY <1>1, <1>2 DEF RowsOwnIds, Row
  <1>11. \A b, l : LineKnown(b, l) => (LineKnown(b, l))'
    BY <1>2 DEF LineKnown
  <1>12. ASSUME NEW b \in S PROVE (LineKnown(b, lines[b]))'
    <2>1. FormedLine(lines[b]) /\ lines[b].id = item[b].id /\ lines[b].quantity = item[b].quantity
      BY <1>3
    <2>2. item[b].id # 0 /\ item[b].id \in 0..rowIds /\ item[b].quantity \in 0..MaxUnits
      BY <1>1, <1>2, IdsAre DEF Row
    <2>3. item[b].id \in 1..rowIds
      BY <1>1, <2>2, IdsAre
    <2>4. \A c \in Title \ {b} : item[c].id # item[b].id
      BY <1>1, <2>2 DEF RowsOwnIds, Row
    <2>5. QED
      BY <1>2, <2>1, <2>2, <2>3, <2>4 DEF LineKnown
  <1>13. TabsKnow'
    <2>1. pc \notin {"create cart", "find", "add", "change"} /\ (cart => cart')
      BY <1>2, <1>4
    <2>2. lines = [b \in DOMAIN lines |-> lines[b]]
      BY <1>3
    <2>3. \A b \in DOMAIN lines : (LineKnown(b, lines[b]))'
      BY <1>3, <1>12
    <2>4. QED
      BY <1>1, <1>5, <1>11, <2>1, <2>2, <2>3, TabsKeep
  <1>14. /\ \A b : (Holds(t, b))' <=> b \in S
         /\ \A b : ~(HoldsPlaced(t, b))' /\ ~HoldsPlaced(t, b)
         /\ tab'[t].lines = lines
    BY <1>2, <1>3, <1>4, <1>5 DEF Turned, Holds, HoldsPlaced, Busy
  <1>15. ASSUME NEW b \in Title \ raced' PROVE CalmAt(b)'
    <2>1. CalmAt(b) /\ balance'[b] = balance[b] /\ item'[b] = item[b]
      BY <1>1, <1>2, <1>8 DEF Calm
    <2>2. CASE b \in S
      <3>1. \A i \in Tab : ~Holds(i, b) /\ ~HoldsPlaced(i, b)
        BY <1>8, <2>2 DEF Holds, HoldsPlaced, Busy
      <3>2. item[b].quantity = balance[b]
        BY <2>1, <3>1 DEF CalmAt
      <3>3. \A i \in Tab : /\ (Holds(i, b))' => i = t
                           /\ ~(HoldsPlaced(i, b))'
        BY <1>5, <1>14, <3>1, OthersHold
      <3>4. \A i \in Tab : (Holds(i, b))' =>
              /\ item'[b].id = tab'[i].lines[b].id
              /\ item'[b].quantity = tab'[i].lines[b].quantity
        BY <1>3, <1>14, <2>1, <2>2, <3>3
      <3>5. QED
        BY <2>1, <3>2, <3>3, <3>4 DEF CalmAt
    <2>3. CASE b \notin S
      <3>1. \A i \in Tab : /\ (Holds(i, b))' => Holds(i, b) /\ tab'[i].lines[b] = tab[i].lines[b]
                           /\ (HoldsPlaced(i, b))' <=> HoldsPlaced(i, b)
        BY <1>5, <1>14, <2>3, OthersHold
      <3>2. QED
        BY <2>1, <3>1, CalmStays
    <2>4. QED
      BY <2>2, <2>3
  <1>16. QED
    BY <1>9, <1>10, <1>13, <1>15 DEF CartInv, Calm

\* The order is written: the lines stay, without their prices.
LEMMA CheckoutPlacesIs ==
  ASSUME TabsKnow, NEW t \in Tab, CheckoutPlaces(t)
  PROVE  /\ tab[t].pc = "ordering" /\ UNCHANGED <<cart, item, rowIds>>
         /\ \E new : /\ Track({}, new)
                     /\ \A b \in Title :
                          new[b] = balance[b] - IF b \in DOMAIN tab[t].lines
                                                THEN tab[t].lines[b].quantity ELSE 0
         /\ \E title, units, lines :
               /\ Turned(t, "placed", title, units, lines)
               /\ DOMAIN lines = DOMAIN tab[t].lines /\ lines = [b \in DOMAIN lines |-> lines[b]]
               /\ \A b \in DOMAIN lines : /\ FormedLine(lines[b])
                                          /\ lines[b].id = tab[t].lines[b].id
                                          /\ lines[b].quantity = tab[t].lines[b].quantity
  <1>1. PICK x : x = tab[t]
    OBVIOUS
  <1>2. Formed(x) /\ tab = [i \in Tab |-> tab[i]]
    BY <1>1, TabIs
  <1>3. x.pc = "ordering"
    BY <1>1 DEF CheckoutPlaces, Tabs
  <1>4. \A b \in DOMAIN x.lines : FormedLine(x.lines[b])
    BY <1>1, <1>3 DEF TabsKnow, TabKnows, Busy, LineKnown
  <1>5. PICK lines : lines = [b \in DOMAIN x.lines |-> [x.lines[b] EXCEPT !.price = 0, !.rate = 0]]
    OBVIOUS
  <1>6. ASSUME NEW l, NEW k, FormedLine(l), k = [l EXCEPT !.price = 0, !.rate = 0]
        PROVE  FormedLine(k) /\ k.id = l.id /\ k.quantity = l.quantity
    BY <1>6 DEF FormedLine
  <1>7. /\ DOMAIN lines = DOMAIN x.lines /\ lines = [b \in DOMAIN lines |-> lines[b]]
        /\ \A b \in DOMAIN lines : /\ FormedLine(lines[b])
                                   /\ lines[b].id = x.lines[b].id
                                   /\ lines[b].quantity = x.lines[b].quantity
    <2>1. DOMAIN lines = DOMAIN x.lines /\ lines = [b \in DOMAIN lines |-> lines[b]]
      BY <1>5
    <2>2. \A b \in DOMAIN lines : lines[b] = [x.lines[b] EXCEPT !.price = 0, !.rate = 0]
      BY <1>5
    <2>3. QED
      BY <1>4, <1>6, <2>1, <2>2
  <1>8. PICK y : y = [x EXCEPT !.pc = "placed", !.voucher = NoVoucher, !.lines = lines]
    OBVIOUS
  <1>9. Formed(y) /\ y.pc = "placed" /\ y.lines = lines
    BY <1>2, <1>8 DEF Formed
  <1>10. tab' = [tab EXCEPT ![t] = y]
    <2>1. tab' = [tab EXCEPT ![t].pc = "placed", ![t].voucher = NoVoucher, ![t].lines = lines]
      BY <1>1, <1>5 DEF CheckoutPlaces
    <2>2. QED
      BY <1>1, <1>2, <1>8, <2>1
  <1>11. Turned(t, y.pc, y.title, y.units, y.lines)
    BY <1>2, <1>9, <1>10, TurnsTo
  <1>12. Turned(t, "placed", y.title, y.units, lines)
    BY <1>9, <1>11
  <1>13. PICK new : new = [b \in Title |-> balance[b] - IF b \in DOMAIN x.lines THEN x.lines[b].quantity ELSE 0]
    OBVIOUS
  <1>14. Track({}, new) /\ UNCHANGED <<cart, item, rowIds>>
    BY <1>1, <1>13 DEF CheckoutPlaces
  <1>15. QED
    BY <1>1, <1>3, <1>7, <1>12, <1>13, <1>14

\* What is ordered is no longer counted as in the cart.
LEMMA CheckoutPlacesKeeps ==
  ASSUME CartInv, NEW t \in Tab, CheckoutPlaces(t) PROVE CartInv'
  <1>1. CartTypeOK /\ TabsKnow /\ RowsOwnIds /\ Calm
    BY DEF CartInv
  <1>2. tab[t].pc = "ordering" /\ UNCHANGED <<cart, item, rowIds>>
    BY <1>1, CheckoutPlacesIs
  <1>3. PICK new : /\ Track({}, new)
                   /\ \A b \in Title :
                        new[b] = balance[b] - IF b \in DOMAIN tab[t].lines
                                              THEN tab[t].lines[b].quantity ELSE 0
    BY <1>1, CheckoutPlacesIs
  <1>4. PICK title, units, lines :
           /\ Turned(t, "placed", title, units, lines)
           /\ DOMAIN lines = DOMAIN tab[t].lines /\ lines = [b \in DOMAIN lines |-> lines[b]]
           /\ \A b \in DOMAIN lines : /\ FormedLine(lines[b])
                                      /\ lines[b].id = tab[t].lines[b].id
                                      /\ lines[b].quantity = tab[t].lines[b].quantity
    BY <1>1, CheckoutPlacesIs
  <1>5. \A b \in DOMAIN tab[t].lines : LineKnown(b, tab[t].lines[b])
    BY <1>1, <1>2 DEF TabsKnow, TabKnows, Busy
  <1>6. raced \subseteq Title /\ {} \in SUBSET Title
    BY <1>1 DEF CartTypeOK
  <1>7. \A b \in Title : balance[b] \in Int /\ item[b].quantity \in Int
    BY <1>1, IdsAre
  <1>8. \A b \in DOMAIN tab[t].lines : tab[t].lines[b].quantity \in Int
    BY <1>5 DEF LineKnown
  <1>9. /\ raced' \subseteq Title /\ raced \subseteq raced'
        /\ \A b \in Title \ raced' : balance'[b] = new[b]
        /\ balance' \in [Title -> Int]
    <2>1. \A b \in Title : new[b] \in Int
      BY <1>3, <1>7, <1>8
    <2>2. QED
      BY <1>3, <1>6, <2>1, TrackIs
  <1>10. CartTypeOK'
    BY <1>1, <1>2, <1>9 DEF CartTypeOK, Row
  <1>11. RowsOwnIds'
    BY <1>1, <1>2 DEF RowsOwnIds, Row
  <1>12. \A b, l : LineKnown(b, l) => (LineKnown(b, l))'
    BY <1>2 DEF LineKnown
  <1>13. \A b \in DOMAIN lines : (LineKnown(b, lines[b]))'
    BY <1>2, <1>4, <1>5 DEF LineKnown
  <1>14. PICK pc : pc = "placed"
    OBVIOUS
  <1>15. Turned(t, pc, title, units, lines)
    BY <1>4, <1>14
  <1>16. TabsKnow'
    <2>1. pc \notin {"create cart", "find", "add", "change"} /\ (cart => cart')
      BY <1>2, <1>14
    <2>2. lines = [b \in DOMAIN lines |-> lines[b]]
      BY <1>4
    <2>3. QED
      BY <1>1, <1>12, <1>13, <1>15, <2>1, <2>2, TabsKeep
  <1>17. /\ \A b : (Holds(t, b))' <=> b \in DOMAIN lines
         /\ \A b : (HoldsPlaced(t, b))' <=> b \in DOMAIN lines
         /\ \A b : Holds(t, b) <=> b \in DOMAIN lines
         /\ \A b : ~HoldsPlaced(t, b)
         /\ tab'[t].lines = lines
    BY <1>2, <1>4, <1>14, <1>15 DEF Turned, Holds, HoldsPlaced, Busy
  <1>18. ASSUME NEW b \in Title \ raced' PROVE CalmAt(b)'
    <2>1. CalmAt(b) /\ balance'[b] = new[b] /\ item'[b] = item[b]
      BY <1>1, <1>2, <1>9 DEF Calm
    <2>2. CASE b \in DOMAIN lines
      <3>1. \A i \in Tab : Holds(i, b) => i = t
        BY <1>17, <2>1, <2>2 DEF CalmAt
      <3>2. \A i \in Tab : ~HoldsPlaced(i, b)
        BY <1>17, <3>1 DEF Holds, HoldsPlaced, Busy
      <3>3. item[b].quantity = balance[b]
        BY <2>1, <3>2 DEF CalmAt
      <3>4. /\ item[b].id = tab[t].lines[b].id
            /\ item[b].quantity = tab[t].lines[b].quantity
        BY <1>17, <2>1, <2>2 DEF CalmAt
      <3>5. balance'[b] = 0
        <4>1. new[b] = balance[b] - tab[t].lines[b].quantity
          BY <1>3, <1>4, <2>2
        <4>2. balance[b] = tab[t].lines[b].quantity /\ balance[b] \in Int
          BY <1>7, <3>3, <3>4
        <4>3. new[b] = 0
          BY <4>1, <4>2
        <4>4. QED
          BY <2>1, <4>3
      <3>6. \A i \in Tab : (Holds(i, b))' => i = t
        BY <1>15, <3>1, OthersHold
      <3>7. /\ item'[b].id = tab'[t].lines[b].id
            /\ item'[b].quantity = tab'[t].lines[b].quantity
        BY <1>4, <1>17, <2>1, <2>2, <3>4
      <3>8. (HoldsPlaced(t, b))'
        BY <1>17, <2>2
      <3>9. QED
        BY <3>5, <3>6, <3>7, <3>8 DEF CalmAt
    <2>3. CASE b \notin DOMAIN lines
      <3>1. balance'[b] = balance[b]
        BY <1>3, <1>4, <1>7, <2>1, <2>3
      <3>2. \A i \in Tab : /\ (Holds(i, b))' => Holds(i, b) /\ tab'[i].lines[b] = tab[i].lines[b]
                           /\ (HoldsPlaced(i, b))' <=> HoldsPlaced(i, b)
        BY <1>15, <1>17, <2>3, OthersHold
      <3>3. QED
        BY <2>1, <3>1, <3>2, CalmStays
    <2>4. QED
      BY <2>2, <2>3
  <1>19. QED
    BY <1>10, <1>11, <1>16, <1>18 DEF CartInv, Calm

\* The listener deletes the rows by their ids, which are of the books ordered.
LEMMA CleanKeeps ==
  ASSUME CartInv, NEW t \in Tab, Clean(t) PROVE CartInv'
  <1>1. CartTypeOK /\ TabsKnow /\ RowsOwnIds /\ Calm
    BY DEF CartInv
  <1>2. PICK L : L = tab[t].lines
    OBVIOUS
  <1>3. PICK taken : taken = {L[b].id : b \in DOMAIN L}
    OBVIOUS
  <1>4. PICK y : y = NoRow
    OBVIOUS
  <1>5. /\ tab[t].pc = "placed" /\ Closes(t) /\ UNCHANGED <<cart, rowIds, balance, raced>>
        /\ item' = [b \in Title |-> IF item[b].id \in taken THEN y ELSE item[b]]
    BY <1>2, <1>3, <1>4 DEF Clean, Tabs
  <1>6. y.id = 0 /\ y.quantity = 0 /\ y \in [id : 0..rowIds, quantity : 0..MaxUnits]
    <2>1. 0 \in 0..rowIds /\ 0 \in 0..MaxUnits
      BY <1>1, IdsAre, CartAssumption
    <2>2. QED
      BY <1>4, <2>1 DEF NoRow
  <1>7. \A b \in Title : /\ item[b].id \in taken => item'[b] = y
                         /\ item[b].id \notin taken => item'[b] = item[b]
    BY <1>5
  <1>8. \A c \in Title : /\ item[c].id # 0 => cart /\ item[c].quantity > 0
                         /\ item[c].id = 0 => item[c].quantity = 0
    BY <1>1 DEF CartTypeOK, RowsOwnIds, Row
  <1>9. \A c \in Title : /\ item'[c].id # 0 => cart' /\ item'[c].quantity > 0
                         /\ item'[c].id = 0 => item'[c].quantity = 0
                         /\ item'[c].id \in {0, item[c].id}
    BY <1>5, <1>6, <1>7, <1>8
  <1>10. RowsStep
    <2>1. item \in [Title -> [id : 0..rowIds, quantity : 0..MaxUnits]]
      BY <1>1 DEF CartTypeOK
    <2>2. item' \in [Title -> [id : 0..rowIds, quantity : 0..MaxUnits]]
      BY <1>5, <1>6, <2>1
    <2>3. rowIds' = rowIds /\ rowIds \in 0..MaxRows
      BY <1>1, <1>5 DEF CartTypeOK
    <2>4. QED
      BY <1>9, <2>2, <2>3 DEF RowsStep
  <1>11. RowsOwnIds' /\ (\A b, l : LineKnown(b, l) => (LineKnown(b, l))')
    BY <1>1, <1>10, RowsKeep
  <1>12. CartTypeOK'
    BY <1>1, <1>5, <1>9, <1>10 DEF CartTypeOK, RowsStep, Row
  <1>13. PICK title, units, lines : Turned(t, "idle", title, units, lines)
    BY <1>1, <1>5, ClosesLeaves DEF Left
  <1>14. PICK pc : pc = "idle"
    OBVIOUS
  <1>15. pc \notin Busy /\ pc \notin {"create cart", "find", "add", "change"}
    BY <1>14 DEF Busy
  <1>16. Turned(t, pc, title, units, lines)
    BY <1>13, <1>14
  <1>17. TabsKnow'
    BY <1>1, <1>5, <1>11, <1>15, <1>16, TabsKeep
  <1>18. \A b \in DOMAIN L : LineKnown(b, L[b])
    BY <1>1, <1>2, <1>5 DEF TabsKnow, TabKnows, Busy
  <1>19. ASSUME NEW b \in Title \ raced' PROVE CalmAt(b)'
    <2>1. CalmAt(b) /\ balance'[b] = balance[b]
      BY <1>1, <1>5 DEF Calm
    <2>2. CASE b \in DOMAIN L
      <3>1. Holds(t, b) /\ HoldsPlaced(t, b)
        BY <1>2, <1>5, <2>2 DEF Holds, HoldsPlaced, Busy
      <3>2. balance[b] = 0 /\ item[b].id = L[b].id
        BY <1>2, <2>1, <3>1 DEF CalmAt
      <3>3. item'[b].quantity = 0
        BY <1>3, <1>6, <1>7, <2>2, <3>2
      <3>4. \A i \in Tab : ~(Holds(i, b))'
        BY <1>15, <1>16, <2>1, <3>1, HoldsNothing, OthersHold DEF CalmAt
      <3>5. QED
        BY <2>1, <3>2, <3>3, <3>4, CalmFree
    <2>3. CASE b \notin DOMAIN L
      <3>1. item[b].id \notin taken
        BY <1>3, <1>18, <2>3 DEF LineKnown
      <3>2. item'[b] = item[b]
        BY <1>7, <3>1
      <3>3. ~Holds(t, b) /\ ~HoldsPlaced(t, b)
        BY <1>2, <2>3 DEF Holds, HoldsPlaced
      <3>4. \A i \in Tab : /\ (Holds(i, b))' => Holds(i, b) /\ tab'[i].lines[b] = tab[i].lines[b]
                           /\ (HoldsPlaced(i, b))' <=> HoldsPlaced(i, b)
        BY <1>15, <1>16, <3>3, HoldsNothing, OthersHold
      <3>5. QED
        BY <2>1, <3>2, <3>4, CalmStays
    <2>4. QED
      BY <2>2, <2>3
  <1>20. QED
    BY <1>11, <1>12, <1>17, <1>19 DEF CartInv, Calm

\* The rows of an order that are not cleaned up are raced.
LEMMA CleanFailsKeeps ==
  ASSUME CartInv, NEW t \in Tab, CleanFails(t) PROVE CartInv'
  <1>1. CartTypeOK /\ TabsKnow /\ RowsOwnIds /\ Calm
    BY DEF CartInv
  <1>2. PICK S, new : S = DOMAIN tab[t].lines /\ new = balance
    OBVIOUS
  <1>3. /\ tab[t].pc = "placed" /\ Closes(t) /\ UNCHANGED <<cart, item, rowIds>>
        /\ Track(S, new)
    BY <1>2 DEF CleanFails, Tabs
  <1>4. S \in SUBSET Title
    BY <1>1, <1>2, <1>3 DEF TabsKnow, TabKnows, Busy, LineKnown
  <1>5. raced \subseteq Title /\ balance \in [Title -> Int]
    BY <1>1 DEF CartTypeOK
  <1>6. /\ raced' \subseteq Title /\ raced \subseteq raced'
        /\ \A b \in S \ raced' : \A i \in Tab : ~Holds(i, b)
        /\ \A b \in Title \ raced' : balance'[b] = balance[b]
        /\ balance' \in [Title -> Int]
    BY <1>2, <1>3, <1>4, <1>5, TrackIs
  <1>7. CartTypeOK' /\ RowsOwnIds' /\ (\A b, l : LineKnown(b, l) => (LineKnown(b, l))')
    BY <1>1, <1>3, <1>6 DEF CartTypeOK, RowsOwnIds, Row, LineKnown
  <1>8. PICK title, units, lines : Turned(t, "idle", title, units, lines)
    BY <1>1, <1>3, ClosesLeaves DEF Left
  <1>9. PICK pc : pc = "idle"
    OBVIOUS
  <1>10. pc \notin Busy /\ pc \notin {"create cart", "find", "add", "change"}
    BY <1>9 DEF Busy
  <1>11. Turned(t, pc, title, units, lines)
    BY <1>8, <1>9
  <1>12. TabsKnow'
    BY <1>1, <1>3, <1>7, <1>10, <1>11, TabsKeep
  <1>13. ASSUME NEW b \in Title \ raced' PROVE CalmAt(b)'
    <2>1. CalmAt(b) /\ balance'[b] = balance[b] /\ item'[b] = item[b]
      BY <1>1, <1>3, <1>6 DEF Calm
    <2>2. ~Holds(t, b) /\ ~HoldsPlaced(t, b)
      <3>1. b \in S => Holds(t, b)
        BY <1>2, <1>3 DEF Holds, Busy
      <3>2. b \notin S
        BY <1>6, <3>1
      <3>3. QED
        BY <1>2, <3>2 DEF Holds, HoldsPlaced
    <2>3. \A i \in Tab : /\ (Holds(i, b))' => Holds(i, b) /\ tab'[i].lines[b] = tab[i].lines[b]
                         /\ (HoldsPlaced(i, b))' <=> HoldsPlaced(i, b)
      BY <1>10, <1>11, <2>2, HoldsNothing, OthersHold
    <2>4. QED
      BY <2>1, <2>3, CalmStays
  <1>14. QED
    BY <1>7, <1>12, <1>13 DEF CartInv, Calm

\* The specification.
LEMMA InitCart == CartInit => CartInv
  <1> SUFFICES ASSUME CartInit PROVE CartInv
    OBVIOUS
  <1>1. PICK y : y = NoRow
    OBVIOUS
  <1>2. PICK x : x = IdleTab
    OBVIOUS
  <1>3. Formed(x) /\ x.pc = "idle"
    BY <1>2 DEF IdleTab, Formed
  <1>4. /\ cart = FALSE /\ item = [b \in Title |-> y] /\ rowIds = 0
        /\ tab = [t \in Tab |-> x] /\ balance = [b \in Title |-> 0] /\ raced = {}
    BY <1>1, <1>2 DEF CartInit
  <1>5. y \in [id : 0..0, quantity : 0..MaxUnits] /\ y.id = 0 /\ y.quantity = 0 /\ 0 \in 0..MaxRows
    <2>1. 0 \in 0..0 /\ 0 \in 0..MaxUnits /\ 0 \in 0..MaxRows
      BY CartAssumption
    <2>2. QED
      BY <1>1, <2>1 DEF NoRow
  <1>6. item \in [Title -> [id : 0..rowIds, quantity : 0..MaxUnits]]
    BY <1>4, <1>5
  <1>7. CartTypeOK /\ RowsOwnIds
    <2>1. \A b \in Title : item[b].id = 0 /\ item[b].quantity = 0
      BY <1>4, <1>5
    <2>2. /\ cart \in BOOLEAN /\ rowIds \in 0..MaxRows /\ balance \in [Title -> Int]
          /\ raced \subseteq Title
      <3>1. rowIds \in 0..MaxRows
        BY <1>4, <1>5
      <3>2. balance \in [Title -> Int]
        BY <1>4
      <3>3. cart \in BOOLEAN /\ raced \subseteq Title
        BY <1>4
      <3>4. QED
        BY <3>1, <3>2, <3>3
    <2>3. QED
      BY <1>6, <2>1, <2>2 DEF CartTypeOK, RowsOwnIds, Row
  <1>8. TabsKnow
    <2>1. tab = [t \in Tab |-> tab[t]] /\ (\A t \in Tab : tab[t] = x)
      BY <1>4
    <2>2. QED
      BY <1>3, <2>1 DEF TabsKnow, TabKnows, Busy
  <1>9. Calm
    <2>1. \A t \in Tab, b \in Title : ~Holds(t, b) /\ ~HoldsPlaced(t, b)
      BY <1>3, <1>4 DEF Holds, HoldsPlaced, Busy
    <2>2. \A b \in Title : item[b].quantity = balance[b]
      BY <1>4, <1>5
    <2>3. QED
      BY <2>1, <2>2 DEF Calm, CalmAt
  <1>10. QED
    BY <1>7, <1>8, <1>9 DEF CartInv

LEMMA NextCart == CartInv /\ [CartNext]_cartVars => CartInv'
  <1> SUFFICES ASSUME CartInv, [CartNext]_cartVars PROVE CartInv'
    OBVIOUS
  <1>1. ASSUME NEW t \in Tab, NEW b \in Title, Add(t, b, 1) \/ \E n \in 1..MaxUnits : Change(t, b, n)
        PROVE  CartInv'
    BY <1>1, AddKeeps, ChangeKeeps
  <1>2. ASSUME NEW t \in Tab,
               CreateCart(t) \/ FindRow(t) \/ AddUnits(t) \/ AddRow(t) \/ AddFails(t) \/ ChangeWrites(t)
        PROVE  CartInv'
    BY <1>2, CreateCartKeeps, FindRowKeeps, AddUnitsKeeps, AddRowKeeps, AddFailsKeeps,
       ChangeWritesKeeps
  <1>3. ASSUME NEW t \in Tab, NEW S \in SUBSET Title, Checkout(t, S) PROVE CartInv'
    BY <1>3, CheckoutKeeps
  <1>4. ASSUME NEW t \in Tab,
               CheckoutEmpty(t) \/ CheckoutPlaces(t) \/ CheckoutFails(t) \/ Clean(t) \/ CleanFails(t)
        PROVE  CartInv'
    BY <1>4, CheckoutEmptyKeeps, CheckoutPlacesKeeps, CheckoutFailsKeeps, CleanKeeps, CleanFailsKeeps
  <1>5. ASSUME NEW S \in SUBSET Title, RemoveItems(S) PROVE CartInv'
    BY <1>5, RemoveItemsKeeps
  <1>6. CASE UNCHANGED cartVars
    <2>1. UNCHANGED <<cart, item, rowIds, tab, balance, raced>>
      BY <1>6 DEF cartVars
    <2>2. CartTypeOK /\ TabsKnow /\ RowsOwnIds /\ Calm
      BY DEF CartInv
    <2>3. CartTypeOK' /\ RowsOwnIds'
      BY <2>1, <2>2 DEF CartTypeOK, RowsOwnIds, Row
    <2>4. TabsKnow'
      BY <2>1, <2>2, SameTabsKeep DEF LineKnown
    <2>5. \A b \in Title \ raced : CalmAt(b)'
      BY <2>1, <2>2, CalmStays DEF Calm, Holds, HoldsPlaced
    <2>6. QED
      BY <2>1, <2>3, <2>4, <2>5 DEF CartInv, Calm
  <1>7. QED
    BY <1>1, <1>2, <1>3, <1>4, <1>5, <1>6 DEF CartNext

\* A calm book is in the cart as often as the count and the orders say.
LEMMA CalmAccounts == CartInv => UnitsAccounted
  <1> SUFFICES ASSUME CartInv, NEW b \in Title \ raced PROVE item[b].quantity = balance[b] + Placed(b)
    BY DEF UnitsAccounted
  <1>1. CalmAt(b) /\ item[b].quantity \in Int /\ balance[b] \in Int
    BY IdsAre DEF CartInv, Calm
  <1>2. CASE OrderedBy(b) = {}
    <2>1. Placed(b) = 0
      BY <1>2, PlacedNone
    <2>2. item[b].quantity = balance[b]
      BY <1>1, <1>2 DEF CalmAt, HoldsPlaced, OrderedBy, Tabs
    <2>3. QED
      BY <1>1, <2>1, <2>2
  <1>3. CASE OrderedBy(b) # {}
    <2>1. PICK t \in OrderedBy(b) : TRUE
      BY <1>3
    <2>2. t \in Tab /\ Holds(t, b) /\ HoldsPlaced(t, b)
      BY <2>1 DEF OrderedBy, Tabs, Holds, HoldsPlaced, Busy
    <2>3. \A u \in OrderedBy(b) : u \in Tab /\ Holds(u, b)
      BY DEF OrderedBy, Tabs, Holds, Busy
    <2>4. OrderedBy(b) = {t}
      BY <1>1, <2>1, <2>2, <2>3 DEF CalmAt
    <2>5. item[b].quantity = tab[t].lines[b].quantity /\ balance[b] = 0
      BY <1>1, <2>2 DEF CalmAt
    <2>6. Placed(b) = tab[t].lines[b].quantity
      BY <1>1, <2>4, <2>5, PlacedOne
    <2>7. QED
      BY <1>1, <2>5, <2>6
  <1>4. QED
    BY <1>2, <1>3

\* The rows of a cart have ids and quantities within their bounds, and a row is
\* of a cart that exists.
THEOREM CartsTyped == CartInit /\ [][CartNext]_cartVars => []CartTypeOK
  <1>1. CartInit => CartInv
    BY InitCart
  <1>2. CartInv /\ [CartNext]_cartVars => CartInv'
    BY NextCart
  <1>3. CartInv => CartTypeOK
    BY DEF CartInv
  <1>4. QED
    BY <1>1, <1>2, <1>3, PTL

\* No unit is lost and none comes back: for any books, tabs, quantities and
\* orders, but for the books that changed while a checkout had them (the delete
\* by id of removeManyCartItems).
THEOREM UnitsStayAccounted == CartInit /\ [][CartNext]_cartVars => []UnitsAccounted
  <1>1. CartInit => CartInv
    BY InitCart
  <1>2. CartInv /\ [CartNext]_cartVars => CartInv'
    BY NextCart
  <1>3. CartInv => UnitsAccounted
    BY CalmAccounts
  <1>4. QED
    BY <1>1, <1>2, <1>3, PTL

-----------------------------------------------------------------------------
(* The amounts of an order.                                                *)

\* A set that holds 0 and, with a number, the next one holds them all.
LEMMA Counting ==
  ASSUME NEW S, 0 \in S, \A n \in Nat : n \in S => n + 1 \in S
  PROVE  Nat \subseteq S
  <1> DEFINE T == Nat \ S
             R == OpToRel(<, Nat)
  <1>1. SUFFICES ASSUME T # {} PROVE FALSE
    OBVIOUS
  <1>2. IsWellFoundedOn(R, Nat)
    BY NatLessThanWellFounded
  <1>3. T \subseteq Nat
    OBVIOUS
  <1>4. PICK x \in T : \A y \in T : <<y, x>> \notin R
    <2> HIDE DEF T, R
    <2>1. QED
      BY <1>1, <1>2, <1>3, WFMin
  <1>5. x - 1 \in T
    OBVIOUS
  <1>6. <<x - 1, x>> \in R
    BY <1>5 DEF OpToRel
  <1>7. QED
    BY <1>4, <1>5, <1>6

\* The sum of f over the sets of R, as the fold computes it.
Adds(f, R, g) ==
    [s \in R |-> IF s = {} THEN 0
                 ELSE LET x == CHOOSE x \in s : TRUE IN f[x] + g[s \ {x}]]
Small(D, n) == {s \in SUBSET D : Cardinality(s) <= n}

\* A finite set without the element the fold takes out.
LEMMA OneLess ==
  ASSUME NEW D, IsFiniteSet(D), NEW s \in SUBSET D
  PROVE  /\ Cardinality(s) \in Nat /\ Cardinality(s) <= Cardinality(D)
         /\ Cardinality(s) = 0 <=> s = {}
         /\ s # {} => \E x : /\ x \in s /\ x \in D /\ x = CHOOSE y \in s : TRUE
                             /\ s \ {x} \in SUBSET D
                             /\ Cardinality(s \ {x}) = Cardinality(s) - 1
  <1>1. IsFiniteSet(s) /\ Cardinality(s) <= Cardinality(D)
    BY FS_Subset
  <1>2. Cardinality(s) \in Nat
    BY <1>1, FS_CardinalityType
  <1>3. Cardinality(s) = 0 <=> s = {}
    BY <1>1, FS_EmptySet
  <1>4. ASSUME s # {}
        PROVE  \E x : /\ x \in s /\ x \in D /\ x = CHOOSE y \in s : TRUE
                      /\ s \ {x} \in SUBSET D
                      /\ Cardinality(s \ {x}) = Cardinality(s) - 1
    <2>1. PICK x : x = CHOOSE y \in s : TRUE
      OBVIOUS
    <2>2. x \in s
      BY <1>4, <2>1
    <2>3. Cardinality(s \ {x}) = Cardinality(s) - 1
      BY <1>1, <2>2, FS_RemoveElement
    <2>4. QED
      BY <2>1, <2>2, <2>3
  <1>5. QED
    BY <1>1, <1>2, <1>3, <1>4

\* The fold over a finite set is well defined.
LEMMA SumsExist ==
  ASSUME NEW D, IsFiniteSet(D), NEW f PROVE \E g : g = Adds(f, SUBSET D, g)
  <1> DEFINE S == {n \in Nat : \E g : g = Adds(f, Small(D, n), g)}
  <1>1. 0 \in S
    <2> DEFINE g == [s \in Small(D, 0) |-> 0]
    <2>1. \A s \in Small(D, 0) : s = {}
      BY OneLess DEF Small
    <2>2. g = Adds(f, Small(D, 0), g)
      BY <2>1 DEF Adds
    <2>3. QED
      BY <2>2
  <1>2. ASSUME NEW n \in Nat, n \in S PROVE n + 1 \in S
    <2>1. PICK g : g = Adds(f, Small(D, n), g)
      BY <1>2
    <2> DEFINE new(s) == LET x == CHOOSE x \in s : TRUE IN f[x] + g[s \ {x}]
               h == [s \in Small(D, n + 1) |-> IF s = {} THEN 0 ELSE new(s)]
    <2>2. ASSUME NEW s \in Small(D, n + 1), s # {}
          PROVE  \E x : /\ x = CHOOSE y \in s : TRUE
                        /\ s \ {x} \in Small(D, n) /\ s \ {x} \in Small(D, n + 1)
      <3>1. PICK x : /\ x \in s /\ x \in D /\ x = CHOOSE y \in s : TRUE
                     /\ s \ {x} \in SUBSET D
                     /\ Cardinality(s \ {x}) = Cardinality(s) - 1
        BY <2>2, OneLess DEF Small
      <3>2. Cardinality(s) \in Nat /\ Cardinality(s) <= n + 1
        BY OneLess DEF Small
      <3>3. Cardinality(s \ {x}) <= n /\ Cardinality(s \ {x}) <= n + 1
        BY <3>1, <3>2
      <3>4. QED
        BY <3>1, <3>3 DEF Small
    <2>3. ASSUME NEW s \in Small(D, n) PROVE s \in Small(D, n + 1) /\ h[s] = g[s]
      <3>1. s \in Small(D, n + 1)
        <4>1. Cardinality(s) \in Nat /\ Cardinality(s) <= n /\ s \in SUBSET D
          BY OneLess DEF Small
        <4>2. Cardinality(s) <= n + 1
          BY <4>1
        <4>3. QED
          BY <4>1, <4>2 DEF Small
      <3>2. h[s] = IF s = {} THEN 0 ELSE new(s)
        BY <3>1
      <3>3. g[s] = IF s = {} THEN 0 ELSE new(s)
        BY <2>1 DEF Adds
      <3>4. QED
        BY <3>1, <3>2, <3>3
    <2>4. ASSUME NEW s \in Small(D, n + 1), s # {}
          PROVE  h[s] = LET x == CHOOSE x \in s : TRUE IN f[x] + h[s \ {x}]
      <3>1. PICK x : x = (CHOOSE y \in s : TRUE) /\ s \ {x} \in Small(D, n)
        BY <2>2, <2>4
      <3>2. h[s] = f[x] + g[s \ {x}]
        BY <2>4, <3>1
      <3>3. h[s \ {x}] = g[s \ {x}]
        BY <2>3, <3>1
      <3>4. QED
        BY <3>1, <3>2, <3>3
    <2>5. \A s \in Small(D, n + 1) : s = {} => h[s] = 0
      OBVIOUS
    <2>6. h = [s \in Small(D, n + 1) |-> h[s]]
      OBVIOUS
    <2> HIDE DEF h, new
    <2>7. h = Adds(f, Small(D, n + 1), h)
      BY <2>4, <2>5, <2>6 DEF Adds
    <2>8. QED
      BY <2>7
  <1>3. Nat \subseteq S
    <2> HIDE DEF S
    <2>1. QED
      BY <1>1, <1>2, Counting
  <1>4. Cardinality(D) \in Nat
    BY FS_CardinalityType
  <1>5. Small(D, Cardinality(D)) = SUBSET D
    BY OneLess DEF Small
  <1>6. QED
    BY <1>3, <1>4, <1>5

\* Sums of naturals are naturals, and compare as what is added.
LEMMA SumsCompare ==
  ASSUME NEW D, IsFiniteSet(D), NEW f \in [D -> Nat], NEW h \in [D -> Nat],
         \A x \in D : h[x] <= f[x],
         NEW g, g = Adds(f, SUBSET D, g), NEW k, k = Adds(h, SUBSET D, k)
  PROVE  g[D] \in Nat /\ k[D] \in Nat /\ k[D] <= g[D]
  <1> DEFINE S == {n \in Nat : \A s \in Small(D, n) : g[s] \in Nat /\ k[s] \in Nat /\ k[s] <= g[s]}
  <1>1. g[{}] = 0 /\ k[{}] = 0
    BY DEF Adds
  <1>2. 0 \in S
    <2>1. \A s \in Small(D, 0) : s = {}
      BY OneLess DEF Small
    <2>2. \A s \in Small(D, 0) : g[s] = 0 /\ k[s] = 0
      BY <1>1, <2>1
    <2>3. \A s \in Small(D, 0) : g[s] \in Nat /\ k[s] \in Nat /\ k[s] <= g[s]
      BY <2>2
    <2>4. QED
      BY <2>3
  <1>3. ASSUME NEW n \in Nat, n \in S PROVE n + 1 \in S
    <2>1. ASSUME NEW s \in Small(D, n + 1) PROVE g[s] \in Nat /\ k[s] \in Nat /\ k[s] <= g[s]
      <3>1. CASE s = {}
        BY <1>1, <3>1
      <3>2. CASE s # {}
        <4>1. PICK x : /\ x \in s /\ x \in D /\ x = CHOOSE y \in s : TRUE
                       /\ s \ {x} \in SUBSET D
                       /\ Cardinality(s \ {x}) = Cardinality(s) - 1
          BY <3>2, OneLess DEF Small
        <4>2. Cardinality(s) \in Nat /\ Cardinality(s) <= n + 1 /\ s \in SUBSET D
          BY OneLess DEF Small
        <4>3. s \ {x} \in Small(D, n)
          BY <4>1, <4>2 DEF Small
        <4>4. g[s \ {x}] \in Nat /\ k[s \ {x}] \in Nat /\ k[s \ {x}] <= g[s \ {x}]
          BY <1>3, <4>3
        <4>5. g[s] = f[x] + g[s \ {x}] /\ k[s] = h[x] + k[s \ {x}]
          BY ZenonT(30), <3>2, <4>1, <4>2 DEF Adds
        <4>6. f[x] \in Nat /\ h[x] \in Nat /\ h[x] <= f[x]
          BY <4>1
        <4>7. QED
          BY <4>4, <4>5, <4>6
      <3>3. QED
        BY <3>1, <3>2
    <2>2. QED
      BY <2>1
  <1>4. Nat \subseteq S
    <2> HIDE DEF S
    <2>1. QED
      BY <1>2, <1>3, Counting
  <1>5. Cardinality(D) \in Nat /\ D \in Small(D, Cardinality(D))
    BY FS_CardinalityType DEF Small
  <1>6. QED
    BY <1>4, <1>5

\* The amounts of an order, for natural prices and rates of at most 100.
PricedLines(lines) ==
    /\ lines = [b \in DOMAIN lines |-> lines[b]]
    /\ IsFiniteSet(DOMAIN lines)
    /\ \A b \in DOMAIN lines : /\ lines[b].price \in Nat /\ lines[b].quantity \in Nat
                               /\ lines[b].rate \in 0..100

\* Of two numbers, the larger and the smaller.
LEMMA LargerOf ==
  ASSUME NEW a \in Int, NEW b \in Int
  PROVE  Max({a, b}) = IF a >= b THEN a ELSE b
  <1> DEFINE m == IF a >= b THEN a ELSE b
  <1>1. m \in {a, b} /\ m >= a /\ m >= b /\ m \in Int
    OBVIOUS
  <1>2. \A y \in {a, b} : m >= y
    BY <1>1
  <1>3. \A x \in {a, b} : (\A y \in {a, b} : x >= y) => x = m
    OBVIOUS
  <1> HIDE DEF m
  <1>4. (CHOOSE x \in {a, b} : \A y \in {a, b} : x >= y) = m
    BY <1>1, <1>2, <1>3
  <1>5. QED
    BY <1>4 DEF Max, m

LEMMA SmallerOf ==
  ASSUME NEW a \in Int, NEW b \in Int
  PROVE  Min({a, b}) = IF a <= b THEN a ELSE b
  <1> DEFINE m == IF a <= b THEN a ELSE b
  <1>1. m \in {a, b} /\ m <= a /\ m <= b /\ m \in Int
    OBVIOUS
  <1>2. \A y \in {a, b} : m <= y
    BY <1>1
  <1>3. \A x \in {a, b} : (\A y \in {a, b} : x <= y) => x = m
    OBVIOUS
  <1> HIDE DEF m
  <1>4. (CHOOSE x \in {a, b} : \A y \in {a, b} : x <= y) = m
    BY <1>1, <1>2, <1>3
  <1>5. QED
    BY <1>4 DEF Min, m

\* A discount takes no more than there is, whatever the voucher is worth.
LEMMA DiscountWithin ==
  ASSUME NEW v, v.value \in Nat, v.max \in Nat, NEW amount \in Int
  PROVE  /\ VoucherDiscount(v, amount) \in Nat
         /\ amount <= 0 => VoucherDiscount(v, amount) = 0
         /\ amount > 0 => VoucherDiscount(v, amount) <= amount
  <1>1. PICK n, m : n = v.value /\ m = v.max /\ n \in Nat /\ m \in Nat
    OBVIOUS
  <1>2. ASSUME NEW x \in Int, amount > 0
        PROVE  Max({0, Min({amount, x})}) \in Nat /\ Max({0, Min({amount, x})}) <= amount
    <2>1. PICK y : y = Min({amount, x}) /\ y \in Int /\ y <= amount
      BY SmallerOf
    <2>2. Max({0, y}) = IF 0 >= y THEN 0 ELSE y
      BY <2>1, LargerOf
    <2>3. QED
      BY <1>2, <2>1, <2>2
  <1>3. PICK raw : raw = (amount * n) \div 100
    OBVIOUS
  <1>4. raw \in Int
    <2>1. amount * n \in Int
      BY <1>1
    <2>2. QED
      BY <1>3, <2>1
  <1>5. PICK capped : capped = IF m # 0 THEN Min({raw, m}) ELSE raw
    OBVIOUS
  <1>6. capped \in Int
    BY <1>1, <1>4, <1>5, SmallerOf
  <1>7. VoucherDiscount(v, amount) =
          IF amount <= 0 \/ v.type = "none" THEN 0
          ELSE IF v.type = "FIXED_AMOUNT" THEN Max({0, Min({amount, n})})
          ELSE Max({0, Min({amount, capped})})
    BY <1>1, <1>3, <1>5 DEF VoucherDiscount
  <1>8. n \in Int
    BY <1>1
  <1>9. CASE amount <= 0
    BY <1>7, <1>9
  <1>10. CASE amount > 0
    <2>1. /\ Max({0, Min({amount, n})}) \in Nat /\ Max({0, Min({amount, n})}) <= amount
          /\ Max({0, Min({amount, capped})}) \in Nat /\ Max({0, Min({amount, capped})}) <= amount
      BY <1>2, <1>6, <1>8, <1>10
    <2>2. 0 \in Nat /\ 0 <= amount /\ ~(amount <= 0)
      BY <1>10
    <2>3. QED
      BY <1>7, <2>1, <2>2
  <1>11. QED
    BY <1>9, <1>10

\* A line: the discount is not more than the price, and the window shows as much.
LEMMA LineWithin ==
  ASSUME NEW p \in Nat, NEW q \in Nat, NEW r \in 0..100
  PROVE  /\ p * q \in Nat /\ LineDiscount(p, q, r) \in Nat /\ LineDiscount(p, q, r) <= p * q
         /\ LET over == 100 * LineTotal(p, q, r) - q * ShownHundredths(p, r)
            IN  0 <= over /\ over < 100
  <1>1. PICK x : x = p * q /\ x \in Nat
    <2>1. p * q \in Nat
      OBVIOUS
    <2>2. QED
      BY <2>1
  <1>2. PICK y : y = x * r /\ y \in Nat /\ y <= 100 * x
    <2>1. x * r \in Nat
      BY <1>1
    <2>2. x * (100 - r) \in Nat
      BY <1>1
    <2>3. x * (100 - r) = 100 * x - x * r
      BY <1>1
    <2>4. QED
      BY <1>1, <2>1, <2>2, <2>3
  <1>3. LineDiscount(p, q, r) = y \div 100
    BY <1>1, <1>2 DEF LineDiscount
  <1>4. y \div 100 \in Nat /\ y \div 100 <= x
    BY <1>1, <1>2
  <1>5. LineTotal(p, q, r) = x - y \div 100
    BY <1>1, <1>3 DEF LineTotal
  <1>6. q * ShownHundredths(p, r) = 100 * x - y
    <2>1. CASE r = 0
      <3>1. y = 0
        BY <1>1, <1>2, <2>1
      <3>2. ShownHundredths(p, r) = 100 * p
        BY <2>1 DEF ShownHundredths
      <3>3. q * (100 * p) = 100 * (p * q)
        OBVIOUS
      <3>4. QED
        BY <1>1, <3>1, <3>2, <3>3
    <2>2. CASE r # 0
      <3>1. ShownHundredths(p, r) = p * (100 - r)
        BY <2>2 DEF ShownHundredths
      <3>2. q * (p * (100 - r)) = 100 * (p * q) - p * q * r
        OBVIOUS
      <3>3. QED
        BY <1>1, <1>2, <3>1, <3>2
    <2>3. QED
      BY <2>1, <2>2
  <1>7. 100 * (x - y \div 100) - (100 * x - y) = y % 100
    BY <1>1, <1>2
  <1>8. y % 100 \in 0..99
    BY <1>2
  <1>9. QED
    BY <1>1, <1>3, <1>4, <1>5, <1>6, <1>7, <1>8

\* A set of numbers that has a bound has a largest.
LEMMA LargestExists ==
  ASSUME NEW K \in Nat, NEW S \in SUBSET (0..K), S # {}
  PROVE  Max(S) \in S
  <1> DEFINE N == {n \in Nat : n <= K => \E x \in S : (\A y \in S : x >= y) \/ x >= n}
  <1>1. 0 \in N
    <2>1. \E x \in S : x >= 0
      <3>1. PICK x \in S : TRUE
        OBVIOUS
      <3>2. x \in 0..K
        OBVIOUS
      <3>3. x >= 0
        BY <3>2
      <3>4. QED
        BY <3>3
    <2>2. QED
      BY <2>1
  <1>2. ASSUME NEW n \in Nat, n \in N PROVE n + 1 \in N
    <2>1. SUFFICES ASSUME n + 1 <= K PROVE \E x \in S : (\A y \in S : x >= y) \/ x >= n + 1
      OBVIOUS
    <2>2. PICK x \in S : (\A y \in S : x >= y) \/ x >= n
      BY <1>2, <2>1
    <2>3. CASE \A y \in S : x >= y
      BY <2>3
    <2>4. CASE ~(\A y \in S : x >= y)
      <3>1. PICK y \in S : ~(x >= y)
        BY <2>4
      <3>2. y >= n + 1
        BY <2>2, <2>4, <3>1
      <3>3. QED
        BY <3>2
    <2>5. QED
      BY <2>3, <2>4
  <1>3. Nat \subseteq N
    <2> HIDE DEF N
    <2>1. QED
      BY <1>1, <1>2, Counting
  <1>4. PICK x \in S : (\A y \in S : x >= y) \/ x >= K
    BY <1>3
  <1>5. \A y \in S : x >= y
    BY <1>4
  <1>6. QED
    BY <1>5 DEF Max

\* The deepest promotion takes no more than everything.
LEMMA BestRateIn ==
  ASSUME NEW running \in SUBSET Rates PROVE BestRate(running) \in 0..100
  <1>1. running \cup {0} \in SUBSET (0..100) /\ running \cup {0} # {}
    <2>1. Rates \subseteq 1..100
      BY PriceAssumption
    <2>2. \A x \in 1..100 : x \in 0..100
      OBVIOUS
    <2>3. 0 \in 0..100
      OBVIOUS
    <2>4. QED
      BY <2>1, <2>2, <2>3
  <1>2. Max(running \cup {0}) \in running \cup {0}
    BY <1>1, LargestExists
  <1>3. QED
    BY <1>1, <1>2 DEF BestRate

\* The folds of an order's amounts.
PriceStep(lines, g) ==
    [s \in SUBSET DOMAIN lines |->
        IF s = {} THEN 0
        ELSE LET x == CHOOSE x \in s : TRUE
             IN lines[x].price * lines[x].quantity + g[s \ {x}]]
CutStep(lines, g) ==
    [s \in SUBSET DOMAIN lines |->
        IF s = {} THEN 0
        ELSE LET x == CHOOSE x \in s : TRUE
             IN LineDiscount(lines[x].price, lines[x].quantity, lines[x].rate) + g[s \ {x}]]

LEMMA SubtotalSums ==
  ASSUME NEW lines PROVE Subtotal(lines) = (CHOOSE g : g = PriceStep(lines, g))[DOMAIN lines]
  BY DEF Subtotal, MapThenSumSet, MapThenFoldSet, PriceStep

LEMMA PromotionDiscountSums ==
  ASSUME NEW lines PROVE PromotionDiscount(lines) = (CHOOSE g : g = CutStep(lines, g))[DOMAIN lines]
  BY DEF PromotionDiscount, MapThenSumSet, MapThenFoldSet, CutStep

\* The promotions together take no more than the subtotal.
LEMMA AmountsCompare ==
  ASSUME NEW lines, PricedLines(lines)
  PROVE  /\ Subtotal(lines) \in Nat /\ PromotionDiscount(lines) \in Nat
         /\ PromotionDiscount(lines) <= Subtotal(lines)
  <1>1. PICK D : D = DOMAIN lines /\ IsFiniteSet(D)
    BY DEF PricedLines
  <1>2. ASSUME NEW b \in D
        PROVE  /\ lines[b].price * lines[b].quantity \in Nat
               /\ LineDiscount(lines[b].price, lines[b].quantity, lines[b].rate) \in Nat
               /\ LineDiscount(lines[b].price, lines[b].quantity, lines[b].rate)
                     <= lines[b].price * lines[b].quantity
    <2>1. lines[b].price \in Nat /\ lines[b].quantity \in Nat /\ lines[b].rate \in 0..100
      BY <1>1 DEF PricedLines
    <2>2. QED
      BY <2>1, LineWithin
  <1>3. PICK f : f = [b \in D |-> lines[b].price * lines[b].quantity]
    OBVIOUS
  <1>4. PICK h : h = [b \in D |-> LineDiscount(lines[b].price, lines[b].quantity, lines[b].rate)]
    OBVIOUS
  <1>5. f \in [D -> Nat] /\ h \in [D -> Nat] /\ (\A b \in D : h[b] <= f[b])
    BY <1>2, <1>3, <1>4
  <1>6. ASSUME NEW g PROVE PriceStep(lines, g) = Adds(f, SUBSET D, g)
    <2>1. ASSUME NEW s \in SUBSET D, s # {}
          PROVE  (LET x == CHOOSE x \in s : TRUE IN f[x] + g[s \ {x}])
                 = (LET x == CHOOSE x \in s : TRUE
                    IN lines[x].price * lines[x].quantity + g[s \ {x}])
      <3>1. PICK x \in D : x = CHOOSE y \in s : TRUE
        BY <2>1
      <3>2. f[x] = lines[x].price * lines[x].quantity
        BY <1>3
      <3>3. QED
        BY <3>1, <3>2
    <2>2. QED
      BY <1>1, <2>1 DEF PriceStep, Adds
  <1>7. ASSUME NEW g PROVE CutStep(lines, g) = Adds(h, SUBSET D, g)
    <2>1. ASSUME NEW s \in SUBSET D, s # {}
          PROVE  (LET x == CHOOSE x \in s : TRUE IN h[x] + g[s \ {x}])
                 = (LET x == CHOOSE x \in s : TRUE
                    IN LineDiscount(lines[x].price, lines[x].quantity, lines[x].rate) + g[s \ {x}])
      <3>1. PICK x \in D : x = CHOOSE y \in s : TRUE
        BY <2>1
      <3>2. h[x] = LineDiscount(lines[x].price, lines[x].quantity, lines[x].rate)
        BY <1>4
      <3>3. QED
        BY <3>1, <3>2
    <2>2. QED
      BY <1>1, <2>1 DEF CutStep, Adds
  <1>8. \E g : g = PriceStep(lines, g)
    <2>1. \E g : g = Adds(f, SUBSET D, g)
      BY <1>1, SumsExist
    <2>2. QED
      BY <1>6, <2>1
  <1>9. \E g : g = CutStep(lines, g)
    <2>1. \E g : g = Adds(h, SUBSET D, g)
      BY <1>1, SumsExist
    <2>2. QED
      BY <1>7, <2>1
  <1>10. PICK g : g = (CHOOSE k : k = PriceStep(lines, k)) /\ g = PriceStep(lines, g)
    BY <1>8
  <1>11. PICK k : k = (CHOOSE x : x = CutStep(lines, x)) /\ k = CutStep(lines, k)
    BY <1>9
  <1>12. g = Adds(f, SUBSET D, g) /\ k = Adds(h, SUBSET D, k)
    BY <1>6, <1>7, <1>10, <1>11
  <1>13. g[D] \in Nat /\ k[D] \in Nat /\ k[D] <= g[D]
    BY <1>1, <1>5, <1>12, SumsCompare
  <1>14. Subtotal(lines) = g[D] /\ PromotionDiscount(lines) = k[D]
    BY <1>1, <1>10, <1>11, SubtotalSums, PromotionDiscountSums
  <1>15. QED
    BY <1>13, <1>14

\* The statement about one order.
LEMMA OrderAmountsOf ==
  ASSUME NEW lines, PricedLines(lines), NEW v, v.value \in Nat, v.max \in Nat
  PROVE  /\ OrderTotal(lines, v) = Subtotal(lines) - PromotionDiscount(lines)
                                   - VoucherDiscount(v, VoucherAmount(lines))
         /\ VoucherDiscount(v, VoucherAmount(lines)) >= 0
  <1>1. PICK s, d : s = Subtotal(lines) /\ d = PromotionDiscount(lines)
    OBVIOUS
  <1>2. s \in Nat /\ d \in Nat /\ d <= s
    BY <1>1, AmountsCompare
  <1>3. VoucherAmount(lines) = s - d
    <2>1. VoucherAmount(lines) = Max({0, s - d})
      BY <1>1 DEF VoucherAmount
    <2>2. s - d \in Int /\ s - d >= 0
      BY <1>2
    <2>3. Max({0, s - d}) = IF 0 >= s - d THEN 0 ELSE s - d
      BY <2>2, LargerOf
    <2>4. QED
      BY <2>1, <2>2, <2>3
  <1>4. PICK c : c = VoucherDiscount(v, s - d)
    OBVIOUS
  <1>5. c \in Nat /\ c <= s - d
    <2>1. s - d \in Int
      BY <1>2
    <2>2. /\ c \in Nat
          /\ s - d <= 0 => c = 0
          /\ s - d > 0 => c <= s - d
      BY <1>4, <2>1, DiscountWithin
    <2>3. QED
      BY <1>2, <2>2
  <1>6. OrderTotal(lines, v) = Max({0, s - (d + c)})
    BY <1>1, <1>3, <1>4 DEF OrderTotal
  <1>7. Max({0, s - (d + c)}) = s - d - c
    <2>1. s - (d + c) \in Int /\ s - (d + c) >= 0 /\ s - (d + c) = s - d - c
      BY <1>2, <1>5
    <2>2. Max({0, s - (d + c)}) = IF 0 >= s - (d + c) THEN 0 ELSE s - (d + c)
      BY <2>1, LargerOf
    <2>3. QED
      BY <2>1, <2>2
  <1>8. QED
    BY <1>1, <1>3, <1>4, <1>5, <1>6, <1>7

\* The amounts a checkout works with are what the books, the promotions and the
\* voucher say.
PricedAt(t) ==
    tab[t].pc = "ordering" =>
        /\ PricedLines(tab[t].lines)
        /\ tab[t].voucher.value \in Nat /\ tab[t].voucher.max \in Nat
Priced == \A t \in Tab : PricedAt(t)

LEMMA PricedAmounts == Priced => OrderAmounts
  <1> SUFFICES ASSUME Priced, NEW t \in Tab, Tabs(t, "ordering")
               PROVE  LET lines == tab[t].lines
                          v == tab[t].voucher
                      IN  /\ OrderTotal(lines, v) = Subtotal(lines) - PromotionDiscount(lines)
                                                    - VoucherDiscount(v, VoucherAmount(lines))
                          /\ VoucherDiscount(v, VoucherAmount(lines)) >= 0
                          /\ \A b \in DOMAIN lines :
                                LET l == lines[b]
                                    over == 100 * LineTotal(l.price, l.quantity, l.rate)
                                            - l.quantity * ShownHundredths(l.price, l.rate)
                                IN  0 <= over /\ over < 100
    BY DEF OrderAmounts
  <1>1. PICK lines, v : lines = tab[t].lines /\ v = tab[t].voucher
    OBVIOUS
  <1>2. PricedLines(lines) /\ v.value \in Nat /\ v.max \in Nat
    BY <1>1 DEF Priced, PricedAt, Tabs
  <1>3. /\ OrderTotal(lines, v) = Subtotal(lines) - PromotionDiscount(lines)
                                  - VoucherDiscount(v, VoucherAmount(lines))
        /\ VoucherDiscount(v, VoucherAmount(lines)) >= 0
    BY <1>2, OrderAmountsOf
  <1>4. ASSUME NEW b \in DOMAIN lines
        PROVE  LET l == lines[b]
                   over == 100 * LineTotal(l.price, l.quantity, l.rate)
                           - l.quantity * ShownHundredths(l.price, l.rate)
               IN  0 <= over /\ over < 100
    <2>1. PICK p \in Nat, q \in Nat, r \in 0..100 :
             p = lines[b].price /\ q = lines[b].quantity /\ r = lines[b].rate
      BY <1>2 DEF PricedLines
    <2>2. LET over == 100 * LineTotal(p, q, r) - q * ShownHundredths(p, r)
          IN  0 <= over /\ over < 100
      BY LineWithin
    <2>3. QED
      BY <2>1, <2>2
  <1>5. QED
    BY <1>1, <1>3, <1>4

\* A tab that is in no checkout has no amounts.
LEMMA TurningPrices ==
  ASSUME Priced, NEW t \in Tab, NEW pc, NEW title, NEW units, NEW lines,
         Turned(t, pc, title, units, lines), pc # "ordering"
  PROVE  Priced'
  <1>1. tab'[t].pc # "ordering" /\ \A i \in Tab \ {t} : tab'[i] = tab[i]
    BY DEF Turned
  <1>2. QED
    BY <1>1 DEF Priced, PricedAt

LEMMA LeavingPrices ==
  ASSUME TabsKnow, Priced, NEW t \in Tab, Closes(t) PROVE Priced'
  <1>1. PICK pc, title, units, lines : pc = "idle" /\ Turned(t, pc, title, units, lines)
    BY ClosesLeaves DEF Left
  <1>2. QED
    BY <1>1, TurningPrices

\* A checkout starts with amounts that passed the validation.
LEMMA CheckoutPrices ==
  ASSUME CartInv, Priced, NEW t \in Tab, NEW S \in SUBSET Title, Checkout(t, S)
  PROVE  Priced'
  <1>1. PICK running \in ActivePromotions(S), v \in VoucherChoices :
          tab' = [tab EXCEPT ![t] = [IdleTab EXCEPT
                     !.pc = "ordering",
                     !.voucher = v,
                     !.lines = [b \in S |-> [id |-> item[b].id, quantity |-> item[b].quantity,
                                             price |-> Price[b], rate |-> BestRate(running[b])]]]]
    BY DEF Checkout
  <1>2. PICK lines : lines = [b \in S |-> [id |-> item[b].id, quantity |-> item[b].quantity,
                                           price |-> Price[b], rate |-> BestRate(running[b])]]
    OBVIOUS
  <1>3. PICK x : x = IdleTab
    OBVIOUS
  <1>4. Formed(x)
    BY <1>3 DEF IdleTab, Formed
  <1>5. PICK y : y = [x EXCEPT !.pc = "ordering", !.voucher = v, !.lines = lines]
    OBVIOUS
  <1>6. y.lines = lines /\ y.voucher = v
    BY <1>4, <1>5 DEF Formed
  <1>7. tab' = [tab EXCEPT ![t] = y] /\ tab = [i \in Tab |-> tab[i]]
    BY <1>1, <1>2, <1>3, <1>5 DEF CartInv, TabsKnow
  <1>8. tab'[t] = y /\ \A i \in Tab \ {t} : tab'[i] = tab[i]
    BY <1>7
  <1>9. v.value \in Nat /\ v.max \in Nat
    BY PriceAssumption
  <1>10. PricedLines(lines)
    <2>1. IsFiniteSet(S)
      BY PriceAssumption, FS_Subset
    <2>2. DOMAIN lines = S /\ lines = [b \in S |-> lines[b]]
      BY <1>2
    <2>3. ASSUME NEW b \in S
          PROVE  lines[b].price \in Nat /\ lines[b].quantity \in Nat /\ lines[b].rate \in 0..100
      <3>1. Price[b] \in Nat
        BY PriceAssumption
      <3>2. running[b] \in SUBSET Rates
        BY DEF ActivePromotions
      <3>3. BestRate(running[b]) \in 0..100
        BY <3>2, BestRateIn
      <3>4. item[b].quantity \in Nat
        <4>1. item[b].quantity \in 0..MaxUnits /\ MaxUnits \in Nat
          BY IdsAre, CartAssumption DEF CartInv
        <4>2. QED
          BY <4>1
      <3>5. /\ lines[b].price = Price[b] /\ lines[b].quantity = item[b].quantity
            /\ lines[b].rate = BestRate(running[b])
        BY <1>2
      <3>6. QED
        BY <3>1, <3>3, <3>4, <3>5
    <2>4. QED
      BY <2>1, <2>2, <2>3 DEF PricedLines
  <1>11. QED
    BY <1>6, <1>8, <1>9, <1>10 DEF Priced, PricedAt

\* Nobody checks out yet.
LEMMA InitPriced == CartInit => Priced
  <1>1. CartInit => \A t \in Tab : tab[t].pc = "idle"
    BY DEF CartInit, IdleTab
  <1>2. QED
    BY <1>1 DEF Priced, PricedAt

\* Only a checkout that begins has new amounts.
LEMMA NextPriced == CartInv /\ Priced /\ [CartNext]_cartVars => Priced'
  <1> SUFFICES ASSUME CartInv, Priced, [CartNext]_cartVars PROVE Priced'
    OBVIOUS
  <1>1. TabsKnow
    BY DEF CartInv
  <1>2. ASSUME NEW t \in Tab, NEW b \in Title, Add(t, b, 1) PROVE Priced'
    <2>1. PICK lines : Turned(t, "find", b, 1, lines) \/ Turned(t, "create cart", b, 1, lines)
      BY <1>1, <1>2, AddIs
    <2>2. PICK pc, units : pc # "ordering" /\ Turned(t, pc, b, units, lines)
      BY <2>1
    <2>3. QED
      BY <2>2, TurningPrices
  <1>3. ASSUME NEW t \in Tab, NEW b \in Title, NEW n \in 1..MaxUnits, Change(t, b, n) PROVE Priced'
    <2>1. PICK pc, lines : pc = "change" /\ Turned(t, pc, b, n, lines)
      BY <1>1, <1>3, ChangeIs
    <2>2. QED
      BY <2>1, TurningPrices
  <1>4. ASSUME NEW t \in Tab, CreateCart(t) PROVE Priced'
    <2>1. CASE Left(t)
      <3>1. PICK pc, title, units, lines : pc = "idle" /\ Turned(t, pc, title, units, lines)
        BY <2>1 DEF Left
      <3>2. QED
        BY <3>1, TurningPrices
    <2>2. CASE Turned(t, "find", tab[t].title, tab[t].units, tab[t].lines)
      <3>1. PICK pc, title, units, lines : pc = "find" /\ Turned(t, pc, title, units, lines)
        BY <2>2
      <3>2. QED
        BY <3>1, TurningPrices
    <2>3. QED
      BY <1>1, <1>4, <2>1, <2>2, CreateCartIs
  <1>5. ASSUME NEW t \in Tab, FindRow(t) PROVE Priced'
    <2>1. PICK pc, title, units, lines : pc = "add" /\ Turned(t, pc, title, units, lines)
      BY <1>1, <1>5, FindRowIs
    <2>2. QED
      BY <2>1, TurningPrices
  <1>6. ASSUME NEW t \in Tab, CheckoutPlaces(t) PROVE Priced'
    <2>1. PICK pc, title, units, lines : pc = "placed" /\ Turned(t, pc, title, units, lines)
      BY <1>1, <1>6, CheckoutPlacesIs
    <2>2. QED
      BY <2>1, TurningPrices
  <1>7. ASSUME NEW t \in Tab,
               AddUnits(t) \/ AddRow(t) \/ AddFails(t) \/ ChangeWrites(t) \/ CheckoutFails(t)
                  \/ Clean(t) \/ CleanFails(t)
        PROVE  Priced'
    <2>1. Closes(t)
      BY <1>7 DEF AddUnits, AddRow, AddFails, ChangeWrites, CheckoutFails, Clean, CleanFails
    <2>2. QED
      BY <1>1, <2>1, LeavingPrices
  <1>8. ASSUME NEW t \in Tab, NEW S \in SUBSET Title, Checkout(t, S) PROVE Priced'
    BY <1>8, CheckoutPrices
  <1>9. ASSUME tab' = tab PROVE Priced'
    BY <1>9 DEF Priced, PricedAt
  <1>10. ASSUME NEW t \in Tab, CheckoutEmpty(t) PROVE Priced'
    BY <1>9, <1>10 DEF CheckoutEmpty
  <1>11. ASSUME NEW S \in SUBSET Title, RemoveItems(S) PROVE Priced'
    BY <1>9, <1>11 DEF RemoveItems
  <1>12. CASE UNCHANGED cartVars
    BY <1>9, <1>12 DEF cartVars
  <1>13. QED
    BY <1>2, <1>3, <1>4, <1>5, <1>6, <1>7, <1>8, <1>10, <1>11, <1>12 DEF CartNext

\* The amounts of an order are what the lines, the promotions and the voucher
\* make together, and never below nothing: for any natural prices, rates up to
\* 100 and vouchers (createOrder, calculateDiscount).
THEOREM AmountsAddUp == CartInit /\ [][CartNext]_cartVars => []OrderAmounts
  <1>1. CartInit => CartInv /\ Priced
    BY InitCart, InitPriced
  <1>2. CartInv /\ Priced /\ [CartNext]_cartVars => CartInv' /\ Priced'
    BY NextCart, NextPriced
  <1>3. Priced => OrderAmounts
    BY PricedAmounts
  <1>4. QED
    BY <1>1, <1>2, <1>3, PTL

-----------------------------------------------------------------------------
(* Lists: the rank of a row, and what a row's coming and going does.        *)

Above(S, x) == {y \in S : y > x}
Rank(S, x) == Cardinality(Above(S, x))

LEMMA RankTyped ==
  ASSUME NEW S, IsFiniteSet(S), NEW x
  PROVE  /\ IsFiniteSet(Above(S, x))
         /\ Rank(S, x) \in Nat
         /\ Cardinality(S) \in Nat
  <1>1. Above(S, x) \in SUBSET S
    BY DEF Above
  <1>2. IsFiniteSet(Above(S, x))
    BY <1>1, FS_Subset
  <1>3. QED
    BY <1>2, FS_CardinalityType DEF Rank

\* The larger row has the smaller rank.
LEMMA RankFalls ==
  ASSUME NEW S \in SUBSET Nat, IsFiniteSet(S), NEW x \in S, NEW z \in S, x < z
  PROVE  Rank(S, z) < Rank(S, x)
  <1> DEFINE A == Above(S, x)
             B == Above(S, z)
  <1>1. IsFiniteSet(A) /\ Rank(S, x) = Cardinality(A) /\ Rank(S, z) = Cardinality(B)
    BY RankTyped DEF Rank
  <1>2. B \in SUBSET A /\ z \in A /\ z \notin B
    <2>1. x \in Nat /\ z \in Nat /\ \A y \in S : y \in Nat
      OBVIOUS
    <2>2. z > x /\ ~(z > z) /\ \A y \in S : y > z => y > x
      BY <2>1
    <2>3. QED
      BY <2>2 DEF Above
  <1>3. Rank(S, x) \in Nat /\ Rank(S, z) \in Nat
    BY RankTyped
  <1> HIDE DEF A, B
  <1>4. Cardinality(B) <= Cardinality(A) /\ Cardinality(A) # Cardinality(B)
    BY <1>1, <1>2, FS_Subset
  <1>5. QED
    BY <1>1, <1>3, <1>4

LEMMA RankBound ==
  ASSUME NEW S \in SUBSET Nat, IsFiniteSet(S), NEW x \in S
  PROVE  Rank(S, x) < Cardinality(S)
  <1> DEFINE A == Above(S, x)
  <1>1. Rank(S, x) = Cardinality(A) /\ Rank(S, x) \in Nat /\ Cardinality(S) \in Nat
    BY RankTyped DEF Rank
  <1>2. A \in SUBSET S /\ x \notin A
    BY DEF Above
  <1> HIDE DEF A
  <1>3. Cardinality(A) <= Cardinality(S) /\ Cardinality(S) # Cardinality(A)
    BY <1>2, FS_Subset
  <1>4. QED
    BY <1>1, <1>3

\* A set of numbers has a smallest.
LEMMA SmallestExists ==
  ASSUME NEW S \in SUBSET Nat, S # {}
  PROVE  \E x \in S : \A y \in S : x <= y
  <1> DEFINE R == OpToRel(<, Nat)
  <1>1. IsWellFoundedOn(R, Nat)
    BY NatLessThanWellFounded
  <1>2. PICK x \in S : \A y \in S : <<y, x>> \notin R
    <2> HIDE DEF R
    <2>1. QED
      BY <1>1, WFMin
  <1>3. ASSUME NEW y \in S, y < x PROVE <<y, x>> \in R
    BY <1>3 DEF OpToRel
  <1> HIDE DEF R
  <1>4. \A y \in S : ~(y < x)
    BY <1>2, <1>3
  <1>5. QED
    BY <1>4

\* Every rank is some row's.
LEMMA RankReached ==
  ASSUME NEW S \in SUBSET Nat, IsFiniteSet(S), NEW i \in 1..Cardinality(S)
  PROVE  \E x \in S : Rank(S, x) = i - 1
  <1> DEFINE All(T) == \A k \in 1..Cardinality(T) : \E x \in T : Rank(T, x) = k - 1
             Good == {n \in Nat : \A T \in SUBSET Nat :
                         IsFiniteSet(T) /\ Cardinality(T) = n => All(T)}
  <1>1. 0 \in Good
    OBVIOUS
  <1>2. ASSUME NEW n \in Nat, n \in Good PROVE n + 1 \in Good
    <2> SUFFICES ASSUME NEW T \in SUBSET Nat, IsFiniteSet(T), Cardinality(T) = n + 1
                 PROVE  All(T)
      OBVIOUS
    <2>1. T # {}
      BY FS_EmptySet
    <2>2. PICK m \in T : \A y \in T : m <= y
      BY <2>1, SmallestExists
    <2> DEFINE U == T \ {m}
    <2>3. IsFiniteSet(U) /\ Cardinality(U) = n /\ U \in SUBSET Nat
      <3>1. IsFiniteSet(U) /\ Cardinality(U) = Cardinality(T) - 1
        BY FS_RemoveElement
      <3>2. QED
        BY <3>1
    <2>4. All(U)
      <3> HIDE DEF All, U
      <3>1. QED
        BY <1>2, <2>3
    <2>5. Above(T, m) = U
      <3>1. \A y \in T : y \in Nat /\ m \in Nat /\ m <= y
        BY <2>2
      <3>2. \A y \in T : y > m <=> y # m
        BY <3>1
      <3>3. QED
        BY <3>2 DEF Above
    <2>6. \A x \in U : Above(T, x) = Above(U, x)
      <3>1. \A x \in U : x \in Nat /\ m \in Nat /\ m <= x
        BY <2>2
      <3>2. \A x \in U : ~(m > x)
        BY <3>1
      <3>3. QED
        BY <3>2 DEF Above
    <2>7. U \in SUBSET T
      OBVIOUS
    <2> HIDE DEF U
    <2>8. SUFFICES ASSUME NEW k \in 1..(n + 1) PROVE \E x \in T : Rank(T, x) = k - 1
      OBVIOUS
    <2>9. CASE k = n + 1
      BY <2>3, <2>5, <2>9 DEF Rank
    <2>10. CASE k # n + 1
      <3>1. k \in 1..Cardinality(U)
        BY <2>3, <2>10
      <3>2. PICK x \in U : Rank(U, x) = k - 1
        BY <2>4, <3>1
      <3>3. Rank(T, x) = k - 1
        BY <2>6, <3>2 DEF Rank
      <3>4. QED
        BY <2>7, <3>3
    <2>11. QED
      BY <2>9, <2>10
  <1>3. Cardinality(S) \in Nat
    BY FS_CardinalityType
  <1>4. Nat \subseteq Good
    <2> HIDE DEF Good
    <2>1. QED
      BY <1>1, <1>2, Counting
  <1>5. Cardinality(S) \in Good
    <2> HIDE DEF Good
    <2>1. QED
      BY <1>3, <1>4
  <1>6. All(S)
    <2> HIDE DEF All
    <2>1. QED
      BY <1>5
  <1>7. QED
    BY <1>6

Falls(s) == \A i, j \in DOMAIN s : i < j => s[i] > s[j]

LEMMA FallsInjective ==
  ASSUME NEW s \in Seq(Nat), Falls(s)
  PROVE  IsInjective(s)
  <1>1. SUFFICES ASSUME NEW i \in DOMAIN s, NEW j \in DOMAIN s, s[i] = s[j] PROVE i = j
    BY DEF IsInjective
  <1>2. i \in Nat /\ j \in Nat /\ s[i] \in Nat
    OBVIOUS
  <1>3. ~(i < j) /\ ~(j < i)
    BY <1>1, <1>2 DEF Falls
  <1>4. QED
    BY <1>2, <1>3

\* The rows of a set, the newest first.
LEMMA NewestFirstIs ==
  ASSUME NEW K \in Nat, NEW S \in SUBSET (1..K)
  PROVE  LET s == NewestFirst(S)
         IN  /\ s \in Seq(S)
             /\ Len(s) = Cardinality(S)
             /\ Cardinality(S) \in Nat
             /\ ToSet(s) = S
             /\ Falls(s)
             /\ \A i \in 1..Len(s) : Rank(S, s[i]) = i - 1
  <1> DEFINE s == NewestFirst(S)
  <1>1. IsFiniteSet(S) /\ S \in SUBSET Nat
    <2>1. IsFiniteSet(1..K)
      BY FS_Interval
    <2>2. IsFiniteSet(S)
      BY <2>1, FS_Subset
    <2>3. QED
      BY <2>2
  <1>2. Cardinality(S) \in Nat
    BY <1>1, FS_CardinalityType
  <1>3. \A i \in 1..Cardinality(S) : s[i] \in S /\ Rank(S, s[i]) = i - 1
    <2> SUFFICES ASSUME NEW i \in 1..Cardinality(S)
                 PROVE  s[i] \in S /\ Rank(S, s[i]) = i - 1
      OBVIOUS
    <2>1. \E x \in S : Rank(S, x) = i - 1
      BY <1>1, RankReached
    <2> DEFINE f == [k \in 1..Cardinality(S) |->
                        CHOOSE x \in S : Cardinality({y \in S : y > x}) = k - 1]
    <2>4. s = f
      BY DEF NewestFirst
    <2>2. s[i] = CHOOSE x \in S : Cardinality({y \in S : y > x}) = i - 1
      BY <2>4
    <2>3. s[i] = CHOOSE x \in S : Rank(S, x) = i - 1
      BY <2>2 DEF Rank, Above
    <2> HIDE DEF s
    <2>5. QED
      BY <2>1, <2>3
  <1>4. s = [i \in 1..Cardinality(S) |-> s[i]]
    <2> DEFINE g(k) == CHOOSE x \in S : Cardinality({y \in S : y > x}) = k - 1
    <2>1. s = [k \in 1..Cardinality(S) |-> g(k)]
      BY DEF NewestFirst
    <2> HIDE DEF g, s
    <2>2. QED
      BY <2>1
  <1> HIDE DEF s
  <1>5. s \in Seq(S) /\ Len(s) = Cardinality(S) /\ DOMAIN s = 1..Cardinality(S)
    BY <1>2, <1>3, <1>4
  <1>6. Falls(s)
    <2> SUFFICES ASSUME NEW i \in DOMAIN s, NEW j \in DOMAIN s, i < j, ~(s[i] > s[j])
                 PROVE  FALSE
      BY DEF Falls
    <2>1. s[i] \in S /\ s[j] \in S /\ Rank(S, s[i]) = i - 1 /\ Rank(S, s[j]) = j - 1
      BY <1>3, <1>5
    <2>2. i \in Nat /\ j \in Nat /\ s[i] \in Nat /\ s[j] \in Nat
      <3>1. i \in Nat /\ j \in Nat
        BY <1>5
      <3>2. QED
        BY <1>1, <2>1, <3>1
    <2>3. s[i] # s[j]
      BY <2>1, <2>2
    <2>4. s[i] < s[j]
      BY <2>2, <2>3
    <2>5. Rank(S, s[j]) < Rank(S, s[i])
      BY <1>1, <2>1, <2>4, RankFalls
    <2>6. QED
      BY <2>1, <2>2, <2>5
  <1>7. ToSet(s) = S
    <2>1. ASSUME NEW x \in S PROVE x \in ToSet(s)
      <3>1. Rank(S, x) \in Nat /\ Rank(S, x) < Cardinality(S)
        BY <1>1, RankTyped, RankBound
      <3>2. PICK i \in Nat : i = Rank(S, x) + 1
        BY <3>1
      <3>3. i \in 1..Cardinality(S)
        BY <1>2, <3>1, <3>2
      <3>4. s[i] \in S /\ Rank(S, s[i]) = Rank(S, x)
        BY <1>3, <3>1, <3>2, <3>3
      <3>5. x \in Nat /\ s[i] \in Nat
        BY <1>1, <3>4
      <3>6. ~(x < s[i]) /\ ~(s[i] < x)
        <4>1. PICK z : z = s[i]
          OBVIOUS
        <4>2. z \in S /\ Rank(S, z) = Rank(S, x)
          BY <3>4, <4>1
        <4>3. ~(x < z)
          BY <1>1, <3>1, <4>2, RankFalls
        <4>4. ~(z < x)
          BY <1>1, <3>1, <4>2, RankFalls
        <4>5. QED
          BY <4>1, <4>3, <4>4
      <3>7. x = s[i]
        BY <3>5, <3>6
      <3>8. QED
        BY <1>5, <3>3, <3>7 DEF ToSet
    <2>2. QED
      BY <1>3, <1>5, <2>1 DEF ToSet
  <1>8. QED
    BY <1>2, <1>3, <1>5, <1>6, <1>7 DEF s

LEMMA InjectiveCounts ==
  ASSUME NEW S, NEW s \in Seq(S), IsInjective(s)
  PROVE  IsFiniteSet(ToSet(s)) /\ Cardinality(ToSet(s)) = Len(s)
  <1> DEFINE T == ToSet(s)
  <1>1. DOMAIN s = 1..Len(s) /\ Len(s) \in Nat /\ s = [i \in 1..Len(s) |-> s[i]]
    OBVIOUS
  <1>2. s \in [1..Len(s) -> T] /\ \A y \in T : \E i \in 1..Len(s) : s[i] = y
    BY <1>1 DEF ToSet
  <1>3. IsInjective(s)
    OBVIOUS
  <1> HIDE DEF T
  <1>4. ExistsBijection(1..Len(s), T)
    BY <1>2, <1>3 DEF ExistsBijection, Bijection, Injection, Surjection
  <1>5. IsFiniteSet(T)
    BY <1>1, <1>4, FS_NatBijection
  <1>6. Cardinality(T) = Len(s)
    BY <1>1, <1>4, FS_CountingElements
  <1>7. QED
    BY <1>5, <1>6 DEF T

LEMMA NoMoreThanIds ==
  ASSUME NEW K \in Nat, NEW s \in Seq(1..K), IsInjective(s)
  PROVE  Len(s) \in 0..K
  <1>1. IsFiniteSet(1..K) /\ Cardinality(1..K) = K
    <2>1. IsFiniteSet(1..K) /\ Cardinality(1..K) = IF 1 > K THEN 0 ELSE K - 1 + 1
      BY FS_Interval
    <2>2. QED
      BY <2>1
  <1>2. Cardinality(ToSet(s)) = Len(s)
    BY InjectiveCounts
  <1>3. ToSet(s) \in SUBSET (1..K)
    BY DEF ToSet
  <1>4. Cardinality(ToSet(s)) <= Cardinality(1..K)
    BY <1>1, <1>3, FS_Subset
  <1>5. QED
    BY <1>1, <1>2, <1>4

LEMMA PlaceIs ==
  ASSUME NEW s, IsInjective(s), NEW i \in DOMAIN s
  PROVE  PlaceOf(s, s[i]) = i
  BY DEF PlaceOf, IsInjective

\* Two sequences put together are one, as long as both.
LEMMA ConcatIs ==
  ASSUME NEW S, NEW a \in Seq(S), NEW c \in Seq(S)
  PROVE  a \o c \in Seq(S) /\ Len(a \o c) = Len(a) + Len(c)
  <1>1. a \o c \in Seq(S)
    OBVIOUS
  <1>2. Len(a \o c) = Len(a) + Len(c)
    OBVIOUS
  <1>3. QED
    BY <1>1, <1>2

\* The front of two sequences put together is the first of them.
LEMMA ConcatLeft ==
  ASSUME NEW S, NEW a \in Seq(S), NEW c \in Seq(S), NEW j \in 1..Len(a)
  PROVE  (a \o c)[j] = a[j]
  OBVIOUS

LEMMA RemoveIs ==
  ASSUME NEW S, NEW s \in Seq(S), NEW k \in 1..Len(s)
  PROVE  LET r == RemoveAt(s, k)
         IN  /\ r \in Seq(S)
             /\ Len(r) = Len(s) - 1
             /\ \A j \in 1..Len(r) : r[j] = IF j < k THEN s[j] ELSE s[j + 1]
  <1> DEFINE a == SubSeq(s, 1, k - 1)
             c == SubSeq(s, k + 1, Len(s))
  <1>1. /\ a \in Seq(S) /\ Len(a) = k - 1
        /\ \A j \in 1..(k - 1) : a[j] = s[j]
    OBVIOUS
  <1>2. /\ c \in Seq(S) /\ Len(c) = Len(s) - k
        /\ \A j \in 1..(Len(s) - k) : c[j] = s[k + j]
    OBVIOUS
  <1>3. RemoveAt(s, k) = a \o c
    BY DEF RemoveAt
  <1> HIDE DEF a, c
  <1>4. k \in Nat /\ Len(s) \in Nat /\ k <= Len(s)
    OBVIOUS
  <1>5. a \o c \in Seq(S) /\ Len(a \o c) = Len(s) - 1
    <2>1. a \o c \in Seq(S) /\ Len(a \o c) = Len(a) + Len(c)
      BY <1>1, <1>2, ConcatIs
    <2>2. QED
      BY <1>1, <1>2, <1>4, <2>1
  <1>6. \A j \in 1..(Len(s) - 1) : (a \o c)[j] = IF j < k THEN s[j] ELSE s[j + 1]
    <2> SUFFICES ASSUME NEW j \in 1..(Len(s) - 1)
                 PROVE  (a \o c)[j] = IF j < k THEN s[j] ELSE s[j + 1]
      OBVIOUS
    <2>1. CASE j < k
      <3>1. j \in 1..Len(a)
        BY <1>1, <1>4, <2>1
      <3>2. (a \o c)[j] = a[j]
        BY <1>1, <1>2, <3>1, ConcatLeft
      <3>3. QED
        BY <1>1, <1>4, <2>1, <3>2
    <2>2. CASE ~(j < k)
      <3>1. j - (k - 1) \in 1..(Len(s) - k) /\ k + (j - (k - 1)) = j + 1
        BY <1>4, <2>2
      <3>2. (a \o c)[j] = c[j - (k - 1)]
        BY <1>1, <1>2, <1>4, <2>2
      <3>3. QED
        BY <1>2, <2>2, <3>1, <3>2
    <2>3. QED
      BY <2>1, <2>2
  <1>7. QED
    BY <1>3, <1>5, <1>6

\* r is o with b put in at place p.
Inserts(o, p, b, r) ==
    /\ p \in 1..(Len(o) + 1)
    /\ Len(r) = Len(o) + 1
    /\ \A j \in 1..Len(r) : r[j] = IF j < p THEN o[j] ELSE IF j = p THEN b ELSE o[j - 1]

LEMMA InsertIs ==
  ASSUME NEW S, NEW o \in Seq(S), NEW b \in S, NEW p \in 1..(Len(o) + 1)
  PROVE  LET r == InsertAt(o, p, b) IN r \in Seq(S) /\ Inserts(o, p, b, r)
  <1> DEFINE a == SubSeq(o, 1, p - 1)
             c == SubSeq(o, p, Len(o))
             e == a \o <<b>>
  <1>1. /\ a \in Seq(S) /\ Len(a) = p - 1
        /\ \A j \in 1..(p - 1) : a[j] = o[j]
    OBVIOUS
  <1>2. /\ c \in Seq(S) /\ Len(c) = Len(o) - p + 1
        /\ \A j \in 1..(Len(o) - p + 1) : c[j] = o[p + j - 1]
    OBVIOUS
  <1>3. p \in Nat /\ Len(o) \in Nat /\ p <= Len(o) + 1 /\ p >= 1
    OBVIOUS
  <1>4. InsertAt(o, p, b) = e \o c
    BY DEF InsertAt
  <1>5. /\ e \in Seq(S) /\ Len(e) = p
        /\ \A j \in 1..(p - 1) : e[j] = o[j]
        /\ e[p] = b
    <2> HIDE DEF a
    <2>1. QED
      BY <1>1, <1>3
  <1> HIDE DEF a, c, e
  <1>6. e \o c \in Seq(S) /\ Len(e \o c) = Len(o) + 1
    <2>1. e \o c \in Seq(S) /\ Len(e \o c) = Len(e) + Len(c)
      BY <1>2, <1>5, ConcatIs
    <2>2. QED
      BY <1>2, <1>3, <1>5, <2>1
  <1>7. \A j \in 1..(Len(o) + 1) :
           (e \o c)[j] = IF j < p THEN o[j] ELSE IF j = p THEN b ELSE o[j - 1]
    <2> SUFFICES ASSUME NEW j \in 1..(Len(o) + 1)
                 PROVE  (e \o c)[j] = IF j < p THEN o[j] ELSE IF j = p THEN b ELSE o[j - 1]
      OBVIOUS
    <2>1. CASE j <= p
      <3>1. j \in 1..Len(e)
        BY <1>3, <1>5, <2>1
      <3>2. (e \o c)[j] = e[j]
        BY <1>2, <1>5, <3>1, ConcatLeft
      <3>3. QED
        BY <1>3, <1>5, <2>1, <3>2
    <2>2. CASE ~(j <= p)
      <3>1. j - p \in 1..(Len(o) - p + 1) /\ p + (j - p) - 1 = j - 1 /\ ~(j < p) /\ j # p
        BY <1>3, <2>2
      <3>2. (e \o c)[j] = c[j - p]
        BY <1>2, <1>3, <1>5, <2>2
      <3>3. QED
        BY <1>2, <3>1, <3>2
    <2>3. QED
      BY <2>1, <2>2
  <1>8. QED
    BY <1>4, <1>6, <1>7 DEF Inserts

LEMMA InsertsAdds ==
  ASSUME NEW S, NEW o \in Seq(S), IsInjective(o), NEW b, b \notin ToSet(o),
         NEW p, NEW r \in Seq(S), Inserts(o, p, b, r)
  PROVE  IsInjective(r) /\ ToSet(r) = ToSet(o) \cup {b} /\ p \in DOMAIN r /\ r[p] = b
  <1>1. /\ p \in Nat /\ p >= 1 /\ p <= Len(o) + 1 /\ Len(o) \in Nat
        /\ DOMAIN r = 1..(Len(o) + 1) /\ DOMAIN o = 1..Len(o)
    BY DEF Inserts
  <1>2. \A j \in DOMAIN r : r[j] = IF j < p THEN o[j] ELSE IF j = p THEN b ELSE o[j - 1]
    BY <1>1 DEF Inserts
  <1>3. p \in DOMAIN r /\ r[p] = b
    BY <1>1, <1>2
  <1>4. ASSUME NEW j \in DOMAIN r, j # p
        PROVE  \E m \in DOMAIN o : r[j] = o[m] /\ m = (IF j < p THEN j ELSE j - 1)
    <2>1. CASE j < p
      <3>1. j \in DOMAIN o
        BY <1>1, <2>1
      <3>2. QED
        BY <1>2, <2>1, <3>1
    <2>2. CASE ~(j < p)
      <3>1. j - 1 \in DOMAIN o
        BY <1>1, <1>4, <2>2
      <3>2. QED
        BY <1>2, <1>4, <2>2, <3>1
    <2>3. QED
      BY <2>1, <2>2
  <1>5. \A m \in DOMAIN o : o[m] # b
    BY DEF ToSet
  <1>6. ASSUME NEW m \in DOMAIN o PROVE \E j \in DOMAIN r : r[j] = o[m]
    <2>1. CASE m < p
      <3>1. m \in DOMAIN r
        BY <1>1
      <3>2. QED
        BY <1>2, <2>1, <3>1
    <2>2. CASE ~(m < p)
      <3>1. m + 1 \in DOMAIN r /\ ~(m + 1 < p) /\ m + 1 # p /\ (m + 1) - 1 = m
        BY <1>1, <2>2
      <3>2. r[m + 1] = o[m]
        BY <1>2, <3>1
      <3>3. QED
        BY <3>1, <3>2
    <2>3. QED
      BY <2>1, <2>2
  <1>7. ToSet(r) = ToSet(o) \cup {b}
    <2>1. ASSUME NEW x \in ToSet(r) PROVE x \in ToSet(o) \cup {b}
      <3>1. PICK j \in DOMAIN r : x = r[j]
        BY DEF ToSet
      <3>2. QED
        BY <1>3, <1>4, <3>1 DEF ToSet
    <2>2. ASSUME NEW x \in ToSet(o) PROVE x \in ToSet(r)
      BY <1>6 DEF ToSet
    <2>3. b \in ToSet(r)
      BY <1>3 DEF ToSet
    <2>4. QED
      BY <2>1, <2>2, <2>3
  <1>8. IsInjective(r)
    <2> SUFFICES ASSUME NEW i \in DOMAIN r, NEW j \in DOMAIN r, r[i] = r[j] PROVE i = j
      BY DEF IsInjective
    <2>1. CASE i = p \/ j = p
      BY <1>3, <1>4, <1>5, <2>1
    <2>2. CASE i # p /\ j # p
      <3>1. PICK m \in DOMAIN o : r[i] = o[m] /\ m = (IF i < p THEN i ELSE i - 1)
        BY <1>4, <2>2
      <3>2. PICK n \in DOMAIN o : r[j] = o[n] /\ n = (IF j < p THEN j ELSE j - 1)
        BY <1>4, <2>2
      <3>3. m = n
        BY <3>1, <3>2 DEF IsInjective
      <3>4. i \in Nat /\ j \in Nat
        BY <1>1
      <3>5. QED
        BY <1>1, <2>2, <3>1, <3>2, <3>3, <3>4
    <2>3. QED
      BY <2>1, <2>2
  <1>9. QED
    BY <1>3, <1>7, <1>8

\* The shelf without a row: what is left moves to the front.
LEMMA OthersIs ==
  ASSUME NEW S, shelf \in Seq(S), IsInjective(shelf), NEW b
  PROVE  LET o == Others(b)
         IN  /\ o \in Seq(S)
             /\ IsInjective(o)
             /\ ToSet(o) = Rows \ {b}
             /\ Len(o) = IF b \in Rows THEN Len(shelf) - 1 ELSE Len(shelf)
             /\ \A j \in DOMAIN o : \E i \in DOMAIN shelf :
                   /\ j <= i /\ shelf[i] = o[j]
                   /\ b \in Rows => i = IF j < PlaceOf(shelf, b) THEN j ELSE j + 1
  <1>1. CASE b \notin Rows
    <2>1. Others(b) = shelf
      BY <1>1 DEF Others
    <2>2. \A j \in DOMAIN shelf : j \in Nat /\ j <= j
      OBVIOUS
    <2>3. ToSet(shelf) = Rows \ {b}
      BY <1>1 DEF Rows
    <2>4. QED
      BY <1>1, <2>1, <2>2, <2>3
  <1>2. CASE b \in Rows
    <2>1. PICK k \in DOMAIN shelf : shelf[k] = b
      BY <1>2 DEF Rows, ToSet
    <2>2. PlaceOf(shelf, b) = k
      BY <2>1, PlaceIs
    <2>3. PICK o : o = Others(b)
      OBVIOUS
    <2>4. o = RemoveAt(shelf, k)
      BY <1>2, <2>2, <2>3 DEF Others
    <2>5. k \in 1..Len(shelf) /\ DOMAIN shelf = 1..Len(shelf) /\ Len(shelf) \in Nat
      BY <2>1
    <2>6. /\ o \in Seq(S)
          /\ Len(o) = Len(shelf) - 1
          /\ \A j \in 1..Len(o) : o[j] = IF j < k THEN shelf[j] ELSE shelf[j + 1]
      BY <2>4, <2>5, RemoveIs
    <2>7. DOMAIN o = 1..(Len(shelf) - 1)
      BY <2>6
    <2>8. \A j \in DOMAIN o : \E i \in DOMAIN shelf :
             j <= i /\ shelf[i] = o[j] /\ i = IF j < k THEN j ELSE j + 1
      <3> SUFFICES ASSUME NEW j \in DOMAIN o
                   PROVE  \E i \in DOMAIN shelf :
                             j <= i /\ shelf[i] = o[j] /\ i = IF j < k THEN j ELSE j + 1
        OBVIOUS
      <3>1. CASE j < k
        <4>1. j \in DOMAIN shelf /\ j <= j /\ shelf[j] = o[j]
          BY <2>5, <2>6, <2>7, <3>1
        <4>2. QED
          BY <3>1, <4>1
      <3>2. CASE ~(j < k)
        <4>1. j + 1 \in DOMAIN shelf /\ j <= j + 1 /\ shelf[j + 1] = o[j]
          BY <2>5, <2>6, <2>7, <3>2
        <4>2. QED
          BY <3>2, <4>1
      <3>3. QED
        BY <3>1, <3>2
    <2>9. IsInjective(o)
      <3> SUFFICES ASSUME NEW j \in DOMAIN o, NEW l \in DOMAIN o, o[j] = o[l] PROVE j = l
        BY DEF IsInjective
      <3>1. PICK i \in DOMAIN shelf : shelf[i] = o[j] /\ i = IF j < k THEN j ELSE j + 1
        BY <2>8
      <3>2. PICK m \in DOMAIN shelf : shelf[m] = o[l] /\ m = IF l < k THEN l ELSE l + 1
        BY <2>8
      <3>3. i = m
        BY <3>1, <3>2 DEF IsInjective
      <3>4. j \in Nat /\ l \in Nat /\ k \in Nat
        BY <2>5, <2>7
      <3>5. QED
        BY <3>1, <3>2, <3>3, <3>4
    <2>10. ToSet(o) = Rows \ {b}
      <3>1. ASSUME NEW x \in ToSet(o) PROVE x \in Rows /\ x # b
        <4>1. PICK j \in DOMAIN o : x = o[j]
          BY DEF ToSet
        <4>2. PICK i \in DOMAIN shelf : shelf[i] = o[j] /\ i = IF j < k THEN j ELSE j + 1
          BY <2>8
        <4>3. i # k
          BY <2>5, <2>7, <4>2
        <4>4. QED
          BY <2>1, <4>1, <4>2, <4>3 DEF Rows, ToSet, IsInjective
      <3>2. ASSUME NEW x \in Rows, x # b PROVE x \in ToSet(o)
        <4>1. PICK i \in DOMAIN shelf : x = shelf[i]
          BY DEF Rows, ToSet
        <4>2. i # k
          BY <2>1, <3>2, <4>1
        <4>3. CASE i < k
          <5>1. i \in DOMAIN o /\ o[i] = x
            BY <2>5, <2>6, <2>7, <4>1, <4>3
          <5>2. QED
            BY <5>1 DEF ToSet
        <4>4. CASE i > k
          <5>1. i - 1 \in DOMAIN o /\ ~(i - 1 < k) /\ (i - 1) + 1 = i
            BY <2>5, <2>7, <4>4
          <5>2. o[i - 1] = x
            BY <2>6, <2>7, <4>1, <5>1
          <5>3. QED
            BY <5>1, <5>2 DEF ToSet
        <4>5. QED
          BY <2>5, <4>2, <4>3, <4>4
      <3>3. QED
        BY <3>1, <3>2
    <2>12. QED
      BY <1>2, <2>2, <2>3, <2>6, <2>8, <2>9, <2>10
  <1>3. QED
    BY <1>1, <1>2

\* A row comes, or moves no further back: no other row moves to the front.
LEMMA WithIs ==
  ASSUME NEW K \in Nat, shelf \in Seq(1..K), IsInjective(shelf), NEW b \in 1..K,
         NEW r \in With(b)
  PROVE  /\ r \in Seq(1..K)
         /\ IsInjective(r)
         /\ ToSet(r) = Rows \cup {b}
         /\ Len(r) = IF b \in Rows THEN Len(shelf) ELSE Len(shelf) + 1
         /\ ~list.byCursor /\ (b \notin Rows \/ ~(PlaceOf(r, b) > PlaceOf(shelf, b))) =>
               \A j \in DOMAIN r : r[j] # b =>
                  \E i \in DOMAIN shelf : i <= j /\ shelf[i] = r[j]
  <1>1. Rows \in SUBSET (1..K)
    BY DEF Rows, ToSet
  <1>2. Len(shelf) \in Nat /\ Cardinality(Rows) = Len(shelf) /\ IsFiniteSet(Rows)
    BY InjectiveCounts DEF Rows
  <1>3. CASE list.byCursor
    <2> DEFINE S == Rows \cup {b}
    <2>1. r = NewestFirst(S)
      BY <1>3 DEF With
    <2>2. S \in SUBSET (1..K)
      BY <1>1
    <2>3. /\ r \in Seq(S) /\ Len(r) = Cardinality(S) /\ ToSet(r) = S /\ Falls(r)
      <3> HIDE DEF S
      <3>1. QED
        BY <2>1, <2>2, NewestFirstIs
    <2>4. r \in Seq(1..K) /\ r \in Seq(Nat)
      <3> HIDE DEF S
      <3>1. \A T : S \subseteq T => r \in Seq(T)
        BY <2>3
      <3>2. S \subseteq 1..K /\ S \subseteq Nat
        BY <2>2
      <3>3. QED
        BY <3>1, <3>2
    <2>5. IsInjective(r)
      BY <2>3, <2>4, FallsInjective
    <2>6. Cardinality(S) = IF b \in Rows THEN Len(shelf) ELSE Len(shelf) + 1
      BY <1>2, FS_AddElement
    <2> HIDE DEF S
    <2>7. QED
      BY <1>3, <2>3, <2>4, <2>5, <2>6 DEF S
  <1>4. CASE ~list.byCursor
    <2>1. PICK o : o = Others(b)
      OBVIOUS
    <2>2. /\ o \in Seq(1..K) /\ IsInjective(o) /\ ToSet(o) = Rows \ {b}
          /\ Len(o) = IF b \in Rows THEN Len(shelf) - 1 ELSE Len(shelf)
          /\ \A j \in DOMAIN o : \E i \in DOMAIN shelf :
                /\ j <= i /\ shelf[i] = o[j]
                /\ b \in Rows => i = IF j < PlaceOf(shelf, b) THEN j ELSE j + 1
      BY <2>1, OthersIs
    <2>3. PICK p : r \in Seq(1..K) /\ Inserts(o, p, b, r)
      <3>1. r \in {InsertAt(o, i, b) : i \in 1..Len(o) + 1}
        BY <1>4, <2>1 DEF With
      <3>2. PICK p \in 1..(Len(o) + 1) : r = InsertAt(o, p, b)
        BY <3>1
      <3>3. QED
        BY <2>2, <3>2, InsertIs
    <2>4. b \notin ToSet(o)
      BY <2>2
    <2>5. IsInjective(r) /\ ToSet(r) = ToSet(o) \cup {b} /\ p \in DOMAIN r /\ r[p] = b
      BY <2>2, <2>3, <2>4, InsertsAdds
    <2>6. Len(r) = IF b \in Rows THEN Len(shelf) ELSE Len(shelf) + 1
      <3>1. Len(r) = Len(o) + 1
        BY <2>3 DEF Inserts
      <3>2. QED
        BY <1>2, <2>2, <3>1
    <2>7. ASSUME b \notin Rows \/ ~(PlaceOf(r, b) > PlaceOf(shelf, b)),
                 NEW j \in DOMAIN r, r[j] # b
          PROVE  \E i \in DOMAIN shelf : i <= j /\ shelf[i] = r[j]
      <3>1. PlaceOf(r, b) = p
        BY <2>5, PlaceIs
      <3>2. j # p
        BY <2>5, <2>7
      <3>3. /\ p \in Nat /\ j \in Nat /\ Len(o) \in Nat /\ p >= 1
            /\ DOMAIN o = 1..Len(o) /\ DOMAIN r = 1..(Len(o) + 1)
            /\ r[j] = IF j < p THEN o[j] ELSE IF j = p THEN b ELSE o[j - 1]
            /\ p <= Len(o) + 1
        <4>1. Inserts(o, p, b, r) /\ Len(o) \in Nat
          BY <2>2, <2>3
        <4>2. p \in 1..(Len(o) + 1) /\ Len(r) = Len(o) + 1
          BY <4>1 DEF Inserts
        <4>3. DOMAIN o = 1..Len(o) /\ DOMAIN r = 1..(Len(o) + 1)
          <5>1. DOMAIN o = 1..Len(o) /\ DOMAIN r = 1..Len(r)
            BY <2>2, <2>3
          <5>2. QED
            BY <4>2, <5>1
        <4>4. r[j] = IF j < p THEN o[j] ELSE IF j = p THEN b ELSE o[j - 1]
          BY <4>1, <4>2, <4>3 DEF Inserts
        <4>5. QED
          BY <4>1, <4>2, <4>3, <4>4
      <3>4. PICK m \in Nat : m = IF j < p THEN j ELSE j - 1
        BY <3>2, <3>3
      <3>5. m \in DOMAIN o /\ r[j] = o[m]
        BY <3>2, <3>3, <3>4
      <3>6. PICK i \in DOMAIN shelf :
               /\ m <= i /\ shelf[i] = o[m]
               /\ b \in Rows => i = IF m < PlaceOf(shelf, b) THEN m ELSE m + 1
        BY <2>2, <3>5
      <3>7. CASE b \notin Rows
        <4>1. o = shelf
          BY <2>1, <3>7 DEF Others
        <4>2. m \in DOMAIN shelf /\ shelf[m] = r[j] /\ m <= j
          BY <3>3, <3>4, <3>5, <4>1
        <4>3. QED
          BY <4>2
      <3>8. CASE b \in Rows
        <4>1. PICK k \in DOMAIN shelf : shelf[k] = b
          BY <3>8 DEF Rows, ToSet
        <4>2. PlaceOf(shelf, b) = k /\ k \in Nat
          BY <4>1, PlaceIs
        <4>3. p <= k
          BY <2>7, <3>1, <3>3, <3>8, <4>2
        <4>4. i = IF m < k THEN m ELSE m + 1
          BY <3>6, <3>8, <4>2
        <4>5. i <= j
          <5>1. CASE j < p
            <6>1. m = j /\ m < k
              BY <3>3, <3>4, <4>2, <4>3, <5>1
            <6>2. QED
              BY <3>3, <4>4, <6>1
          <5>2. CASE j > p
            <6>1. m = j - 1
              BY <3>3, <3>4, <5>2
            <6>2. i = m \/ i = m + 1
              BY <4>4
            <6>3. j \in Nat
              BY <3>3
            <6>4. j - 1 <= j /\ (j - 1) + 1 = j /\ j <= j
              BY <6>3
            <6>5. QED
              BY <6>1, <6>2, <6>4
          <5>3. QED
            BY <3>2, <3>3, <5>1, <5>2
        <4>6. QED
          BY <3>5, <3>6, <4>5
      <3>9. QED
        BY <3>7, <3>8
    <2>8. QED
      BY <1>4, <2>2, <2>3, <2>5, <2>6, <2>7
  <1>5. QED
    BY <1>3, <1>4

\* The first rows of a set: those before any of them, and all when they are fewer.
LEMMA NewestIs ==
  ASSUME NEW K \in Nat, NEW S \in SUBSET (1..K), NEW n \in Nat \ {0}
  PROVE  LET T == Newest_(S, n)
         IN  /\ T \in SUBSET S
             /\ \A x \in S : \A y \in T : x >= y => x \in T
             /\ S # {} => T # {}
             /\ Cardinality(T) < n => T = S
  <1> DEFINE T == {x \in S : Rank(S, x) < n}
  <1>1. Newest_(S, n) = T
    BY DEF Newest_, Rank, Above
  <1>2. IsFiniteSet(S) /\ S \in SUBSET Nat /\ Cardinality(S) \in Nat
    <2>1. IsFiniteSet(1..K)
      BY FS_Interval
    <2>2. IsFiniteSet(S)
      BY <2>1, FS_Subset
    <2>3. QED
      BY <2>2, FS_CardinalityType
  <1>3. ASSUME NEW x \in S, NEW y \in T, x >= y PROVE x \in T
    <2>1. x = y \/ y < x
      BY <1>2, <1>3
    <2>2. Rank(S, x) <= Rank(S, y)
      <3>1. Rank(S, x) \in Nat /\ Rank(S, y) \in Nat
        BY <1>2, RankTyped
      <3>2. CASE y < x
        <4>1. Rank(S, x) < Rank(S, y)
          BY <1>2, <3>2, RankFalls
        <4>2. QED
          BY <3>1, <4>1
      <3>3. QED
        BY <2>1, <3>1, <3>2
    <2>3. Rank(S, x) \in Nat /\ Rank(S, y) \in Nat
      BY <1>2, RankTyped
    <2>4. QED
      BY <2>2, <2>3
  <1>4. ASSUME S # {} PROVE T # {}
    <2>1. Cardinality(S) # 0
      BY <1>2, <1>4, FS_EmptySet
    <2>2. 1 \in 1..Cardinality(S)
      BY <1>2, <2>1
    <2>3. PICK x \in S : Rank(S, x) = 1 - 1
      BY <1>2, <2>2, RankReached
    <2>4. Rank(S, x) < n
      BY <2>3
    <2>5. QED
      BY <2>4
  <1>5. ASSUME NEW x \in S, x \notin T PROVE Cardinality(T) >= n
    <2>1. Rank(S, x) \in Nat /\ Rank(S, x) < Cardinality(S) /\ Rank(S, x) >= n
      <3>1. Rank(S, x) \in Nat /\ ~(Rank(S, x) < n)
        BY <1>2, <1>5, RankTyped
      <3>2. Rank(S, x) < Cardinality(S)
        BY <1>2, RankBound
      <3>3. QED
        BY <3>1, <3>2
    <2>2. n \in 1..Cardinality(S)
      BY <1>2, <2>1
    <2>3. PICK z \in S : Rank(S, z) = n - 1
      BY <1>2, <2>2, RankReached
    <2> DEFINE A == Above(S, z)
    <2>4. IsFiniteSet(A) /\ Cardinality(A) = n - 1
      BY <1>2, <2>3, RankTyped DEF Rank
    <2>5. z \in Nat /\ z \notin A /\ A \in SUBSET S
      BY <1>2 DEF Above
    <2>6. ASSUME NEW y \in A PROVE y \in T
      <3>1. y \in S /\ z < y
        BY <1>2, <2>5, <2>6 DEF Above
      <3>2. Rank(S, y) < Rank(S, z)
        BY <1>2, <3>1, RankFalls
      <3>3. Rank(S, y) \in Nat
        BY <1>2, RankTyped
      <3>4. QED
        BY <2>3, <3>1, <3>2, <3>3
    <2>7. z \in T
      BY <2>3
    <2>8. IsFiniteSet(T)
      BY <1>2, FS_Subset
    <2> HIDE DEF A, T
    <2>9. Cardinality(A \cup {z}) = n
      <3>1. Cardinality(A \cup {z}) = Cardinality(A) + 1
        BY <2>4, <2>5, FS_AddElement
      <3>2. QED
        BY <2>4, <3>1
    <2>10. A \cup {z} \in SUBSET T
      BY <2>6, <2>7
    <2>11. Cardinality(A \cup {z}) <= Cardinality(T)
      BY <2>8, <2>10, FS_Subset
    <2>12. QED
      BY <2>8, <2>9, <2>11, FS_CardinalityType
  <1>6. ASSUME Cardinality(T) < n PROVE T = S
    <2>1. IsFiniteSet(T)
      BY <1>2, FS_Subset
    <2>2. Cardinality(T) \in Nat
      BY <2>1, FS_CardinalityType
    <2>3. ~(Cardinality(T) >= n)
      <3> HIDE DEF T
      <3>1. QED
        BY <1>6, <2>2
    <2>4. \A x \in S : x \in T
      BY <1>5, <2>3
    <2>5. QED
      BY <2>4
  <1>7. T \in SUBSET S
    OBVIOUS
  <1> HIDE DEF T
  <1>8. QED
    BY <1>1, <1>3, <1>4, <1>6, <1>7

LEMMA TakeTyped == Take \in Nat \ {0}
  <1> DEFINE a == Max({1, Limit})
  <1>1. a \in Int /\ a >= 1
    <2>1. \E x \in {1, Limit} : \A y \in {1, Limit} : x >= y
      BY ListingAssumption
    <2>2. a \in {1, Limit} /\ \A y \in {1, Limit} : a >= y
      BY <2>1 DEF Max
    <2> HIDE DEF a
    <2>3. QED
      BY <2>2, ListingAssumption
  <1>2. Take = Min({100, a})
    BY DEF Take, SafeLimit
  <1> HIDE DEF a
  <1>3. \E x \in {100, a} : \A y \in {100, a} : x <= y
    BY <1>1
  <1>4. Min({100, a}) \in {100, a}
    BY <1>3 DEF Min
  <1>5. QED
    BY <1>1, <1>2, <1>4

\* The rows after a cursor's.
LEMMA AfterIs ==
  ASSUME NEW K \in Nat, shelf \in Seq(1..K), NEW c \in Nat
  PROVE  /\ After(c) \in SUBSET Rows
         /\ \A x \in After(c) : x < c
         /\ c \in Rows => \A x \in Rows : x < c => x \in After(c)
  <1> DEFINE S == Onwards(c)
             T == Newest_(S, 1)
  <1>1. Rows \in SUBSET (1..K)
    BY DEF Rows, ToSet
  <1>2. S \in SUBSET Rows /\ \A x \in S : x <= c
    BY DEF Onwards
  <1>3. c \in Rows => \A x \in Rows : x <= c => x \in S
    BY DEF Onwards
  <1>4. IsFiniteSet(S) /\ S \in SUBSET Nat /\ S \in SUBSET (1..K)
    <2> HIDE DEF S
    <2>1. IsFiniteSet(1..K)
      BY FS_Interval
    <2>2. S \in SUBSET (1..K)
      BY <1>1, <1>2
    <2>3. IsFiniteSet(S)
      BY <2>1, <2>2, FS_Subset
    <2>4. QED
      BY <2>2, <2>3
  <1>5. After(c) = S \ T
    BY DEF After
  <1>6. T = {x \in S : Rank(S, x) < 1}
    BY DEF Newest_, Rank, Above
  <1> HIDE DEF S, T
  <1>7. ASSUME NEW x \in S, x \notin T PROVE x < c
    <2>1. Rank(S, x) # 0
      BY <1>6, <1>7
    <2>2. Above(S, x) # {}
      BY <2>1, FS_EmptySet DEF Rank
    <2>3. PICK y \in S : y > x
      BY <2>2 DEF Above
    <2>4. x \in Nat /\ y \in Nat /\ y <= c
      BY <1>2, <1>4
    <2>5. QED
      BY <2>3, <2>4
  <1>8. ASSUME c \in Rows, NEW x \in Rows, x < c PROVE x \in S /\ x \notin T
    <2>1. x \in Nat /\ c <= c /\ x <= c
      BY <1>1, <1>8
    <2>2. x \in S /\ c \in S
      BY <1>3, <1>8, <2>1
    <2>3. Rank(S, c) < Rank(S, x)
      BY <1>4, <1>8, <2>2, RankFalls
    <2>4. Rank(S, c) \in Nat /\ Rank(S, x) \in Nat
      BY <1>4, RankTyped
    <2>5. ~(Rank(S, x) < 1)
      BY <2>3, <2>4
    <2>6. QED
      BY <1>6, <2>2, <2>5
  <1>9. QED
    BY <1>2, <1>5, <1>7, <1>8

-----------------------------------------------------------------------------
(* Lists: what a client has, wherever it is in its walk.                    *)

\* As far as a walk by number has come.
Upto == IF number.found THEN number.page * Take ELSE (number.page - 1) * Take
NoneLost == events \cap {"removed", "late"} = {}
Staying == seenAtStart \ (touched \cup turned)
Once(s) == \A i, j \in DOMAIN s : s[i] = s[j] /\ s[i] \notin turned => i = j

NewKnows == walk = "new" => got = <<>> /\ number = FirstNumber /\ events = {}
IdsKnow ==
    walk = "ids" =>
        /\ got = <<>> /\ ids # {}
        /\ "skew" \notin events => \A x \in seenAtStart : \A y \in ids : x >= y => x \in ids
\* By cursor: all down to the cursor, in order, if the first page was.
PageKnows ==
    walk = "page" =>
        /\ got # <<>> /\ Last(got) = cursor
        /\ "skew" \notin events => Falls(got)
        /\ events \cap {"cut", "skew"} = {} =>
              \A x \in Rows \cap Staying : x >= cursor => x \in ToSet(got)
\* By number: the first rows of the shelf, and none of the others, but for those
\* a tie has carried over the border.
NumberKnows ==
    walk = "number" =>
        /\ ~number.found \/ number.total = NotCounted
        /\ "added" \notin events =>
              /\ Once(got)
              /\ \A i \in DOMAIN shelf : shelf[i] \in ToSet(got) \ turned => i <= Upto
        /\ NoneLost =>
              /\ \A i \in DOMAIN shelf : shelf[i] \in Staying /\ i <= Upto => shelf[i] \in ToSet(got)
              /\ number.total # NotCounted => Len(shelf) = number.total
NumberedOnly == walk = "number" => ~list.byCursor
DoneKnows == walk = "done" => NoRowTwice /\ NoRowMissed

ListingInv ==
    /\ ListingTypeOK
    /\ NumberedOnly
    /\ NewKnows
    /\ IdsKnow
    /\ PageKnows
    /\ NumberKnows
    /\ DoneKnows

\* What the coming and going of rows may do to the shelf.
RowsMove ==
    /\ created' \in 0..Ids /\ created <= created'
    /\ shelf' \in Seq(1..created') /\ IsInjective(shelf')
    /\ hidden' \subseteq 1..created' /\ hidden' \cap ToSet(shelf') = {}
    /\ touched \subseteq touched' /\ touched' \subseteq 1..created'
    /\ events \subseteq events' /\ events' \subseteq {"cut", "skew", "added", "removed", "late"}
    /\ \A x \in seenAtStart \ touched' : x \in ToSet(shelf') => x \in Rows
    /\ walk = "number" /\ "added" \notin events' =>
          \A j \in DOMAIN shelf' : \E i \in DOMAIN shelf : j <= i /\ shelf[i] = shelf'[j]
    /\ walk = "number" /\ events' \cap {"removed", "late"} = {} =>
          /\ \A j \in DOMAIN shelf' : shelf'[j] \in seenAtStart \ touched' =>
                \E i \in DOMAIN shelf : i <= j /\ shelf[i] = shelf'[j]
          /\ number.total # NotCounted => Len(shelf') = Len(shelf)

LEMMA ShelfTyped ==
  ASSUME ListingTypeOK
  PROVE  /\ created \in Nat /\ Ids \in Nat
         /\ Rows \in SUBSET (1..created)
         /\ Len(shelf) \in 0..Ids
         /\ DOMAIN shelf = 1..Len(shelf)
  <1>1. created \in 0..Ids /\ Ids \in Nat /\ shelf \in Seq(1..created) /\ IsInjective(shelf)
    BY ListingAssumption DEF ListingTypeOK
  <1>2. created \in Nat
    BY <1>1
  <1>3. Len(shelf) \in 0..created
    BY <1>1, <1>2, NoMoreThanIds
  <1>4. QED
    BY <1>1, <1>2, <1>3 DEF Rows, ToSet

LEMMA AddMoves ==
  ASSUME ListingTypeOK, NumberedOnly, AddEntry
  PROVE  RowsMove
  <1> DEFINE b == created + 1
  <1>1. /\ created \in Nat /\ created + 1 \in 0..Ids /\ created <= created + 1
        /\ Rows \in SUBSET (1..created)
    BY ShelfTyped DEF AddEntry, ListingTypeOK
  <1>2. /\ created' = b /\ shelf' \in With(b) /\ hidden' = hidden /\ touched' = touched
        /\ events' = events \cup (IF Numbered THEN Joined ELSE {})
    BY DEF AddEntry, Happens, client
  <1>3. b \notin Rows /\ b \notin hidden /\ b \notin seenAtStart
    BY <1>1 DEF ListingTypeOK
  <1>4. 1..created \subseteq 1..b /\ b \in Nat /\ b \in 1..b
    BY <1>1
  <1>5. shelf \in Seq(1..b) /\ IsInjective(shelf)
    BY <1>4 DEF ListingTypeOK
  <1>7. PICK r : r = shelf'
    OBVIOUS
  <1> HIDE DEF b
  <1>8. r \in With(b)
    BY <1>2, <1>7
  <1>9. /\ r \in Seq(1..b)
        /\ IsInjective(r)
        /\ ToSet(r) = Rows \cup {b}
        /\ ~list.byCursor =>
              \A j \in DOMAIN r : r[j] # b => \E i \in DOMAIN shelf : i <= j /\ shelf[i] = r[j]
    BY <1>3, <1>4, <1>5, <1>8, WithIs
  <1>10. events' \subseteq {"cut", "skew", "added", "removed", "late"} /\ events \subseteq events'
    BY <1>2 DEF Joined, ListingTypeOK
  <1>11. walk = "number" => "added" \in events'
    BY <1>2 DEF Joined, Numbered
  <1>12. walk = "number" /\ number.total # NotCounted => "late" \in events'
    BY <1>2 DEF Joined, Numbered
  <1>13. hidden \subseteq 1..b /\ hidden \cap ToSet(r) = {} /\ touched \subseteq 1..b
    BY <1>3, <1>4, <1>9 DEF ListingTypeOK
  <1>14. b \in 0..Ids /\ created <= b
    BY <1>1 DEF b
  <1>15. QED
    BY <1>2, <1>3, <1>7, <1>9, <1>10, <1>11, <1>12, <1>13, <1>14 DEF RowsMove, NumberedOnly

LEMMA RemoveMoves ==
  ASSUME ListingTypeOK, NumberedOnly, RemoveEntry
  PROVE  RowsMove
  <1>1. PICK b \in Rows \cup hidden :
           /\ shelf' = Others(b)
           /\ hidden' = hidden \ {b}
           /\ events' = events \cup (IF Numbered /\ b \in Rows THEN {"removed"} ELSE {})
    BY DEF RemoveEntry, Happens
  <1>2. created' = created /\ touched' = touched /\ created \in 0..Ids /\ created \in Nat
    BY ShelfTyped DEF RemoveEntry, client, ListingTypeOK
  <1>3. PICK r : r = shelf'
    OBVIOUS
  <1>4. r = Others(b)
    BY <1>1, <1>3
  <1>5. /\ r \in Seq(1..created)
        /\ IsInjective(r)
        /\ ToSet(r) = Rows \ {b}
        /\ \A j \in DOMAIN r : \E i \in DOMAIN shelf : j <= i /\ shelf[i] = r[j]
    BY <1>4, OthersIs DEF ListingTypeOK
  <1>6. events' \subseteq {"cut", "skew", "added", "removed", "late"} /\ events \subseteq events'
    BY <1>1 DEF ListingTypeOK
  <1>7. hidden \cap Rows = {} /\ hidden \cup touched \subseteq 1..created
    BY DEF ListingTypeOK
  <1>8. /\ hidden' \subseteq 1..created /\ hidden' \cap ToSet(r) = {}
        /\ touched \subseteq touched' /\ touched' \subseteq 1..created
    BY <1>1, <1>2, <1>5, <1>7
  <1>9. walk = "number" /\ events' \cap {"removed", "late"} = {} => r = shelf
    BY <1>1, <1>4 DEF Numbered, Others
  <1>10. created <= created /\ \A j \in DOMAIN shelf : j <= j
    BY <1>2, ShelfTyped
  <1>11. QED
    BY <1>2, <1>3, <1>5, <1>6, <1>8, <1>9, <1>10 DEF RowsMove

LEMMA EnterMoves ==
  ASSUME ListingTypeOK, NumberedOnly, EnterEntry
  PROVE  RowsMove
  <1>1. PICK b \in Rows \cup hidden :
           /\ shelf' \in With(b)
           /\ hidden' = hidden \ {b}
           /\ touched' = touched \cup {b}
           /\ events' = events \cup
                 (IF ~Numbered THEN {}
                  ELSE IF b \in hidden THEN Joined
                  ELSE {"added"} \cup IF PlaceOf(shelf', b) > PlaceOf(shelf, b)
                                     THEN {"removed"} ELSE {})
    BY DEF EnterEntry, Happens
  <1>2. created' = created /\ created \in 0..Ids /\ created \in Nat
    BY ShelfTyped DEF EnterEntry, ListingTypeOK
  <1>3. PICK r : r = shelf'
    OBVIOUS
  <1>4. r \in With(b) /\ b \in 1..created
    BY <1>1, <1>3, ShelfTyped DEF ListingTypeOK
  <1>6. /\ r \in Seq(1..created)
        /\ IsInjective(r)
        /\ ToSet(r) = Rows \cup {b}
        /\ Len(r) = IF b \in Rows THEN Len(shelf) ELSE Len(shelf) + 1
        /\ ~list.byCursor /\ (b \notin Rows \/ ~(PlaceOf(r, b) > PlaceOf(shelf, b))) =>
              \A j \in DOMAIN r : r[j] # b =>
                 \E i \in DOMAIN shelf : i <= j /\ shelf[i] = r[j]
    BY <1>2, <1>4, WithIs DEF ListingTypeOK
  <1>h. hidden \cap Rows = {}
    BY DEF ListingTypeOK
  <1>7. events' \subseteq {"cut", "skew", "added", "removed", "late"} /\ events \subseteq events'
    BY <1>1 DEF Joined, ListingTypeOK
  <1>8. walk = "number" => "added" \in events'
    BY <1>1 DEF Joined, Numbered
  <1>9. walk = "number" /\ events' \cap {"removed", "late"} = {} =>
           /\ b \notin Rows \/ ~(PlaceOf(r, b) > PlaceOf(shelf, b))
           /\ b \notin Rows => number.total = NotCounted
    <2> SUFFICES ASSUME walk = "number", events' \cap {"removed", "late"} = {}
                 PROVE  /\ b \notin Rows \/ ~(PlaceOf(r, b) > PlaceOf(shelf, b))
                        /\ b \notin Rows => number.total = NotCounted
      OBVIOUS
    <2>1. CASE b \in hidden
      <3>1. b \notin Rows
        BY <1>h, <2>1
      <3>2. Joined \subseteq events'
        BY <1>1, <2>1 DEF Numbered
      <3>3. QED
        BY <3>1, <3>2 DEF Joined
    <2>2. CASE b \notin hidden
      <3>1. (IF PlaceOf(r, b) > PlaceOf(shelf, b) THEN {"removed"} ELSE {}) \subseteq events'
        BY <1>1, <1>3, <2>2 DEF Numbered
      <3>2. b \in Rows
        BY <2>2
      <3>3. QED
        BY <3>1, <3>2
    <2>3. QED
      BY <2>1, <2>2
  <1>10. /\ hidden' \subseteq 1..created /\ hidden' \cap ToSet(r) = {}
         /\ touched \subseteq touched' /\ touched' \subseteq 1..created /\ b \in touched'
    BY <1>1, <1>4, <1>6, <1>h DEF ListingTypeOK
  <1>11. created <= created
    BY <1>2
  <1>12. QED
    BY <1>2, <1>3, <1>6, <1>7, <1>8, <1>9, <1>10, <1>11 DEF RowsMove, NumberedOnly

LEMMA LeaveMoves ==
  ASSUME ListingTypeOK, NumberedOnly, LeaveEntry
  PROVE  RowsMove
  <1>1. PICK b \in Rows :
           /\ shelf' = Others(b)
           /\ hidden' = hidden \cup {b}
           /\ touched' = touched \cup {b}
    BY DEF LeaveEntry
  <1>2. /\ created' = created /\ created \in 0..Ids /\ created \in Nat
        /\ events' = events \cup (IF Numbered THEN {"removed"} ELSE {})
    BY ShelfTyped DEF LeaveEntry, Happens, ListingTypeOK
  <1>3. PICK r : r = shelf'
    OBVIOUS
  <1>4. r = Others(b) /\ b \in 1..created
    BY <1>1, <1>3, ShelfTyped
  <1>5. /\ r \in Seq(1..created)
        /\ IsInjective(r)
        /\ ToSet(r) = Rows \ {b}
        /\ \A j \in DOMAIN r : \E i \in DOMAIN shelf : j <= i /\ shelf[i] = r[j]
    BY <1>4, OthersIs DEF ListingTypeOK
  <1>6. events' \subseteq {"cut", "skew", "added", "removed", "late"} /\ events \subseteq events'
    BY <1>2 DEF ListingTypeOK
  <1>7. walk = "number" => "removed" \in events'
    BY <1>2 DEF Numbered
  <1>8. hidden \cap Rows = {} /\ hidden \cup touched \subseteq 1..created
    BY DEF ListingTypeOK
  <1>9. /\ hidden' \subseteq 1..created /\ hidden' \cap ToSet(r) = {}
        /\ touched \subseteq touched' /\ touched' \subseteq 1..created
    BY <1>1, <1>4, <1>5, <1>8
  <1>10. created <= created
    BY <1>2
  <1>11. QED
    BY <1>2, <1>3, <1>5, <1>6, <1>7, <1>9, <1>10 DEF RowsMove

LEMMA SeqWidens ==
  ASSUME NEW S, NEW T, S \subseteq T, NEW s \in Seq(S)
  PROVE  s \in Seq(T)
  OBVIOUS

LEMMA RowsMoveKeep ==
  ASSUME ListingInv, RowsMove, Walking, UNCHANGED <<list, client>>
  PROVE  ListingInv'
  <1>1. /\ list' = list /\ walk' = walk /\ ids' = ids /\ cursor' = cursor /\ number' = number
        /\ got' = got /\ seenAtStart' = seenAtStart /\ turned' = turned
        /\ walk \notin {"new", "done"}
    BY DEF client, Walking
  <1>2. ListingTypeOK'
    <2>1. created \in Nat /\ created' \in Nat /\ created <= created' /\ created' \in 0..Ids
      BY ShelfTyped DEF RowsMove, ListingInv
    <2>2. 1..created \subseteq 1..created' /\ 0..created \subseteq 0..created'
      BY <2>1
    <2>3. got' \in Seq(1..created') /\ cursor' \in 0..created'
      <3>1. got \in Seq(1..created) /\ cursor \in 0..created
        BY DEF ListingTypeOK, ListingInv
      <3>2. got \in Seq(1..created')
        BY <2>2, <3>1, SeqWidens
      <3>3. QED
        BY <1>1, <2>2, <3>1, <3>2
    <2>4. (ids \cup seenAtStart \cup touched \cup turned)' \subseteq 1..created'
      BY <1>1, <2>2 DEF ListingTypeOK, ListingInv, RowsMove
    <2>5. hidden' \subseteq 1..created' /\ (hidden \cap Rows)' = {}
      BY DEF RowsMove, Rows
    <2>6. shelf' \in Seq(1..created') /\ IsInjective(shelf)'
      BY DEF RowsMove
    <2>7. events' \subseteq {"cut", "skew", "added", "removed", "late"}
      BY DEF RowsMove
    <2>8. /\ list' \in Lists /\ walk' \in {"new", "ids", "page", "number", "done"}
          /\ number' \in [page : 1..Ids + 1, found : BOOLEAN, total : NotCounted..Ids]
      BY <1>1 DEF ListingTypeOK, ListingInv
    <2>9. QED
      BY <2>1, <2>3, <2>4, <2>5, <2>6, <2>7, <2>8 DEF ListingTypeOK
  <1>3. events \subseteq events'
    BY DEF RowsMove
  <1>4. NumberedOnly' /\ NewKnows' /\ DoneKnows' /\ IdsKnow'
    BY <1>1, <1>3 DEF NumberedOnly, NewKnows, DoneKnows, IdsKnow, ListingInv
  <1>5. (Rows \cap Staying)' \subseteq Rows \cap Staying
    BY <1>1 DEF RowsMove, Rows, Staying
  <1>7. PageKnows'
    BY <1>1, <1>3, <1>5 DEF PageKnows, ListingInv, Falls
  <1>8. NumberKnows'
    <2> SUFFICES ASSUME walk = "number" PROVE NumberKnows'
      BY <1>1 DEF NumberKnows
    <2>1. /\ ~number.found \/ number.total = NotCounted
          /\ "added" \notin events =>
                /\ Once(got)
                /\ \A i \in DOMAIN shelf : shelf[i] \in ToSet(got) \ turned => i <= Upto
          /\ NoneLost =>
                /\ \A i \in DOMAIN shelf :
                      shelf[i] \in Staying /\ i <= Upto => shelf[i] \in ToSet(got)
                /\ number.total # NotCounted => Len(shelf) = number.total
      BY DEF NumberKnows, ListingInv
    <2>2. Upto \in Int /\ Upto' = Upto
      <3>1. number.page \in Int /\ Take \in Int
        BY TakeTyped, ListingAssumption DEF ListingTypeOK, ListingInv
      <3>2. number.page * Take \in Int /\ (number.page - 1) * Take \in Int
        BY <3>1
      <3>3. QED
        BY <1>1, <3>2 DEF Upto
    <2>3. ~number'.found \/ number'.total = NotCounted
      BY <1>1, <2>1
    <2>4. DOMAIN shelf \subseteq Int /\ DOMAIN shelf' \subseteq Int
      BY ShelfTyped DEF RowsMove, ListingInv
    <2>5. ASSUME "added" \notin events'
          PROVE  /\ Once(got)'
                 /\ \A j \in DOMAIN shelf' : shelf'[j] \in ToSet(got)' \ turned' => j <= Upto
      <3>1. Once(got)'
        BY <1>1, <1>3, <2>1, <2>5 DEF Once
      <3>2. ASSUME NEW j \in DOMAIN shelf', shelf'[j] \in ToSet(got)' \ turned' PROVE j <= Upto
        <4>1. PICK i \in DOMAIN shelf : j <= i /\ shelf[i] = shelf'[j]
          BY <2>5 DEF RowsMove
        <4>2. i <= Upto
          BY <1>1, <1>3, <2>1, <2>5, <3>2, <4>1
        <4>3. QED
          BY <2>2, <2>4, <4>1, <4>2
      <3>3. QED
        BY <3>1, <3>2
    <2>6. ASSUME NoneLost'
          PROVE  /\ \A j \in DOMAIN shelf' :
                       shelf'[j] \in Staying' /\ j <= Upto => shelf'[j] \in ToSet(got)'
                 /\ number.total # NotCounted => Len(shelf') = number.total
      <3>1. NoneLost /\ events' \cap {"removed", "late"} = {}
        BY <1>3, <2>6 DEF NoneLost
      <3>2. ASSUME NEW j \in DOMAIN shelf', shelf'[j] \in Staying', j <= Upto
            PROVE  shelf'[j] \in ToSet(got)'
        <4>1. shelf'[j] \in seenAtStart \ touched' /\ shelf'[j] \in Staying
          BY <1>1, <3>2 DEF Staying, RowsMove
        <4>2. PICK i \in DOMAIN shelf : i <= j /\ shelf[i] = shelf'[j]
          BY <3>1, <4>1 DEF RowsMove
        <4>3. i <= Upto
          BY <2>2, <2>4, <3>2, <4>2
        <4>4. QED
          BY <1>1, <2>1, <3>1, <4>1, <4>2, <4>3
      <3>3. number.total # NotCounted => Len(shelf') = number.total
        BY <2>1, <3>1 DEF RowsMove
      <3>4. QED
        BY <3>2, <3>3
    <2>7. QED
      BY <1>1, <2>2, <2>3, <2>5, <2>6 DEF NumberKnows
  <1>9. QED
    BY <1>2, <1>4, <1>7, <1>8 DEF ListingInv

-----------------------------------------------------------------------------
(* Lists by cursor.                                                         *)

\* The ways to put a set in order.
LEMMA SeqsAre ==
  ASSUME NEW S, IsFiniteSet(S), NEW s \in SetToSeqs(S)
  PROVE  /\ s \in Seq(S) /\ IsInjective(s)
         /\ Len(s) = Cardinality(S) /\ Cardinality(S) \in Nat
         /\ DOMAIN s = 1..Cardinality(S)
         /\ ToSet(s) = S
  <1>1. PICK n : n = Cardinality(S) /\ n \in Nat
    BY FS_CardinalityType
  <1>2. s \in [1..n -> S] /\ \A i, j \in 1..n : i # j => s[i] # s[j]
    BY <1>1 DEF SetToSeqs
  <1>3. s \in Seq(S) /\ Len(s) = n /\ DOMAIN s = 1..n
    BY <1>1, <1>2
  <1>4. IsInjective(s)
    BY <1>2, <1>3 DEF IsInjective
  <1>5. Cardinality(ToSet(s)) = Cardinality(S)
    BY <1>1, <1>3, <1>4, InjectiveCounts
  <1>6. ToSet(s) \in SUBSET S
    BY <1>2, <1>3 DEF ToSet
  <1>7. ToSet(s) = S
    BY <1>5, <1>6, FS_Subset
  <1>8. QED
    BY <1>1, <1>3, <1>4, <1>7

LEMMA FirstIdsKeeps == ASSUME ListingInv, FirstIds PROVE ListingInv'
  <1>1. PICK k : k = Min({Take, Len(shelf)})
    OBVIOUS
  <1>2. PICK T : T = ids'
    OBVIOUS
  <1>3. /\ T \in SUBSET Rows /\ Cardinality(T) = k /\ seenAtStart' = Rows
        /\ walk' = (IF T = {} THEN "done" ELSE "ids") /\ walk = "new"
        /\ events' = events \cup (IF T = Newest_(Rows, Take) THEN {} ELSE {"skew"})
    BY <1>1, <1>2 DEF FirstIds, kSubset, Happens
  <1>4. /\ list' = list /\ shelf' = shelf /\ hidden' = hidden /\ created' = created
        /\ cursor' = cursor /\ number' = number /\ got' = got /\ touched' = touched
        /\ turned' = turned
    BY DEF FirstIds, rowVars
  <1>5. ListingTypeOK /\ created \in Nat /\ Rows \in SUBSET (1..created)
    BY ShelfTyped DEF ListingInv
  <1>6. Rows # {} => T # {}
    <2>1. PICK n : n = Len(shelf) /\ n \in Nat
      BY <1>5, ShelfTyped
    <2>2. Rows # {} => n # 0
      BY <1>5, <2>1, ShelfTyped DEF Rows, ToSet
    <2>3. PICK t \in Nat \ {0} : t = Take
      BY TakeTyped
    <2>4. \E x \in {t, n} : \A y \in {t, n} : x <= y
      BY <2>1
    <2>5. k \in {t, n}
      BY <1>1, <2>1, <2>3, <2>4 DEF Min
    <2>6. Rows # {} => k # 0
      BY <2>2, <2>5
    <2>7. QED
      BY <1>3, <2>6, FS_EmptySet
  <1>7. T = Newest_(Rows, Take) => \A x \in Rows : \A y \in T : x >= y => x \in T
    BY <1>5, TakeTyped, NewestIs
  <1>8. got = <<>> /\ events = {}
    BY <1>3 DEF NewKnows, ListingInv
  <1>9. ListingTypeOK'
    <2>1. events' \subseteq {"cut", "skew", "added", "removed", "late"}
      BY <1>3, <1>8
    <2>2. (ids \cup seenAtStart \cup touched \cup turned)' \subseteq 1..created
      BY <1>2, <1>3, <1>4, <1>5 DEF ListingTypeOK
    <2>3. walk' \in {"new", "ids", "page", "number", "done"}
      BY <1>3
    <2>4. QED
      BY <1>4, <1>5, <2>1, <2>2, <2>3 DEF ListingTypeOK, Rows
  <1>10. IdsKnow'
    BY <1>2, <1>3, <1>4, <1>7, <1>8 DEF IdsKnow
  <1>11. DoneKnows'
    <2> SUFFICES ASSUME walk' = "done" PROVE NoRowTwice' /\ NoRowMissed'
      BY DEF DoneKnows
    <2>1. Rows = {}
      BY <1>3, <1>6
    <2>2. QED
      BY <1>3, <1>4, <1>8, <2>1 DEF NoRowTwice, NoRowMissed
  <1>12. NumberedOnly' /\ NewKnows' /\ PageKnows' /\ NumberKnows'
    BY <1>3 DEF NumberedOnly, NewKnows, PageKnows, NumberKnows
  <1>13. QED
    BY <1>9, <1>10, <1>11, <1>12 DEF ListingInv

LEMMA FirstRowsKeeps == ASSUME ListingInv, FirstRows PROVE ListingInv'
  <1>1. PICK S : S = ids \cap (Rows \cup hidden)
    OBVIOUS
  <1>2. PICK shown : shown = got'
    OBVIOUS
  <1>3. /\ shown \in SetToSeqs(S)
        /\ cursor' = (IF S = {} THEN 0 ELSE Last(shown))
        /\ walk' = (IF S = {} THEN "done" ELSE "page")
        /\ events' = events \cup (IF S = {} THEN {"cut"}
                                  ELSE IF shown = NewestFirst(S) THEN {} ELSE {"skew"})
        /\ ids' = {} /\ walk = "ids"
    BY <1>1, <1>2 DEF FirstRows, Happens
  <1>4. /\ list' = list /\ shelf' = shelf /\ hidden' = hidden /\ created' = created
        /\ number' = number /\ seenAtStart' = seenAtStart /\ touched' = touched
        /\ turned' = turned
    BY DEF FirstRows, rowVars
  <1>5. ListingTypeOK /\ created \in Nat
    BY ShelfTyped DEF ListingInv
  <1>6. S \in SUBSET (1..created) /\ IsFiniteSet(S)
    <2>1. S \in SUBSET (1..created)
      BY <1>1, <1>5 DEF ListingTypeOK
    <2>2. IsFiniteSet(1..created)
      BY <1>5, FS_Interval
    <2>3. QED
      BY <2>1, <2>2, FS_Subset
  <1>7. /\ shown \in Seq(S) /\ ToSet(shown) = S
        /\ DOMAIN shown = 1..Len(shown) /\ Len(shown) \in Nat
    BY <1>3, <1>6, SeqsAre
  <1>8. shown \in Seq(1..created)
    BY <1>6, <1>7, SeqWidens
  <1>9. ASSUME S # {} PROVE shown # <<>> /\ Last(shown) \in S
    <2>1. PICK i \in DOMAIN shown : shown[i] \in S
      BY <1>7, <1>9 DEF ToSet
    <2>2. Len(shown) \in DOMAIN shown /\ shown # <<>>
      BY <1>7, <2>1
    <2>3. QED
      BY <1>7, <2>2 DEF Last, ToSet
  <1>10. ListingTypeOK'
    <2>1. cursor' \in 0..created
      BY <1>3, <1>5, <1>6, <1>9
    <2>2. walk' \in {"new", "ids", "page", "number", "done"}
      BY <1>3
    <2>3. events' \subseteq {"cut", "skew", "added", "removed", "late"}
      BY <1>3, <1>5 DEF ListingTypeOK
    <2>4. (ids \cup seenAtStart \cup touched \cup turned)' \subseteq 1..created
      BY <1>3, <1>4, <1>5 DEF ListingTypeOK
    <2>5. QED
      BY <1>2, <1>4, <1>5, <1>8, <2>1, <2>2, <2>3, <2>4 DEF ListingTypeOK, Rows
  <1>11. PageKnows'
    <2> SUFFICES ASSUME S # {}
                 PROVE  /\ shown # <<>> /\ Last(shown) = cursor'
                        /\ "skew" \notin events' => Falls(shown)
                        /\ events' \cap {"cut", "skew"} = {} =>
                              \A x \in Rows \cap Staying : x >= cursor' => x \in ToSet(shown)
      BY <1>2, <1>3, <1>4 DEF PageKnows, Rows, Staying
    <2>1. ASSUME events' \cap {"cut", "skew"} = {}, NEW x \in Rows \cap Staying, x >= cursor'
          PROVE  x \in ToSet(shown)
      <3>1. cursor' \in ids /\ "skew" \notin events
        BY <1>1, <1>3, <1>9, <2>1
      <3>2. x \in ids
        BY <1>3, <2>1, <3>1 DEF IdsKnow, Staying, ListingInv
      <3>3. QED
        BY <1>1, <1>7, <2>1, <3>2
    <2>2. ASSUME "skew" \notin events' PROVE Falls(shown)
      <3>1. shown = NewestFirst(S)
        BY <1>3, <2>2
      <3>2. QED
        BY <1>5, <1>6, <3>1, NewestFirstIs
    <2>3. QED
      BY <1>3, <1>9, <2>1, <2>2
  <1>12. DoneKnows'
    <2> SUFFICES ASSUME walk' = "done" PROVE NoRowTwice' /\ NoRowMissed'
      BY DEF DoneKnows
    <2>1. S = {} /\ "cut" \in events'
      BY <1>3
    <2>2. DOMAIN got' = {}
      BY <1>2, <1>7, <2>1 DEF ToSet
    <2>3. QED
      BY <2>1, <2>2 DEF NoRowTwice, NoRowMissed
  <1>13. NumberedOnly' /\ NewKnows' /\ IdsKnow' /\ NumberKnows'
    BY <1>3 DEF NumberedOnly, NewKnows, IdsKnow, NumberKnows
  <1>14. QED
    BY <1>10, <1>11, <1>12, <1>13 DEF ListingInv

LEMMA NextPageKeeps == ASSUME ListingInv, NextPage PROVE ListingInv'
  <1> DEFINE T == Fetched(cursor)
  <1>1. PICK shown : shown = NewestFirst(T)
    OBVIOUS
  <1>2. PICK page : page = IF Len(shown) > Take THEN SubSeq(shown, 1, Take) ELSE shown
    OBVIOUS
  <1>3. /\ got' = got \o page
        /\ cursor' = (IF Len(shown) > Take THEN Last(page) ELSE 0)
        /\ walk' = (IF Len(shown) > Take THEN "page" ELSE "done")
        /\ events' = events \cup (IF cursor \notin Rows THEN {"cut"} ELSE {})
        /\ walk = "page"
    BY <1>1, <1>2 DEF NextPage, Happens
  <1>4. /\ list' = list /\ shelf' = shelf /\ hidden' = hidden /\ created' = created
        /\ number' = number /\ seenAtStart' = seenAtStart /\ touched' = touched /\ ids' = ids
        /\ turned' = turned
    BY DEF NextPage, rowVars
  <1>5. /\ ListingTypeOK /\ created \in Nat /\ Rows \in SUBSET (1..created) /\ cursor \in Nat
        /\ shelf \in Seq(1..created)
    BY ShelfTyped DEF ListingInv, ListingTypeOK
  <1>6. Take \in Nat \ {0} /\ Take \in Nat
    BY TakeTyped
  <1> DEFINE A == After(cursor)
  <1>7. /\ A \in SUBSET Rows
        /\ \A x \in A : x < cursor
        /\ cursor \in Rows => \A x \in Rows : x < cursor => x \in A
    BY <1>5, AfterIs
  <1>8. A \in SUBSET (1..created) /\ Take + 1 \in Nat \ {0}
    <2> HIDE DEF A
    <2>1. A \in SUBSET (1..created)
      BY <1>5, <1>7
    <2>2. Take + 1 \in Nat \ {0}
      BY <1>6
    <2>3. QED
      BY <2>1, <2>2
  <1>9. T = Newest_(A, Take + 1)
    BY DEF Fetched
  <1> HIDE DEF A, T
  <1>10. /\ T \in SUBSET A
         /\ \A x \in A : \A y \in T : x >= y => x \in T
         /\ Cardinality(T) < Take + 1 => T = A
    BY <1>5, <1>8, <1>9, NewestIs
  <1>11. /\ shown \in Seq(T) /\ ToSet(shown) = T /\ Falls(shown) /\ Len(shown) = Cardinality(T)
    <2>1. T \in SUBSET (1..created)
      BY <1>8, <1>10
    <2>2. QED
      BY <1>1, <1>5, <2>1, NewestFirstIs
  <1>12. Len(shown) \in Nat /\ DOMAIN shown = 1..Len(shown)
    BY <1>11
  <1>13. /\ page \in Seq(T) /\ DOMAIN page = 1..Len(page) /\ Len(page) \in Nat
         /\ Len(page) = IF Len(shown) > Take THEN Take ELSE Len(shown)
         /\ \A i \in 1..Len(page) : i \in DOMAIN shown /\ page[i] = shown[i]
    <2>1. CASE Len(shown) > Take
      <3>1. page = SubSeq(shown, 1, Take)
        BY <1>2, <2>1
      <3>2. page \in Seq(T) /\ Len(page) = Take /\ \A i \in 1..Take : page[i] = shown[i]
        BY <1>6, <1>11, <1>12, <2>1, <3>1
      <3>3. QED
        BY <1>6, <1>12, <2>1, <3>2
    <2>2. CASE ~(Len(shown) > Take)
      BY <1>2, <1>11, <1>12, <2>2
    <2>3. QED
      BY <2>1, <2>2
  <1>14. /\ got \in Seq(1..created) /\ got # <<>> /\ Last(got) = cursor
         /\ "skew" \notin events => Falls(got)
    BY <1>3 DEF PageKnows, ListingInv, ListingTypeOK
  <1>15. T \subseteq 1..created /\ T \subseteq Nat /\ \A x \in T : x < cursor
    <2>1. T \subseteq 1..created
      BY <1>8, <1>10
    <2>2. QED
      BY <1>7, <1>10, <2>1
  <1>16. /\ got' \in Seq(1..created) /\ got' \in Seq(Nat)
         /\ Len(got') = Len(got) + Len(page) /\ Len(got) \in Nat \ {0}
         /\ DOMAIN got = 1..Len(got) /\ DOMAIN got' = 1..(Len(got) + Len(page))
         /\ \A i \in 1..Len(got) : got'[i] = got[i]
         /\ \A i \in 1..Len(page) : got'[Len(got) + i] = page[i]
    <2>1. \A U : T \subseteq U => page \in Seq(U)
      BY <1>13
    <2>2. page \in Seq(1..created)
      BY <1>15, <2>1
    <2>3. /\ got' \in Seq(1..created)
          /\ Len(got') = Len(got) + Len(page) /\ Len(got) \in Nat \ {0}
          /\ \A i \in 1..Len(got) : got'[i] = got[i]
          /\ \A i \in 1..Len(page) : got'[Len(got) + i] = page[i]
      BY <1>3, <1>14, <2>2
    <2>4. got' \in Seq(Nat)
      <3>1. 1..created \subseteq Nat
        OBVIOUS
      <3>2. QED
        BY <2>3, <3>1, SeqWidens
    <2>5. DOMAIN got = 1..Len(got) /\ DOMAIN got' = 1..(Len(got) + Len(page))
      BY <1>14, <2>3
    <2>6. QED
      BY <2>3, <2>4, <2>5
  <1>17. ASSUME "skew" \notin events
         PROVE  \A i \in DOMAIN got : got[i] \in Nat /\ got[i] >= cursor
    <2> SUFFICES ASSUME NEW i \in DOMAIN got PROVE got[i] \in Nat /\ got[i] >= cursor
      OBVIOUS
    <2>1. i \in 1..Len(got) /\ Len(got) \in DOMAIN got /\ got[Len(got)] = cursor /\ got[i] \in Nat
      BY <1>14, <1>16 DEF Last
    <2>2. CASE i = Len(got)
      BY <1>5, <2>1, <2>2
    <2>3. CASE i < Len(got)
      <3>1. got[i] > got[Len(got)]
        BY <1>14, <1>17, <2>1, <2>3 DEF Falls
      <3>2. QED
        BY <1>5, <2>1, <3>1
    <2>4. QED
      BY <1>16, <2>1, <2>2, <2>3
  <1>18. ASSUME "skew" \notin events'
         PROVE  Falls(got')
    <2> SUFFICES ASSUME NEW i \in DOMAIN got', NEW j \in DOMAIN got', i < j
                 PROVE  got'[i] > got'[j]
      BY DEF Falls
    <2>1. i \in 1..(Len(got) + Len(page)) /\ j \in 1..(Len(got) + Len(page))
      BY <1>16
    <2>f. Falls(got) /\ "skew" \notin events
      BY <1>3, <1>14, <1>18
    <2>2. CASE j <= Len(got)
      <3>1. i \in DOMAIN got /\ j \in DOMAIN got /\ got'[i] = got[i] /\ got'[j] = got[j]
        BY <1>14, <1>16, <2>1, <2>2
      <3>2. QED
        BY <2>f, <3>1 DEF Falls
    <2>3. CASE i <= Len(got) /\ j > Len(got)
      <3>1. i \in DOMAIN got /\ got'[i] = got[i]
        BY <1>14, <1>16, <2>1, <2>3
      <3>2. PICK m \in 1..Len(page) : j = Len(got) + m
        <4>1. j - Len(got) \in 1..Len(page) /\ j = Len(got) + (j - Len(got))
          <5>1. Len(got) \in Nat /\ Len(page) \in Nat
            BY <1>13, <1>16
          <5>2. QED
            BY <2>1, <2>3, <5>1
        <4>2. QED
          BY <4>1
      <3>3. got'[j] = page[m] /\ page[m] \in T
        BY <1>13, <1>16, <3>2
      <3>4. got[i] \in Nat /\ page[m] \in Nat /\ got[i] >= cursor /\ page[m] < cursor
        BY <1>15, <1>17, <2>f, <3>1, <3>3
      <3>5. got[i] > page[m]
        BY <1>5, <3>4
      <3>6. QED
        BY <3>1, <3>3, <3>5
    <2>4. CASE i > Len(got)
      <3>1. PICK m \in 1..Len(page) : j = Len(got) + m
        <4>1. j - Len(got) \in 1..Len(page) /\ j = Len(got) + (j - Len(got))
          <5>1. Len(got) \in Nat /\ Len(page) \in Nat
            BY <1>13, <1>16
          <5>2. j > Len(got)
            BY <2>1, <2>4, <5>1
          <5>3. QED
            BY <2>1, <5>1, <5>2
        <4>2. QED
          BY <4>1
      <3>2. PICK l \in 1..Len(page) : i = Len(got) + l
        <4>1. i - Len(got) \in 1..Len(page) /\ i = Len(got) + (i - Len(got))
          <5>1. Len(got) \in Nat /\ Len(page) \in Nat
            BY <1>13, <1>16
          <5>2. QED
            BY <2>1, <2>4, <5>1
        <4>2. QED
          BY <4>1
      <3>3. l < m
        BY <1>16, <3>1, <3>2
      <3>4. shown[l] > shown[m]
        BY <1>11, <1>13, <3>3 DEF Falls
      <3>5. QED
        BY <1>13, <1>16, <3>1, <3>2, <3>4
    <2>5. QED
      BY <1>16, <2>1, <2>2, <2>3, <2>4
  <1>19. ToSet(got) \subseteq ToSet(got') /\ ToSet(page) \subseteq ToSet(got')
    <2>1. \A i \in DOMAIN got : i \in DOMAIN got' /\ got'[i] = got[i]
      BY <1>13, <1>14, <1>16
    <2>2. \A i \in DOMAIN page : Len(got) + i \in DOMAIN got' /\ got'[Len(got) + i] = page[i]
      <3>1. \A i \in 1..Len(page) : Len(got) + i \in 1..(Len(got) + Len(page))
        BY <1>13, <1>16
      <3>2. QED
        BY <1>13, <1>16, <3>1
    <2>3. QED
      BY <2>1, <2>2 DEF ToSet
  \* Without a cut or a skew, what is there from the cursor's row on is after it.
  <1>20. ASSUME events' \cap {"cut", "skew"} = {}, NEW x \in Rows \cap Staying, x \notin ToSet(got)
         PROVE  x \in A
    <2>1. events \cap {"cut", "skew"} = {} /\ cursor \in Rows
      BY <1>3, <1>20
    <2>2. ~(x >= cursor)
      BY <1>3, <1>20, <2>1 DEF PageKnows, ListingInv
    <2>3. x \in Nat
      BY <1>5, <1>20
    <2>4. QED
      BY <1>5, <1>7, <1>20, <2>1, <2>2, <2>3
  <1>21. Len(page) > 0 => Last(page) \in T
    BY <1>13 DEF Last
  <1>22. ASSUME Len(shown) > Take
         PROVE  /\ NewKnows' /\ IdsKnow' /\ PageKnows' /\ NumberKnows' /\ DoneKnows'
                /\ cursor' \in 0..created /\ walk' \in {"page", "done"}
    <2>1. /\ Len(page) = Take /\ Len(page) \in Nat \ {0} /\ cursor' = Last(page)
          /\ walk' = "page" /\ Last(page) \in T
      BY <1>3, <1>6, <1>13, <1>21, <1>22
    <2>2. Last(got') = cursor' /\ got' # <<>>
      <3>1. Len(got') = Len(got) + Len(page) /\ Len(page) \in 1..Len(page) /\ Len(got') # 0
        BY <1>16, <2>1
      <3>2. got'[Len(got')] = page[Len(page)]
        BY <1>16, <3>1
      <3>3. QED
        BY <2>1, <3>1, <3>2 DEF Last
    <2>3. ASSUME events' \cap {"cut", "skew"} = {}, NEW x \in Rows \cap Staying, x >= cursor'
          PROVE  x \in ToSet(got')
      <3>1. CASE x \in ToSet(got)
        BY <1>19, <3>1
      <3>2. CASE x \notin ToSet(got)
        <4>1. x \in T
          BY <1>10, <1>20, <2>1, <2>3, <3>2
        <4>2. PICK i \in DOMAIN shown : x = shown[i]
          BY <1>11, <4>1 DEF ToSet
        <4>3. Take \in DOMAIN shown /\ cursor' = shown[Take] /\ i \in Nat
          BY <1>6, <1>12, <1>13, <1>22, <2>1 DEF Last
        <4>4. ~(i > Take)
          <5>1. SUFFICES ASSUME i > Take PROVE FALSE
            OBVIOUS
          <5>2. Take < i
            BY <1>6, <4>3, <5>1
          <5>3. cursor' > x
            BY <1>11, <4>2, <4>3, <5>2 DEF Falls
          <5>4. cursor' \in Nat /\ x \in Nat
            BY <1>15, <2>1, <4>1
          <5>5. QED
            BY <2>3, <5>3, <5>4
        <4>5. i \in 1..Len(page)
          BY <1>6, <1>12, <2>1, <4>3, <4>4
        <4>6. x \in ToSet(page)
          BY <1>13, <4>2, <4>5 DEF ToSet
        <4>7. QED
          BY <1>19, <4>6
      <3>3. QED
        BY <3>1, <3>2
    <2>4. PageKnows'
      BY <1>4, <1>18, <2>2, <2>3 DEF PageKnows, Rows, Staying
    <2>5. NewKnows' /\ IdsKnow' /\ NumberKnows' /\ DoneKnows'
      BY <2>1 DEF NewKnows, IdsKnow, NumberKnows, DoneKnows
    <2>6. cursor' \in 0..created
      <3>1. cursor' \in 1..created
        BY <1>15, <2>1
      <3>2. QED
        BY <1>5, <3>1
    <2>7. QED
      BY <2>1, <2>4, <2>5, <2>6
  <1>23. ASSUME ~(Len(shown) > Take)
         PROVE  /\ NewKnows' /\ IdsKnow' /\ PageKnows' /\ NumberKnows' /\ DoneKnows'
                /\ cursor' \in 0..created /\ walk' \in {"page", "done"}
    <2>1. page = shown /\ cursor' = 0 /\ walk' = "done"
      BY <1>2, <1>3, <1>23
    <2>2. T = A
      BY <1>6, <1>10, <1>11, <1>12, <1>23
    <2>3. NoRowTwice'
      BY <1>16, <1>18, FallsInjective DEF NoRowTwice, IsInjective
    <2>4. ASSUME events' \cap {"cut", "skew"} = {} PROVE Rows \cap Staying \subseteq ToSet(got')
      BY <1>11, <1>19, <1>20, <2>1, <2>2, <2>4
    <2>5. NoRowMissed'
      BY <1>4, <2>4 DEF NoRowMissed, Rows, Staying
    <2>6. NewKnows' /\ IdsKnow' /\ NumberKnows' /\ PageKnows' /\ DoneKnows'
      BY <2>1, <2>3, <2>5 DEF NewKnows, IdsKnow, NumberKnows, PageKnows, DoneKnows
    <2>7. cursor' \in 0..created
      BY <1>5, <2>1
    <2>8. QED
      BY <2>1, <2>6, <2>7
  <1>24. NumberedOnly'
    BY <1>3 DEF NumberedOnly
  <1>25. ListingTypeOK'
    <2>1. cursor' \in 0..created /\ walk' \in {"new", "ids", "page", "number", "done"}
      BY <1>22, <1>23
    <2>2. events' \subseteq {"cut", "skew", "added", "removed", "late"}
      BY <1>3, <1>5 DEF ListingTypeOK
    <2>3. QED
      BY <1>4, <1>5, <1>16, <2>1, <2>2 DEF ListingTypeOK, Rows
  <1>26. QED
    BY <1>22, <1>23, <1>24, <1>25 DEF ListingInv

-----------------------------------------------------------------------------
(* Lists by number.                                                         *)

LEMMA DivIs ==
  ASSUME NEW a \in Nat, NEW t \in Nat \ {0}
  PROVE  /\ a \div t \in Int
         /\ (a \div t) * t <= a
         /\ a < (a \div t) * t + t
  <1>1. a \div t \in Int
    OBVIOUS
  <1>2. a = t * (a \div t) + (a % t) /\ a % t \in 0..(t - 1)
    OBVIOUS
  <1>3. t * (a \div t) = (a \div t) * t
    BY <1>1
  <1>4. QED
    BY <1>1, <1>2, <1>3

LEMMA TimesGrows ==
  ASSUME NEW p \in Int, NEW q \in Int, NEW t \in Nat, p >= q
  PROVE  p * t >= q * t
  <1>1. p - q \in Nat /\ p = q + (p - q)
    OBVIOUS
  <1>2. PICK d \in Nat : p = q + d
    BY <1>1
  <1>3. d * t \in Nat
    OBVIOUS
  <1>4. p * t = q * t + d * t
    BY <1>2
  <1>5. q * t \in Int
    OBVIOUS
  <1>6. QED
    BY <1>3, <1>4, <1>5

\* A page that is not the last is before the last row; the last has come past it.
LEMMA HasNextIs ==
  ASSUME NEW p \in Nat, NEW total \in Nat
  PROVE  /\ HasNext(p, total) => p + 1 <= total
         /\ ~HasNext(p, total) => p * Take >= total
  <1>1. PICK t \in Nat \ {0} : t = Take
    BY TakeTyped
  <1>2. total + t - 1 \in Nat
    OBVIOUS
  <1>3. PICK q \in Int : /\ q = (total + t - 1) \div t
                         /\ q * t <= total + t - 1
                         /\ total + t - 1 < q * t + t
    BY <1>2, DivIs
  <1>4. HasNext(p, total) <=> p < q
    BY <1>1, <1>3 DEF HasNext
  <1>5. q * t \in Int /\ p * t \in Int /\ total * t \in Int
    OBVIOUS
  <1>6. q * t >= total
    BY <1>3, <1>5
  <1>7. q <= total
    <2> SUFFICES ASSUME q >= total + 1 PROVE FALSE
      OBVIOUS
    <2>1. q * t >= (total + 1) * t
      BY TimesGrows
    <2>2. (total + 1) * t = total * t + t
      OBVIOUS
    <2>3. total * t >= total
      <3>1. t >= 1 /\ total * 1 = total /\ t * total = total * t /\ 1 * total = total
        OBVIOUS
      <3>2. t * total >= 1 * total
        BY <3>1, TimesGrows
      <3>3. QED
        BY <3>1, <3>2
    <2>4. QED
      BY <1>3, <1>5, <2>1, <2>2, <2>3
  <1>8. ASSUME ~(p < q) PROVE p * t >= total
    <2>1. p >= q
      BY <1>8
    <2>2. p * t >= q * t
      BY <2>1, TimesGrows
    <2>3. QED
      BY <1>5, <1>6, <2>2
  <1>9. ASSUME p < q PROVE p + 1 <= total
    BY <1>7, <1>9
  <1>10. QED
    BY <1>1, <1>4, <1>8, <1>9

\* The rows of a page.
LEMMA PageRowsAre ==
  ASSUME NEW S, shelf \in Seq(S), NEW p \in Nat \ {0}
  PROVE  LET q == PageRows(p)
         IN  /\ q \in Seq(S)
             /\ \A m \in DOMAIN q : \E i \in DOMAIN shelf :
                   /\ q[m] = shelf[i] /\ i = (p - 1) * Take + m
                   /\ (p - 1) * Take < i /\ i <= p * Take
             /\ \A i \in DOMAIN shelf :
                   (p - 1) * Take < i /\ i <= p * Take => shelf[i] \in ToSet(q)
  <1>1. PICK t \in Nat \ {0} : t = Take
    BY TakeTyped
  <1>2. PICK lo \in Nat : lo = (p - 1) * t
    <2>1. p - 1 \in Nat
      OBVIOUS
    <2>2. (p - 1) * t \in Nat
      BY <2>1
    <2>3. QED
      BY <2>2
  <1>3. p * t \in Nat
    OBVIOUS
  <1>4. PICK hi \in Nat : hi = Min({p * t, Len(shelf)}) /\ hi <= Len(shelf) /\ hi <= p * t
                          /\ (hi = Len(shelf) \/ hi = p * t)
    <2>1. \E x \in {p * t, Len(shelf)} : \A y \in {p * t, Len(shelf)} : x <= y
      BY <1>3
    <2>2. Min({p * t, Len(shelf)}) \in {p * t, Len(shelf)}
          /\ \A y \in {p * t, Len(shelf)} : Min({p * t, Len(shelf)}) <= y
      BY <2>1 DEF Min
    <2>3. Len(shelf) \in Nat
      OBVIOUS
    <2>4. PICK x : x = Min({p * t, Len(shelf)})
      OBVIOUS
    <2>5. x \in Nat /\ x <= Len(shelf) /\ x <= p * t /\ (x = Len(shelf) \/ x = p * t)
      BY <1>3, <2>2, <2>3, <2>4
    <2>6. QED
      BY <2>4, <2>5
  <1>5. PICK q : q = PageRows(p)
    OBVIOUS
  <1>6. q = SubSeq(shelf, lo + 1, hi)
    BY <1>1, <1>2, <1>4, <1>5 DEF PageRows, Skip
  <1>7. DOMAIN shelf = 1..Len(shelf) /\ Len(shelf) \in Nat
    OBVIOUS
  <1>8. /\ q \in Seq(S)
        /\ DOMAIN q = 1..(hi - lo)
        /\ \A m \in 1..(hi - lo) : q[m] = shelf[lo + m]
    <2>1. CASE lo < hi
      <3>1. lo + 1 \in 1..Len(shelf) /\ hi \in (lo + 1)..Len(shelf)
        BY <1>4, <1>7, <2>1
      <3>2. q \in Seq(S) /\ Len(q) = hi - lo
        BY <1>6, <3>1
      <3>3. \A m \in 1..(hi - lo) : q[m] = shelf[lo + m]
        BY <1>6, <3>1
      <3>4. QED
        BY <3>2, <3>3
    <2>2. CASE ~(lo < hi)
      <3>1. q = <<>> /\ 1..(hi - lo) = {}
        BY <1>6, <2>2
      <3>2. QED
        BY <3>1
    <2>3. QED
      BY <2>1, <2>2
  <1>9. ASSUME NEW m \in DOMAIN q
        PROVE  \E i \in DOMAIN shelf : q[m] = shelf[i] /\ i = lo + m /\ lo < i /\ i <= p * t
    <2>1. lo + m \in DOMAIN shelf /\ lo < lo + m /\ lo + m <= p * t
      BY <1>3, <1>4, <1>7, <1>8
    <2>2. QED
      BY <1>8, <2>1
  <1>10. ASSUME NEW i \in DOMAIN shelf, lo < i, i <= p * t PROVE shelf[i] \in ToSet(q)
    <2>1. i - lo \in DOMAIN q /\ lo + (i - lo) = i
      BY <1>3, <1>4, <1>7, <1>8, <1>10
    <2>2. q[i - lo] = shelf[i]
      BY <1>8, <2>1
    <2>3. QED
      BY <2>1, <2>2 DEF ToSet
  <1>11. QED
    BY <1>1, <1>2, <1>5, <1>8, <1>9, <1>10

\* The answers of a page, and where the walk goes from there.
LEMMA AskedIs ==
  ASSUME NEW n \in [page : 1..Ids + 1, found : BOOLEAN, total : NotCounted..Ids],
         Asked(n), Numbered
  PROVE  \/ /\ ~n.found \/ n.total = NotCounted
            /\ number' = n /\ walk' = "number"
         \/ /\ n.found /\ n.total \in Nat
            /\ number' = [page |-> n.page + 1, found |-> FALSE, total |-> NotCounted]
            /\ n.page + 1 \in 1..Ids + 1
            /\ walk' = "number"
         \/ /\ n.found /\ n.total \in Nat
            /\ number' = FirstNumber
            /\ n.page * Take >= n.total
            /\ walk' = "done"
  <1>1. n.page \in 1..Ids + 1 /\ n.found \in BOOLEAN /\ n.total \in NotCounted..Ids
    OBVIOUS
  <1>2. CASE ~n.found \/ n.total = NotCounted
    BY <1>2 DEF Asked, Numbered
  <1>3. CASE n.found /\ n.total # NotCounted
    <2>1. n.total \in Nat /\ n.total <= Ids /\ n.page \in Nat /\ n.page >= 1 /\ Ids \in Nat
      BY <1>1, <1>3, ListingAssumption DEF NotCounted
    <2>2. CASE HasNext(n.page, n.total)
      <3>1. n.page + 1 <= n.total
        BY <2>1, <2>2, HasNextIs
      <3>2. n.page + 1 \in 1..Ids + 1
        BY <2>1, <3>1
      <3>3. number' = [FirstNumber EXCEPT !.page = n.page + 1] /\ walk' = walk
        BY <1>3, <2>2 DEF Asked
      <3>4. number' = [page |-> n.page + 1, found |-> FALSE, total |-> NotCounted]
        BY <3>3 DEF FirstNumber
      <3>5. QED
        BY <1>3, <2>1, <3>2, <3>3, <3>4 DEF Numbered
    <2>3. CASE ~HasNext(n.page, n.total)
      <3>1. n.page * Take >= n.total
        BY <2>1, <2>3, HasNextIs
      <3>2. number' = FirstNumber /\ walk' = "done"
        BY <1>3, <2>3 DEF Asked
      <3>3. QED
        BY <1>3, <2>1, <3>1, <3>2
    <2>4. QED
      BY <2>2, <2>3
  <1>4. QED
    BY <1>1, <1>2, <1>3

\* What a walk by number knows before an answer ends its page, or the walk.
Seen(n, upto) ==
    /\ "added" \notin events =>
          /\ Once(got')
          /\ \A i \in DOMAIN shelf : shelf[i] \in ToSet(got') \ turned => i <= upto
    /\ NoneLost =>
          /\ \A i \in DOMAIN shelf : shelf[i] \in Staying /\ i <= upto => shelf[i] \in ToSet(got')
          /\ n.total # NotCounted => Len(shelf) = n.total

LEMMA AskedKeeps ==
  ASSUME ListingInv, Numbered,
         NEW n \in [page : 1..Ids + 1, found : BOOLEAN, total : NotCounted..Ids],
         Asked(n), got' \in Seq(1..created),
         Seen(n, IF n.found THEN n.page * Take ELSE (n.page - 1) * Take),
         UNCHANGED <<list, rowVars, ids, cursor, history>>
  PROVE  ListingInv'
  <1>1. /\ list' = list /\ shelf' = shelf /\ hidden' = hidden /\ created' = created
        /\ ids' = ids /\ cursor' = cursor /\ seenAtStart' = seenAtStart /\ touched' = touched
        /\ turned' = turned /\ events' = events
    BY DEF rowVars, history
  <1> DEFINE upto == IF n.found THEN n.page * Take ELSE (n.page - 1) * Take
  <1>2. Seen(n, upto)
    OBVIOUS
  <1>3. \/ /\ ~n.found \/ n.total = NotCounted
           /\ number' = n /\ walk' = "number"
        \/ /\ n.found /\ n.total \in Nat
           /\ number' = [page |-> n.page + 1, found |-> FALSE, total |-> NotCounted]
           /\ n.page + 1 \in 1..Ids + 1
           /\ walk' = "number"
        \/ /\ n.found /\ n.total \in Nat
           /\ number' = FirstNumber
           /\ n.page * Take >= n.total
           /\ walk' = "done"
    BY AskedIs
  <1>4. ListingTypeOK'
    <2>1. number' \in [page : 1..Ids + 1, found : BOOLEAN, total : NotCounted..Ids]
      <3>1. 1 \in 1..Ids + 1 /\ NotCounted \in NotCounted..Ids
        BY ListingAssumption DEF NotCounted
      <3>2. [page |-> 1, found |-> FALSE, total |-> NotCounted]
               \in [page : 1..Ids + 1, found : BOOLEAN, total : NotCounted..Ids]
        BY <3>1
      <3>3. n.page + 1 \in 1..Ids + 1 =>
               [page |-> n.page + 1, found |-> FALSE, total |-> NotCounted]
                  \in [page : 1..Ids + 1, found : BOOLEAN, total : NotCounted..Ids]
        BY <3>1
      <3>4. FirstNumber = [page |-> 1, found |-> FALSE, total |-> NotCounted]
        BY DEF FirstNumber
      <3>5. QED
        BY <1>3, <3>2, <3>3, <3>4
    <2>2. walk' \in {"new", "ids", "page", "number", "done"}
      BY <1>3
    <2>3. QED
      BY <1>1, <2>1, <2>2 DEF ListingTypeOK, ListingInv, Rows
  <1>5. NumberedOnly'
    BY <1>1 DEF NumberedOnly, Numbered, ListingInv
  <1>6. NewKnows' /\ IdsKnow' /\ PageKnows'
    BY <1>3 DEF NewKnows, IdsKnow, PageKnows
  <1>7. n.page \in Nat /\ Take \in Nat
    BY TakeTyped
  <1>8. NumberKnows'
    <2> SUFFICES ASSUME walk' = "number" PROVE NumberKnows'
      BY DEF NumberKnows
    <2>1. ~number'.found \/ number'.total = NotCounted
      <3>1. \/ number' = n /\ (~n.found \/ n.total = NotCounted)
            \/ number' = [page |-> n.page + 1, found |-> FALSE, total |-> NotCounted]
        BY <1>3
      <3>2. QED
        BY <3>1
    <2>2. Upto' = upto
      <3>1. CASE number' = n
        BY <3>1 DEF Upto
      <3>2. CASE n.found /\ number' = [page |-> n.page + 1, found |-> FALSE, total |-> NotCounted]
        <4>1. Upto' = ((n.page + 1) - 1) * Take /\ upto = n.page * Take
          BY <3>2 DEF Upto
        <4>2. (n.page + 1) - 1 = n.page
          BY <1>7
        <4>3. QED
          BY <4>1, <4>2
      <3>3. QED
        BY <1>3, <3>1, <3>2
    <2>3. number'.total = n.total \/ number'.total = NotCounted
      BY <1>3
    <2> HIDE DEF upto
    <2>4. QED
      BY <1>1, <1>2, <2>1, <2>2, <2>3 DEF NumberKnows, Seen, NoneLost, Staying, Once
  <1>9. DoneKnows'
    <2> SUFFICES ASSUME walk' = "done" PROVE NoRowTwice' /\ NoRowMissed'
      BY DEF DoneKnows
    <2>1. n.found /\ n.total \in Nat /\ n.page * Take >= n.total
      BY <1>3
    <2>2. upto = n.page * Take
      BY <2>1
    <2>3. upto \in Nat /\ upto >= n.total
      BY <1>7, <2>1, <2>2
    <2>4. NoRowTwice'
      BY <1>1, <1>2 DEF Seen, NoRowTwice, Once
    <2> HIDE DEF upto
    <2>5. ASSUME NoneLost, NEW x \in Rows \cap Staying PROVE x \in ToSet(got')
      <3>1. PICK i \in DOMAIN shelf : shelf[i] = x
        BY DEF Rows, ToSet
      <3>2. Len(shelf) = n.total
        BY <1>2, <2>1, <2>5 DEF Seen, NotCounted
      <3>3. i \in 1..Len(shelf) /\ Len(shelf) \in Nat
        BY ShelfTyped DEF ListingInv
      <3>4. i <= upto
        BY <2>3, <3>2, <3>3
      <3>5. QED
        BY <1>2, <2>5, <3>1, <3>4 DEF Seen
    <2>6. NoRowMissed'
      BY <1>1, <2>5 DEF NoRowMissed, Rows, Staying, NoneLost
    <2>7. QED
      BY <2>4, <2>6
  <1>10. QED
    BY <1>4, <1>5, <1>6, <1>8, <1>9 DEF ListingInv

LEMMA StartKeeps == ASSUME ListingInv, StartNumbered PROVE ListingInv'
  <1>1. /\ walk' = "number" /\ seenAtStart' = Rows /\ walk = "new"
        /\ list' = list /\ shelf' = shelf /\ hidden' = hidden /\ created' = created
        /\ ids' = ids /\ cursor' = cursor /\ number' = number /\ got' = got
        /\ touched' = touched /\ turned' = turned /\ events' = events /\ ~list.byCursor
    BY DEF StartNumbered, rowVars
  <1>2. ListingTypeOK /\ Rows \in SUBSET (1..created)
    BY ShelfTyped DEF ListingInv
  <1>3. ListingTypeOK'
    BY <1>1, <1>2 DEF ListingTypeOK, Rows
  <1>4. got = <<>> /\ number = FirstNumber
    BY <1>1 DEF NewKnows, ListingInv
  <1>5. NumberKnows'
    <2>1. ~number'.found /\ number'.total = NotCounted
      BY <1>1, <1>4 DEF FirstNumber
    <2>2. Once(<<>>)' /\ ToSet(<<>>) = {}
      BY DEF Once, ToSet
    <2>3. Upto' = 0
      <3>1. Upto' = (1 - 1) * Take
        BY <1>1, <1>4 DEF Upto, FirstNumber
      <3>2. QED
        BY <3>1, TakeTyped
    <2>4. \A i \in DOMAIN shelf : ~(i <= 0)
      BY <1>2, ShelfTyped
    <2>5. QED
      BY <1>1, <1>4, <2>1, <2>2, <2>3, <2>4 DEF NumberKnows, Once
  <1>6. NumberedOnly' /\ NewKnows' /\ IdsKnow' /\ PageKnows' /\ DoneKnows'
    BY <1>1 DEF NumberedOnly, NewKnows, IdsKnow, PageKnows, DoneKnows, ListingInv
  <1>7. QED
    BY <1>3, <1>5, <1>6 DEF ListingInv

LEMMA FindManyKeeps == ASSUME ListingInv, FindMany PROVE ListingInv'
  <1>1. PICK q : q = PageRows(number.page)
    OBVIOUS
  <1>2. PICK n : n = [number EXCEPT !.found = TRUE]
    OBVIOUS
  <1>3. /\ Numbered /\ ~number.found /\ got' = got \o q /\ Asked(n)
        /\ UNCHANGED <<list, rowVars, ids, cursor, history>>
    BY <1>1, <1>2 DEF FindMany
  <1>4. /\ number \in [page : 1..Ids + 1, found : BOOLEAN, total : NotCounted..Ids]
        /\ shelf \in Seq(1..created) /\ IsInjective(shelf) /\ got \in Seq(1..created)
    BY DEF ListingInv, ListingTypeOK
  <1>5. /\ n \in [page : 1..Ids + 1, found : BOOLEAN, total : NotCounted..Ids]
        /\ n.found = TRUE /\ n.page = number.page /\ n.total = number.total
    BY <1>2, <1>4
  <1>6. number.page \in Nat \ {0} /\ number.page \in Nat
    BY <1>4, ListingAssumption
  <1>7. PICK lo \in Int : lo = (number.page - 1) * Take
    BY <1>6, TakeTyped
  <1>8. PICK hi \in Int : hi = number.page * Take /\ lo <= hi
    <2>1. number.page * Take \in Int
      BY <1>6, TakeTyped
    <2>2. number.page >= number.page - 1 /\ number.page - 1 \in Int
      BY <1>6
    <2>3. number.page * Take >= (number.page - 1) * Take
      BY <1>6, <2>2, TakeTyped, TimesGrows
    <2>4. QED
      BY <1>7, <2>1, <2>3
  <1>9. /\ q \in Seq(1..created)
        /\ \A m \in DOMAIN q : \E i \in DOMAIN shelf :
              q[m] = shelf[i] /\ i = lo + m /\ lo < i /\ i <= hi
        /\ \A i \in DOMAIN shelf : lo < i /\ i <= hi => shelf[i] \in ToSet(q)
    BY <1>1, <1>4, <1>6, <1>7, <1>8, PageRowsAre
  <1>10. Upto = lo
    BY <1>3, <1>7 DEF Upto
  <1>11. /\ "added" \notin events =>
               Once(got) /\ \A i \in DOMAIN shelf : shelf[i] \in ToSet(got) \ turned => i <= lo
         /\ NoneLost =>
               /\ \A i \in DOMAIN shelf : shelf[i] \in Staying /\ i <= lo => shelf[i] \in ToSet(got)
               /\ number.total # NotCounted => Len(shelf) = number.total
    BY <1>3, <1>10 DEF NumberKnows, Numbered, ListingInv
  <1>12. DOMAIN shelf \subseteq Int
    BY <1>4
  <1>13. /\ got' \in Seq(1..created)
         /\ Len(got) \in Nat /\ Len(q) \in Nat
         /\ DOMAIN got = 1..Len(got) /\ DOMAIN q = 1..Len(q)
         /\ DOMAIN got' = 1..(Len(got) + Len(q))
         /\ \A i \in 1..Len(got) : got'[i] = got[i]
         /\ \A i \in 1..Len(q) : got'[Len(got) + i] = q[i]
    BY <1>3, <1>4, <1>9
  <1>14. \A j \in DOMAIN got' : \/ j \in DOMAIN got /\ got'[j] = got[j]
                                \/ \E m \in DOMAIN q : j = Len(got) + m /\ got'[j] = q[m]
    <2> SUFFICES ASSUME NEW j \in DOMAIN got', j \notin DOMAIN got
                 PROVE  \E m \in DOMAIN q : j = Len(got) + m /\ got'[j] = q[m]
      BY <1>13
    <2>1. j - Len(got) \in 1..Len(q) /\ j = Len(got) + (j - Len(got))
      BY <1>13
    <2>2. QED
      BY <1>13, <2>1
  <1>15. ToSet(got') = ToSet(got) \cup ToSet(q)
    <2>1. ToSet(got') \subseteq ToSet(got) \cup ToSet(q)
      BY <1>14 DEF ToSet
    <2>2. \A j \in DOMAIN got : j \in DOMAIN got' /\ got'[j] = got[j]
      BY <1>13
    <2>3. \A m \in DOMAIN q : Len(got) + m \in DOMAIN got' /\ got'[Len(got) + m] = q[m]
      <3>1. \A m \in 1..Len(q) : Len(got) + m \in 1..(Len(got) + Len(q))
        BY <1>13
      <3>2. QED
        BY <1>13, <3>1
    <2>4. ToSet(got) \subseteq ToSet(got')
      BY <2>2 DEF ToSet
    <2>5. ToSet(q) \subseteq ToSet(got')
      BY <2>3 DEF ToSet
    <2>6. QED
      BY <2>1, <2>4, <2>5
  <1>16. ASSUME "added" \notin events PROVE Once(got')
    <2>1. \A m \in DOMAIN q : q[m] \notin turned => q[m] \notin ToSet(got)
      <3> SUFFICES ASSUME NEW m \in DOMAIN q, q[m] \in ToSet(got) \ turned PROVE FALSE
        OBVIOUS
      <3>1. PICK i \in DOMAIN shelf : q[m] = shelf[i] /\ lo < i
        BY <1>9
      <3>2. i <= lo
        BY <1>11, <1>16, <3>1
      <3>3. QED
        BY <1>12, <3>1, <3>2
    <2>2. ASSUME NEW m \in DOMAIN q, NEW l \in DOMAIN q, q[m] = q[l] PROVE m = l
      <3>1. PICK i \in DOMAIN shelf : q[m] = shelf[i] /\ i = lo + m
        BY <1>9
      <3>2. PICK k \in DOMAIN shelf : q[l] = shelf[k] /\ k = lo + l
        BY <1>9
      <3>3. i = k
        BY <1>4, <2>2, <3>1, <3>2 DEF IsInjective
      <3>4. m \in Int /\ l \in Int /\ lo \in Int
        BY <1>13, <2>2
      <3>5. lo + m = lo + l
        BY <3>1, <3>2, <3>3
      <3>6. m = (lo + m) - lo /\ l = (lo + l) - lo
        BY <3>4
      <3>7. QED
        BY <3>5, <3>6
    <2> SUFFICES ASSUME NEW i \in DOMAIN got', NEW j \in DOMAIN got', got'[i] = got'[j],
                        got'[i] \notin turned
                 PROVE  i = j
      BY DEF Once
    <2>3. CASE i \in DOMAIN got /\ got'[i] = got[i]
      <3>1. got[i] \in ToSet(got)
        BY <2>3 DEF ToSet
      <3>2. j \in DOMAIN got /\ got'[j] = got[j]
        BY <1>14, <2>1, <2>3, <3>1
      <3>3. QED
        BY <1>11, <1>16, <2>3, <3>2 DEF Once
    <2>4. CASE \E m \in DOMAIN q : i = Len(got) + m /\ got'[i] = q[m]
      <3>1. PICK m \in DOMAIN q : i = Len(got) + m /\ got'[i] = q[m]
        BY <2>4
      <3>2. ~(j \in DOMAIN got /\ got'[j] = got[j])
        BY <2>1, <3>1 DEF ToSet
      <3>3. PICK l \in DOMAIN q : j = Len(got) + l /\ got'[j] = q[l]
        BY <1>14, <3>2
      <3>4. m = l
        BY <2>2, <3>1, <3>3
      <3>5. QED
        BY <3>1, <3>3, <3>4
    <2>5. QED
      BY <1>14, <2>3, <2>4
  <1>17. ASSUME "added" \notin events, NEW i \in DOMAIN shelf, shelf[i] \in ToSet(got') \ turned
         PROVE  i <= hi
    <2>1. CASE shelf[i] \in ToSet(got)
      BY <1>8, <1>11, <1>12, <1>17, <2>1
    <2>2. CASE shelf[i] \in ToSet(q)
      <3>1. PICK m \in DOMAIN q : shelf[i] = q[m]
        BY <2>2 DEF ToSet
      <3>2. PICK k \in DOMAIN shelf : q[m] = shelf[k] /\ k <= hi
        BY <1>9
      <3>3. i = k
        BY <1>4, <3>1, <3>2 DEF IsInjective
      <3>4. QED
        BY <3>2, <3>3
    <2>3. QED
      BY <1>15, <1>17, <2>1, <2>2
  <1>18. ASSUME NoneLost, NEW i \in DOMAIN shelf, shelf[i] \in Staying, i <= hi
         PROVE  shelf[i] \in ToSet(got')
    <2>1. CASE i <= lo
      BY <1>11, <1>15, <1>18, <2>1
    <2>2. CASE lo < i
      BY <1>9, <1>15, <1>18, <2>2
    <2>3. QED
      BY <1>12, <2>1, <2>2
  <1>19. Seen(n, hi)
    BY <1>5, <1>11, <1>16, <1>17, <1>18 DEF Seen
  <1>20. hi = IF n.found THEN n.page * Take ELSE (n.page - 1) * Take
    BY <1>5, <1>8
  <1>21. QED
    BY <1>3, <1>5, <1>13, <1>19, <1>20, AskedKeeps

LEMMA CountKeeps == ASSUME ListingInv, Count PROVE ListingInv'
  <1>1. PICK n : n = [number EXCEPT !.total = Len(shelf)]
    OBVIOUS
  <1>2. /\ Numbered /\ number.total = NotCounted /\ Asked(n) /\ got' = got
        /\ UNCHANGED <<list, rowVars, ids, cursor, history>>
    BY <1>1 DEF Count
  <1>3. number \in [page : 1..Ids + 1, found : BOOLEAN, total : NotCounted..Ids]
    BY DEF ListingInv, ListingTypeOK
  <1>4. Len(shelf) \in NotCounted..Ids
    BY ShelfTyped DEF ListingInv, NotCounted
  <1>5. /\ n \in [page : 1..Ids + 1, found : BOOLEAN, total : NotCounted..Ids]
        /\ n.found = number.found /\ n.page = number.page /\ n.total = Len(shelf)
    BY <1>1, <1>3, <1>4
  <1>6. Upto = IF n.found THEN n.page * Take ELSE (n.page - 1) * Take
    BY <1>5 DEF Upto
  <1>7. Seen(n, Upto)
    BY <1>2, <1>5 DEF Seen, NumberKnows, Numbered, ListingInv
  <1>8. got' \in Seq(1..created)
    BY <1>2 DEF ListingInv, ListingTypeOK
  <1>9. QED
    BY <1>2, <1>5, <1>6, <1>7, <1>8, AskedKeeps

\* A row that stays on its side of the border is shown as it would have been.
LEMMA TiesTurnKeeps == ASSUME ListingInv, TiesTurn PROVE ListingInv'
  <1>1. PICK r : r = shelf'
    OBVIOUS
  <1>2. PICK lo : lo = Skip(number.page)
    OBVIOUS
  <1>3. /\ walk = "number" /\ ~number.found /\ r \in SetToSeqs(Rows)
        /\ turned' = turned \cup {b \in Rows : (PlaceOf(shelf, b) <= lo) # (PlaceOf(r, b) <= lo)}
    BY <1>1, <1>2 DEF TiesTurn, Numbered
  <1>4. /\ list' = list /\ hidden' = hidden /\ created' = created /\ walk' = walk /\ ids' = ids
        /\ cursor' = cursor /\ number' = number /\ got' = got /\ seenAtStart' = seenAtStart
        /\ touched' = touched /\ events' = events
    BY DEF TiesTurn
  <1>5. ListingTypeOK /\ Rows \in SUBSET (1..created) /\ DOMAIN shelf = 1..Len(shelf)
    BY ShelfTyped DEF ListingInv
  <1>6. IsFiniteSet(Rows) /\ Cardinality(Rows) = Len(shelf)
    BY <1>5, InjectiveCounts DEF ListingTypeOK, Rows
  <1>7. /\ r \in Seq(Rows) /\ IsInjective(r) /\ Len(r) = Len(shelf) /\ ToSet(r) = Rows
        /\ DOMAIN r = DOMAIN shelf
    BY <1>3, <1>5, <1>6, SeqsAre
  <1>8. Rows' = Rows /\ turned' \subseteq turned \cup Rows /\ turned \subseteq turned'
    BY <1>1, <1>3, <1>7 DEF Rows
  <1>9. ListingTypeOK'
    <2>1. r \in Seq(1..created)
      BY <1>5, <1>7, SeqWidens
    <2>2. (ids \cup seenAtStart \cup touched \cup turned)' \subseteq 1..created
      BY <1>4, <1>5, <1>8 DEF ListingTypeOK
    <2>3. (hidden \cap Rows)' = {}
      BY <1>4, <1>5, <1>8 DEF ListingTypeOK
    <2>4. QED
      BY <1>1, <1>4, <1>5, <1>7, <2>1, <2>2, <2>3 DEF ListingTypeOK
  <1>10. Upto = lo /\ Upto' = lo
    BY <1>2, <1>3, <1>4 DEF Upto, Skip
  <1>11. ASSUME NEW i \in DOMAIN r, r[i] \notin turned'
         PROVE  \E k \in DOMAIN shelf : shelf[k] = r[i] /\ (k <= lo <=> i <= lo)
    <2>1. PICK b : b = r[i]
      OBVIOUS
    <2>2. b \in Rows
      BY <1>7, <2>1 DEF ToSet
    <2>3. PICK k \in DOMAIN shelf : shelf[k] = b
      BY <2>2 DEF Rows, ToSet
    <2>4. PlaceOf(shelf, b) = k /\ PlaceOf(r, b) = i
      BY <1>5, <1>7, <2>1, <2>3, PlaceIs DEF ListingTypeOK
    <2>5. (k <= lo) = (i <= lo)
      BY <1>3, <1>11, <2>1, <2>2, <2>4
    <2>6. QED
      BY <2>1, <2>3, <2>5
  <1>12. /\ "added" \notin events =>
               /\ Once(got)
               /\ \A i \in DOMAIN shelf : shelf[i] \in ToSet(got) \ turned => i <= lo
         /\ NoneLost =>
               /\ \A i \in DOMAIN shelf : shelf[i] \in Staying /\ i <= lo => shelf[i] \in ToSet(got)
               /\ number.total # NotCounted => Len(shelf) = number.total
    BY <1>3, <1>10 DEF NumberKnows, ListingInv
  <1>13. ASSUME "added" \notin events
         PROVE  /\ Once(got)'
                /\ \A i \in DOMAIN r : r[i] \in ToSet(got) \ turned' => i <= lo
    <2>1. Once(got)'
      BY <1>4, <1>8, <1>12, <1>13 DEF Once
    <2>2. ASSUME NEW i \in DOMAIN r, r[i] \in ToSet(got) \ turned' PROVE i <= lo
      BY <1>8, <1>11, <1>12, <1>13, <2>2
    <2>3. QED
      BY <2>1, <2>2
  <1>14. ASSUME NoneLost, NEW i \in DOMAIN r, r[i] \in Staying', i <= lo
         PROVE  r[i] \in ToSet(got)
    <2>1. r[i] \in Staying /\ r[i] \notin turned'
      BY <1>4, <1>8, <1>14 DEF Staying
    <2>2. PICK k \in DOMAIN shelf : shelf[k] = r[i] /\ (k <= lo <=> i <= lo)
      BY <1>11, <2>1
    <2>3. QED
      BY <1>12, <1>14, <2>1, <2>2
  <1>15. NumberKnows'
    <2>1. ~number'.found
      BY <1>3, <1>4
    <2>2. NoneLost' <=> NoneLost
      BY <1>4 DEF NoneLost
    <2>3. QED
      BY <1>1, <1>4, <1>7, <1>10, <1>12, <1>13, <1>14, <2>1, <2>2 DEF NumberKnows
  <1>16. NumberedOnly' /\ NewKnows' /\ IdsKnow' /\ PageKnows' /\ DoneKnows'
    BY <1>3, <1>4 DEF NumberedOnly, NewKnows, IdsKnow, PageKnows, DoneKnows, ListingInv
  <1>17. QED
    BY <1>9, <1>15, <1>16 DEF ListingInv

LEMMA InitListing == ListingInit => ListingInv
  <1> SUFFICES ASSUME ListingInit PROVE ListingInv
    OBVIOUS
  <1>1. created \in 0..Ids /\ shelf = [i \in 1..created |-> created + 1 - i]
    BY DEF ListingInit
  <1>2. created \in Nat
    BY <1>1, ListingAssumption
  <1>3. /\ shelf \in Seq(1..created) /\ DOMAIN shelf = 1..created
        /\ \A i \in 1..created : shelf[i] = created + 1 - i
    <2>1. \A i \in 1..created : created + 1 - i \in 1..created
      BY <1>2
    <2>2. QED
      BY <1>1, <1>2, <2>1
  <1>5. IsInjective(shelf)
    BY <1>2, <1>3 DEF IsInjective
  <1>6. ListingTypeOK
    <2>1. /\ list \in Lists /\ walk = "new" /\ hidden = {} /\ ids = {} /\ seenAtStart = {}
          /\ touched = {} /\ turned = {} /\ cursor = 0 /\ got = <<>> /\ events = {}
      BY DEF ListingInit
    <2>2. number \in [page : 1..Ids + 1, found : BOOLEAN, total : NotCounted..Ids]
      <3>1. 1 \in 1..Ids + 1 /\ NotCounted \in NotCounted..Ids
        BY ListingAssumption DEF NotCounted
      <3>2. number = FirstNumber
        BY DEF ListingInit
      <3>3. QED
        BY <3>1, <3>2 DEF FirstNumber
    <2>3. 0 \in 0..created
      BY <1>2
    <2>4. QED
      BY <1>1, <1>3, <1>5, <2>1, <2>2, <2>3 DEF ListingTypeOK
  <1>7. NumberedOnly /\ NewKnows /\ IdsKnow /\ PageKnows /\ NumberKnows /\ DoneKnows
    BY DEF ListingInit, NumberedOnly, NewKnows, IdsKnow, PageKnows, NumberKnows, DoneKnows
  <1>8. QED
    BY <1>6, <1>7 DEF ListingInv

LEMMA NextListing == ListingInv /\ [ListingNext]_listingVars => ListingInv'
  <1> SUFFICES ASSUME ListingInv, [ListingNext]_listingVars PROVE ListingInv'
    OBVIOUS
  <1>1. ListingTypeOK /\ NumberedOnly
    BY DEF ListingInv
  <1>2. CASE AddEntry
    <2>1. Walking /\ UNCHANGED <<list, client>>
      BY <1>2 DEF AddEntry
    <2>2. QED
      BY <1>1, <1>2, <2>1, AddMoves, RowsMoveKeep
  <1>3. CASE RemoveEntry
    <2>1. Walking /\ UNCHANGED <<list, client>>
      BY <1>3 DEF RemoveEntry
    <2>2. QED
      BY <1>1, <1>3, <2>1, RemoveMoves, RowsMoveKeep
  <1>4. CASE EnterEntry
    <2>1. Walking /\ UNCHANGED <<list, client>>
      BY <1>4 DEF EnterEntry
    <2>2. QED
      BY <1>1, <1>4, <2>1, EnterMoves, RowsMoveKeep
  <1>5. CASE LeaveEntry
    <2>1. Walking /\ UNCHANGED <<list, client>>
      BY <1>5 DEF LeaveEntry
    <2>2. QED
      BY <1>1, <1>5, <2>1, LeaveMoves, RowsMoveKeep
  <1>6. CASE FirstIds
    BY <1>6, FirstIdsKeeps
  <1>7. CASE FirstRows
    BY <1>7, FirstRowsKeeps
  <1>8. CASE NextPage
    BY <1>8, NextPageKeeps
  <1>9. CASE StartNumbered
    BY <1>9, StartKeeps
  <1>10. CASE FindMany
    BY <1>10, FindManyKeeps
  <1>11. CASE Count
    BY <1>11, CountKeeps
  <1>12. CASE TiesTurn
    BY <1>12, TiesTurnKeeps
  <1>13. CASE UNCHANGED listingVars
    BY <1>13 DEF listingVars, ListingInv, ListingTypeOK, NumberedOnly, NewKnows, IdsKnow,
                 PageKnows, NumberKnows, DoneKnows, NoRowTwice, NoRowMissed, Rows, Staying, NoneLost, Upto,
                 Once
  <1>14. QED
    BY <1>2, <1>3, <1>4, <1>5, <1>6, <1>7, <1>8, <1>9, <1>10, <1>11, <1>12, <1>13
    DEF ListingNext

LEMMA ListingShows == ListingInv => NoRowTwice /\ NoRowMissed
  <1> SUFFICES ASSUME ListingInv PROVE NoRowTwice /\ NoRowMissed
    OBVIOUS
  <1>1. walk \in {"new", "ids", "page", "number", "done"} /\ got \in Seq(1..created)
    BY DEF ListingInv, ListingTypeOK
  <1>2. NoRowMissed
    BY DEF NoRowMissed, DoneKnows, ListingInv
  <1>3. CASE walk \in {"new", "ids"}
    <2>1. got = <<>>
      BY <1>3 DEF NewKnows, IdsKnow, ListingInv
    <2>2. QED
      BY <1>2, <2>1 DEF NoRowTwice
  <1>4. CASE walk = "page"
    <2>1. 1..created \subseteq Nat
      OBVIOUS
    <2>2. got \in Seq(Nat) /\ ("skew" \notin events => Falls(got))
      BY <1>1, <1>4, <2>1, SeqWidens DEF PageKnows, ListingInv
    <2>3. QED
      BY <1>2, <2>2, FallsInjective DEF NoRowTwice, IsInjective
  <1>5. CASE walk = "number"
    BY <1>2, <1>5 DEF NoRowTwice, NumberKnows, ListingInv, Once
  <1>6. CASE walk = "done"
    BY <1>6 DEF DoneKnows, ListingInv
  <1>7. QED
    BY <1>1, <1>3, <1>4, <1>5, <1>6

\* Lists keep their types: no id and no page out of its bounds, no row twice on
\* the shelf nor both on it and hidden, for any number of rows and any page size.
THEOREM ListingTyped == ListingInit /\ [][ListingNext]_listingVars => []ListingTypeOK
  <1>1. ListingInv => ListingTypeOK
    BY DEF ListingInv
  <1>2. QED
    BY <1>1, InitListing, NextListing, PTL

\* For any number of rows and any page size, and whichever rows are tied: a walk by
\* cursor whose first page is of the newest ids shows no row twice whatever happens
\* between its pages; a walk by number, unless a row was added or moved, none but
\* those a tie has carried over a border (getBooks; paginateCursorItems; findMany
\* with orderBy, skip and take).
THEOREM RowsShownOnce == ListingInit /\ [][ListingNext]_listingVars => []NoRowTwice
  <1>1. ListingInv => NoRowTwice
    BY ListingShows
  <1>2. QED
    BY <1>1, InitListing, NextListing, PTL

\* For any number of rows and any page size, and whichever rows are tied: a walk to
\* the last page has shown each row that was there all the time, did not change and
\* was not carried over a border by a tie, but for the walks that were cut, began
\* with a page not of the newest ids, lost a row or counted too early (getBooks;
\* buildMeta).
THEOREM RowsShownAll == ListingInit /\ [][ListingNext]_listingVars => []NoRowMissed
  <1>1. ListingInv => NoRowMissed
    BY ListingShows
  <1>2. QED
    BY <1>1, InitListing, NextListing, PTL

-----------------------------------------------------------------------------
(* The modules side by side. The module in focus moves and the others stand *)
(* still, so a behaviour of all is a behaviour of each.                     *)

LEMMA EachStarts == MCInit => CatalogueInit /\ CartInit /\ ListingInit
  BY DEF MCInit

LEMMA EachSteps ==
  ASSUME [MCNext]_<<focus, catalogueVars, cartVars, listingVars>>
  PROVE  /\ [CatalogueNext]_catalogueVars
         /\ [CartNext]_cartVars
         /\ [ListingNext]_listingVars
  <1>1. CASE MCNext
    BY <1>1 DEF MCNext
  <1>2. CASE UNCHANGED <<focus, catalogueVars, cartVars, listingVars>>
    BY <1>2
  <1>3. QED
    BY <1>1, <1>2

\* Catalogue, carts and lists run together as each runs alone.
THEOREM ShopIsItsParts ==
  MCSpec => /\ CatalogueInit /\ [][CatalogueNext]_catalogueVars
            /\ CartInit /\ [][CartNext]_cartVars
            /\ ListingInit /\ [][ListingNext]_listingVars
  BY EachStarts, EachSteps, PTL DEF MCSpec

\* Types of the whole shop: with them the foreign keys of links, image rows,
\* cart items and reviews.
THEOREM ShopTyped == MCSpec => []TypeOK
  <1>1. CatalogueTypeOK /\ CartTypeOK /\ ListingTypeOK => TypeOK
    BY DEF TypeOK
  <1>2. QED
    BY <1>1, ShopIsItsParts, CatalogueTyped, CartsTyped, ListingTyped, PTL
=============================================================================
