----------------------------- MODULE ImageUpload -----------------------------
(***************************************************************************)
(* The images of a form (packages/utils/expo/src/hooks/use-image-upload.ts *)
(* with apps/mobile/src/components/ImageGrid.tsx, and the upload endpoints *)
(* of apps/api/src/handlers/upload.ts).                                    *)
(*                                                                         *)
(* JavaScript runs one task at a time: an action is a press, or an answer  *)
(* of the picker, the resizer or the network, with all that it sets off.   *)
(* The screen is rendered between two tasks, so a press acts on the        *)
(* present state; but what goes on after an `await' uses the list of       *)
(* images that its closure captured when it began.                         *)
(***************************************************************************)
EXTENDS Integers, Sequences, FiniteSets

CONSTANTS
  maxImages,   \* the option of the hook
  Sizes,       \* what is stored of an image: requiredSizes, or, without the
               \* option enableResizing, "original" alone
  Uploads,     \* bound: slots for runs of uploadAndGetImageIds under way
  MaxPicks,    \* bound: images picked in one behaviour
  MaxIds       \* bound: image ids, the ones known at the start included

ASSUME ConfigAssumption ==
  /\ maxImages \in Nat /\ MaxPicks \in Nat
  /\ MaxIds \in Nat /\ maxImages <= MaxIds

VARIABLES
  images,          \* the list, which the form holds (images, onImagesChange)
  initialImages,   \* the first non-empty list seen
  selectedIndex,   \* of the grid, from 1; 0 is null
  isPicking,
  pickFrom,        \* the list that the pickImage under way captured
  isUploading,
  uploadingImages, \* files with a spinner
  uploadedImages,  \* files with a check mark
  runs,            \* runs[u]: a run of uploadAndGetImageIds
  lastPick,        \* how many files the picker has returned
  lastId,          \* how many image ids there are
  stored,          \* objects of the bucket, as <<id, size>>
  returned,        \* the image ids that runs have returned, to be saved
  opened           \* history: the list that the form was opened with

form == <<images, initialImages, opened>>
picker == <<isPicking, pickFrom, lastPick>>
upload == <<isUploading, uploadingImages, uploadedImages, runs, lastId, stored,
            returned>>
vars == <<form, selectedIndex, picker, upload>>

-----------------------------------------------------------------------------
(***************************************************************************)
(* Data.  Image ids are the positive numbers, the files that the picker    *)
(* returns (a new one every time) the negative ones; 0 is `undefined'.     *)
(***************************************************************************)
Id == 1 .. MaxIds
File == -MaxPicks .. -1
undefined == 0

isPreviewImage(url) == url < 0

Entries(list) == {list[i] : i \in 1 .. Len(list)}

\* The files of a list.
Previews(list) == {url \in Entries(list) : isPreviewImage(url)}

\* A run: the list it captured, the ids of the files uploaded so far, and the
\* file, the id and the sizes still to be stored of the upload under way.
Idle == [st |-> "idle", list |-> <<>>, ids |-> <<>>, file |-> 0, id |-> 0,
         left |-> {}]

\* Rendering calls startsWith on every entry: with an undefined one it throws,
\* and there is no screen left to press on.
Crashed == undefined \in Entries(images)

\* getR2Config, directUpload: what is PUT to the bucket of image `id'.
Objects(id, sizes) == {<<id, s>> : s \in sizes}

Init ==
  /\ \E n \in 0 .. maxImages :
       /\ images = [i \in 1 .. n |-> i]
       /\ lastId = n
       /\ stored = UNION {Objects(i, Sizes) : i \in 1 .. n}
  /\ initialImages = images /\ opened = images
  /\ selectedIndex = 0
  /\ isPicking = FALSE /\ pickFrom = <<>> /\ lastPick = 0
  /\ isUploading = FALSE /\ uploadingImages = {} /\ uploadedImages = {}
  /\ runs = [u \in Uploads |-> Idle]
  /\ returned = {}

\* The form takes a new list; the hook's effect tracks the initial images.
onImagesChange(list) ==
  /\ images' = list
  /\ initialImages' = IF initialImages = <<>> THEN list ELSE initialImages
  /\ UNCHANGED opened

\* Mutant: the order is not compared.
hasUnsavedChangesUnordered ==
  /\ initialImages # <<>>
  /\ \/ Len(initialImages) # Len(images)
     \/ Cardinality(Entries(initialImages)) # Cardinality(Entries(images))
     \/ ~ Entries(initialImages) \subseteq Entries(images)

\* Whether the form has something to save: the lists differ in length, in how
\* many or in which images they hold, or in their order.
hasUnsavedChanges ==
  /\ initialImages # <<>>
  /\ \/ Len(initialImages) # Len(images)
     \/ Cardinality(Entries(initialImages)) # Cardinality(Entries(images))
     \/ ~ Entries(initialImages) \subseteq Entries(images)
     \/ \E i \in 1 .. Len(initialImages) : initialImages[i] # images[i]

-----------------------------------------------------------------------------
(***************************************************************************)
(* pickImage                                                               *)
(***************************************************************************)
PickStart ==
  /\ ~Crashed
  /\ ~isPicking
  /\ Len(images) < maxImages
  /\ isPicking' = TRUE
  /\ pickFrom' = images
  /\ UNCHANGED <<form, selectedIndex, lastPick, upload>>

\* Mutant: the file is added to the list of now.
PickDoneLatest ==
  /\ isPicking
  /\ lastPick < MaxPicks
  /\ lastPick' = lastPick + 1
  /\ onImagesChange(Append(images, -(lastPick + 1)))
  /\ isPicking' = FALSE
  /\ pickFrom' = <<>>
  /\ UNCHANGED <<selectedIndex, upload>>

\* The picker returns a file, which is added to the list captured.
PickDone ==
  /\ isPicking
  /\ lastPick < MaxPicks
  /\ lastPick' = lastPick + 1
  /\ onImagesChange(Append(pickFrom, -(lastPick + 1)))
  /\ isPicking' = FALSE
  /\ pickFrom' = <<>>
  /\ UNCHANGED <<selectedIndex, upload>>

\* The user cancels, or the picker throws.
PickEnds ==
  /\ isPicking
  /\ isPicking' = FALSE
  /\ pickFrom' = <<>>
  /\ UNCHANGED <<form, selectedIndex, lastPick, upload>>

-----------------------------------------------------------------------------
(***************************************************************************)
(* The grid                                                                *)
(***************************************************************************)
\* The list without its i-th entry, if it has one.
Without(list, i) ==
  IF i \in 1 .. Len(list)
    THEN SubSeq(list, 1, i - 1) \o SubSeq(list, i + 1, Len(list))
    ELSE list

\* Mutant: the place moved to is overwritten.
MovedOver(list, from, to) ==
  LET item == IF from \in 1 .. Len(list) THEN list[from] ELSE undefined
  IN  [list EXCEPT ![to] = item]

\* splice(from, 1) and splice(to, 0, it): an element that is not there is
\* undefined.
Moved(list, from, to) ==
  LET item == IF from \in 1 .. Len(list) THEN list[from] ELSE undefined
      rest == Without(list, from)
  IN  SubSeq(rest, 1, to - 1) \o <<item>> \o SubSeq(rest, to, Len(rest))

\* A press on the i-th image: it is selected, deselected, or what is selected is
\* placed there (handlePlaceImage).
Press(i) ==
  /\ ~Crashed
  /\ \/ /\ selectedIndex = 0
        /\ selectedIndex' = i
        /\ UNCHANGED form
     \/ /\ selectedIndex = i
        /\ selectedIndex' = 0
        /\ UNCHANGED form
     \/ /\ selectedIndex \notin {0, i}
        /\ onImagesChange(Moved(images, selectedIndex, i))
        /\ selectedIndex' = 0
  /\ UNCHANGED <<picker, upload>>

\* removeImage; the button is not there while the image is uploading, or with a
\* check mark.  (Nor while isSaving, which is optional: this form does not pass it,
\* so that a removal may come at any time.)
Remove(i) ==
  /\ ~Crashed
  /\ selectedIndex = i
  /\ images[i] \notin uploadingImages \union uploadedImages
  /\ onImagesChange(Without(images, i))
  /\ selectedIndex' = 0
  /\ UNCHANGED <<picker, upload>>

-----------------------------------------------------------------------------
(***************************************************************************)
(* uploadAndGetImageIds, uploadPending and uploadImage                     *)
(***************************************************************************)
\* uploadImage begins: run u, with the ids it has, goes on to the first file of
\* its list that has no id yet.
UploadImage(u, list, ids, uploading) ==
  \E i \in 1 .. Len(list) :
    /\ isPreviewImage(list[i]) /\ list[i] \notin DOMAIN ids
    /\ \A k \in 1 .. i - 1 : isPreviewImage(list[k]) => list[k] \in DOMAIN ids
    /\ lastId < MaxIds
    /\ lastId' = lastId + 1
    /\ uploadingImages' = uploading \union {list[i]}
    /\ runs' = [runs EXCEPT ![u] =
                  [st |-> "processing", list |-> list, ids |-> ids,
                   file |-> list[i], id |-> lastId + 1, left |-> {}]]

\* The form's save calls it.  Without files there is nothing to wait for.
UploadStart(u) ==
  /\ ~Crashed
  /\ runs[u] = Idle
  /\ \/ /\ Previews(images) = {}
        /\ returned' = returned \union Entries(images)
        /\ UNCHANGED <<isUploading, uploadingImages, runs, lastId>>
     \/ /\ Previews(images) # {}
        /\ UploadImage(u, images, <<>>, uploadingImages)
        /\ isUploading' = TRUE
        /\ UNCHANGED returned
  /\ UNCHANGED <<form, selectedIndex, picker, uploadedImages, stored>>

\* processImage has made every size (without enableResizing the picked file is the
\* one there is): they are all sent.
Processed(u) ==
  /\ runs[u].st = "processing"
  /\ runs' = [runs EXCEPT ![u].st = "storing", ![u].left = Sizes]
  /\ UNCHANGED <<form, selectedIndex, picker, isUploading, uploadingImages,
                 uploadedImages, lastId, stored, returned>>

\* Every file has its id: the list captured, with the ids in the files' places,
\* goes to the form and is returned.
Finish(u, ids) ==
  LET list == runs[u].list
      updatedImages == [i \in 1 .. Len(list) |->
                          IF list[i] \in DOMAIN ids THEN ids[list[i]] ELSE list[i]]
  IN  /\ onImagesChange(updatedImages)
      /\ returned' = returned \union Entries(updatedImages)
      /\ isUploading' = FALSE
      /\ runs' = [runs EXCEPT ![u] = Idle]

\* Promise.all is done: the file is uploaded, and the next one's turn.
ImageDone(u) ==
  LET file == runs[u].file
      ids == [f \in DOMAIN runs[u].ids \union {file} |->
                IF f = file THEN runs[u].id ELSE runs[u].ids[f]]
  IN  /\ uploadedImages' = uploadedImages \union {file}
      /\ \/ /\ Previews(runs[u].list) \subseteq DOMAIN ids
            /\ Finish(u, ids)
            /\ uploadingImages' = uploadingImages \ {file}
            /\ UNCHANGED lastId
         \/ /\ ~ Previews(runs[u].list) \subseteq DOMAIN ids
            /\ UploadImage(u, runs[u].list, ids, uploadingImages \ {file})
            /\ UNCHANGED <<form, isUploading, returned>>

\* Mutant: the first size that is stored settles the image (Promise.any).
SizeStoredAny(u, s) ==
  /\ runs[u].st = "storing"
  /\ s \in runs[u].left
  /\ stored' = stored \union Objects(runs[u].id, {s})
  /\ ImageDone(u)
  /\ UNCHANGED <<selectedIndex, picker>>

\* A size is stored and the client told so.
SizeStored(u, s) ==
  /\ runs[u].st = "storing"
  /\ s \in runs[u].left
  /\ stored' = stored \union Objects(runs[u].id, {s})
  /\ \/ /\ runs[u].left # {s}
        /\ runs' = [runs EXCEPT ![u].left = runs[u].left \ {s}]
        /\ UNCHANGED <<form, isUploading, uploadingImages, uploadedImages,
                       lastId, returned>>
     \/ /\ runs[u].left = {s}
        /\ ImageDone(u)
  /\ UNCHANGED <<selectedIndex, picker>>

\* Mutant: the spinner is not taken away.
ThrowsSpinning(u) ==
  /\ runs' = [runs EXCEPT ![u] = Idle]
  /\ isUploading' = FALSE
  /\ UNCHANGED <<form, selectedIndex, picker, uploadingImages, uploadedImages,
                 lastId, returned>>

\* An upload throws: the run ends, and what it had uploaded is forgotten.
Throws(u) ==
  /\ runs' = [runs EXCEPT ![u] = Idle]
  /\ uploadingImages' = uploadingImages \ {runs[u].file}
  /\ isUploading' = FALSE
  /\ UNCHANGED <<form, selectedIndex, picker, uploadedImages, lastId, returned>>

\* The image is too large, or the resizer fails.
ProcessFails(u) ==
  /\ runs[u].st = "processing"
  /\ Throws(u)
  /\ UNCHANGED stored

\* A size fails.  It, and the ones still on their way, may be stored all the same.
SizeFails(u) ==
  /\ runs[u].st = "storing"
  /\ \E late \in SUBSET runs[u].left :
       stored' = stored \union Objects(runs[u].id, late)
  /\ Throws(u)

-----------------------------------------------------------------------------
Next ==
  \/ PickStart
  \/ PickDone
  \/ PickEnds
  \/ \E i \in 1 .. Len(images) : Press(i) \/ Remove(i)
  \/ \E u \in Uploads : \/ UploadStart(u)
                        \/ Processed(u)
                        \/ \E s \in Sizes : SizeStored(u, s)
                        \/ ProcessFails(u)
                        \/ SizeFails(u)

Spec == Init /\ [][Next]_vars

-----------------------------------------------------------------------------
(***************************************************************************)
(* Properties                                                              *)
(***************************************************************************)
\* The lists that the form, the picker and the runs may hold.
Lists == Seq(-MaxPicks .. MaxIds)

Run == [st : {"idle", "processing", "storing"}, list : Lists,
        ids : UNION {[fs -> Id] : fs \in SUBSET File}, file : File \union {0},
        id : Id \union {0}, left : SUBSET Sizes]

\* The values that the variables take, for the reader.
TypeOK ==
  /\ images \in Lists /\ initialImages \in Lists /\ pickFrom \in Lists
  /\ opened \in Lists
  /\ selectedIndex \in Nat
  /\ isPicking \in BOOLEAN /\ isUploading \in BOOLEAN
  /\ uploadingImages \subseteq File /\ uploadedImages \subseteq File
  /\ runs \in [Uploads -> Run]
  /\ lastPick \in 0 .. MaxPicks /\ lastId \in 0 .. MaxIds
  /\ stored \subseteq Id \X Sizes
  /\ returned \subseteq Id

\* An image id that is shown or saved can be displayed in every size: whatever
\* sizes failed in whatever order, no id of a partial upload gets out, nor is
\* a file saved in the place of an id.
IdsComplete ==
  \A id \in (Entries(images) \intersect Id) \union returned :
    Objects(id, Sizes) \subseteq stored

\* "Maximum ${maxImages} images allowed", although the picker and the uploads
\* write lists that are no longer the present one.
LimitKept == Len(images) <= maxImages

\* The grid's key={imageId} is unique: no race of picking, moving, removing and
\* uploading makes an entry appear twice.
UniqueKeys ==
  \A i, j \in 1 .. Len(images) : images[i] = images[j] => i = j

\* No spinner stays when nothing is being uploaded.
SpinnerStops ==
  /\ isUploading => \E u \in Uploads : runs[u] # Idle
  /\ \A f \in uploadingImages : \E u \in Uploads : runs[u].file = f

\* A form that was opened with images notices every change to them: something is
\* to be saved exactly if its list is not the one it was opened with, whatever
\* was added, removed, moved or replaced by a stale list since, and it is not
\* if that has been undone.  (A form that was opened without images takes the first
\* list it gets for the one it was opened with.)
ChangesNoticed == opened # <<>> => hasUnsavedChanges = (images # opened)

\* "Array of imageIds or file:// URLs": there is no undefined entry.
ImagesAreUrls == ~Crashed

=============================================================================
