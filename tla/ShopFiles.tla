------------------------------ MODULE ShopFiles ------------------------------
(***************************************************************************)
(* The pictures of a business's shops, which lie in an external file store *)
(* and are named by columns of shops and shop_products: uploadLogo and     *)
(* uploadBanner of ShopBuilderController; create, update, uploadImages and *)
(* deleteImage of ShopProductController; and FileUploadService.  The store *)
(* gives every upload a name of its own; here it is that of the request    *)
(* that made it.                                                           *)
(***************************************************************************)
EXTENDS Requests

CONSTANTS
    Pictures,   \* columns that name one file: the logo or banner of a shop
    Albums,     \* columns that name several: the images of a product
    MaxImages,  \* the most features.max_images_per_product has ever been
    NoFile      \* a null column

ASSUME MaxImagesAssumption == MaxImages \in Nat
ASSUME NoFileAssumption == NoFile \notin Requests
ASSUME FilesAssumption == IsFiniteSet(Requests)

VARIABLES
    picture,    \* the file each picture is in
    album,      \* the files of each album
    files,      \* the files in the store
    loose       \* history: files that a request has let go of, see below

fileVars == <<picture, album, files, loose>>

FilesInit ==
    /\ picture = [p \in Pictures |-> NoFile]
    /\ album = [a \in Albums |-> {}]
    /\ files = {}
    /\ loose = {}

(* Names that a merchant may know: those of files that were uploaded, and  *)
(* others, of no file.                                                     *)
Known == {f \in Requests : job[f] = Done}

(* The limit, which is what the merchant has set, is compared without the  *)
(* image to come.                                                          *)
RoomFor_Bug(images, limit) == Cardinality(images) <= limit

RoomFor(images, limit) == Cardinality(images) + 1 <= limit

(* The file is deleted and the column is left as it was. *)
Without_Bug(images, f) == images

Without(images, f) == images \ {f}

(* deleteFile: an error of the store is logged, and the caller goes on as  *)
(* if the file were gone.                                                  *)
DeleteFile(f) ==
    \/ files' = files \ {f} /\ UNCHANGED loose
    \/ UNCHANGED files /\ loose' = loose \union {f}

-----------------------------------------------------------------------------
(* The old picture is deleted first, whatever happens next. *)
UploadPicture(r, p) ==
    /\ Begin(r, [op |-> "picture", at |-> "upload", picture |-> p])
    /\ IF picture[p] = NoFile THEN UNCHANGED <<files, loose>> ELSE DeleteFile(picture[p])
    /\ UNCHANGED <<picture, album>>

StorePicture(r) ==
    /\ At(r, "picture", "upload")
    /\ files' = files \union {r}
    /\ Continue(r, [job[r] EXCEPT !.at = "save"])
    /\ UNCHANGED <<picture, album, loose>>

(* What was uploaded is cleaned up as if it were temporary. *)
SavePicture_Bug(r) ==
    /\ At(r, "picture", "save")
    /\ picture' = [picture EXCEPT ![job[r].picture] = r]
    /\ files' = files \ {r}
    /\ Finish(r)
    /\ UNCHANGED <<album, loose>>

SavePicture(r) ==
    /\ At(r, "picture", "save")
    /\ picture' = [picture EXCEPT ![job[r].picture] = r]
    /\ Finish(r)
    /\ UNCHANGED <<album, files, loose>>

(* The images the product has are counted, and kept for the save. *)
UploadImage(r, a, limit) ==
    /\ Begin(r, IF RoomFor(album[a], limit)
                THEN [op |-> "image", at |-> "upload", album |-> a, copy |-> album[a]]
                ELSE Done)
    /\ UNCHANGED fileVars

StoreImage(r) ==
    /\ At(r, "image", "upload")
    /\ files' = files \union {r}
    /\ Continue(r, [job[r] EXCEPT !.at = "save"])
    /\ UNCHANGED <<picture, album, loose>>

SaveImage(r) ==
    /\ At(r, "image", "save")
    /\ album' = [album EXCEPT ![job[r].album] = job[r].copy \union {r}]
    /\ Finish(r)
    /\ UNCHANGED <<picture, files, loose>>

(* A product is created or updated with a list of images, of which nothing *)
(* is looked up and, unless a file comes with it, nothing counted.  It     *)
(* takes the place of the list the product had, whose files stay.          *)
ListImages(r, a, names) ==
    /\ Begin(r, [op |-> "relist", at |-> "save", album |-> a, images |-> names])
    /\ loose' = loose \union names \union album[a]
    /\ UNCHANGED <<picture, album, files>>

ListAndUpload(r, a, names, limit) ==
    /\ RoomFor(names, limit)
    /\ Begin(r, [op |-> "image", at |-> "upload", album |-> a, copy |-> names])
    /\ loose' = loose \union names \union album[a]
    /\ UNCHANGED <<picture, album, files>>

(* Any name is deleted from the store, also where the product does not     *)
(* list it.                                                                *)
DeleteImage(r, a, f) ==
    /\ Begin(r, [op |-> "relist", at |-> "save", album |-> a,
                 images |-> Without(album[a], f)])
    /\ IF f \in album[a] THEN DeleteFile(f)
       ELSE files' \in {files, files \ {f}} /\ loose' = loose \union {f}
    /\ UNCHANGED <<picture, album>>

RelistImages(r) ==
    /\ At(r, "relist", "save")
    /\ album' = [album EXCEPT ![job[r].album] = job[r].images]
    /\ Finish(r)
    /\ UNCHANGED <<picture, files, loose>>

FilesNext ==
    \E r \in Requests :
        \/ \E p \in Pictures : UploadPicture(r, p)
        \/ \E a \in Albums :
            \/ \E limit \in 0..MaxImages : UploadImage(r, a, limit)
            \/ \E names \in SUBSET Known \ {{}} :
                ListImages(r, a, names) \/ \E limit \in 0..MaxImages : ListAndUpload(r, a, names, limit)
            \/ \E f \in Known : DeleteImage(r, a, f)
        \/ StorePicture(r) \/ SavePicture(r)
        \/ StoreImage(r) \/ SaveImage(r) \/ RelistImages(r)

-----------------------------------------------------------------------------
(* Properties.  They are about files that no request has let go of: that   *)
(* no request brought along in a list of its own, that no such list took   *)
(* the place of, that no request deleted by naming a product that does not *)
(* list them, and that the store did not fail to delete.  Of the others    *)
(* the code keeps no track.                                                *)

FilesTypes ==
    /\ picture \in [Pictures -> Requests \union {NoFile}]
    /\ album \in [Albums -> SUBSET Requests]
    /\ files \subseteq Requests
    /\ loose \subseteq Requests

(* Once uploads are through, however they overlapped, a logo or banner     *)
(* that a shop shows is in the store, unless an upload ended early.        *)
PictureIsStored ==
    Running = {} /\ faults = 0 =>
        \A p \in Pictures : picture[p] \in files \union loose \union {NoFile}

(* One at a time: between two requests the images of the products and the  *)
(* pictures of the shops are exactly what the store holds, so that nothing *)
(* shown is missing and nothing stored is forgotten.  (An image that is    *)
(* deleted while another is uploaded comes back as a name without a file,  *)
(* and of two uploads that overlap one file is forgotten.)                 *)
StoreMatchesRows ==
    inSeries /\ Running = {} /\ faults = 0 =>
        files \ loose = ((UNION {album[a] : a \in Albums})
                            \union ({picture[p] : p \in Pictures} \ {NoFile})) \ loose

(* However uploads overlap, no product lists more images that were         *)
(* uploaded to it than its merchant, who sets the limit, ever allowed.     *)
ImagesWithinLimit == \A a \in Albums : Cardinality(album[a] \ loose) <= MaxImages
=============================================================================
