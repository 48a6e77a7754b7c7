--------------------------- MODULE ProductImages ---------------------------
(***************************************************************************)
(* ProductService's images: rows in the database, files in the object      *)
(* store.  A file is kept under its name and the millisecond of its        *)
(* upload, so that files of one name in one request may share a key (as    *)
(* may those of two requests in one millisecond, which is left out).       *)
(***************************************************************************)
EXTENDS Products

CONSTANTS
    MaxImages,      \* images of a product: 5 in the code
    MaxFiles        \* files of one upload: 5 in the code

ImageIds == ProductIds \X (1 .. MaxImages)

Image == [product : ProductIds, primary : BOOLEAN, file : ImageIds]

ImageCall ==
    [op : {"addImages"}, seller : Sellers, product : ProductIds, files : 1 .. MaxFiles,
     oneName : BOOLEAN]
    \cup [op : {"removeImage", "setPrimary"}, seller : Sellers, product : ProductIds,
          image : ImageIds]

ASSUME ImageAssumption ==
    /\ MaxFiles \in Nat \ {0} /\ MaxImages \in Nat /\ MaxFiles <= MaxImages
    /\ None \notin Image

VARIABLES
    images,     \* productImage: [ImageIds -> Image or None]
    files,      \* the keys in the bucket
    kept,       \* the files whose deletion failed, which deleteFile only logs
    disturbed   \* observer: the products two image requests were at work on at
                \* once, or a removal of whose primary image broke off

imageVars == <<images, files, kept, disturbed>>

ImagesOf(p)    == {i \in ImageIds : images[i] # None /\ images[i].product = p}
PrimariesOf(p) == {i \in ImagesOf(p) : images[i].primary}

ImagesInit ==
    /\ images \in [ImageIds -> Image \cup {None}]
    /\ \A i \in ImageIds : images[i] # None =>
        /\ i[1] \in OldProducts /\ products[i[1]] # None
        /\ images[i].product = i[1] /\ images[i].file = i
    /\ \A p \in ProductIds : ImagesOf(p) # {} => Cardinality(PrimariesOf(p)) = 1
    /\ files = {i \in ImageIds : images[i] # None}
    /\ kept = {} /\ disturbed = {}

-----------------------------------------------------------------------------
AtWork(p) == {q \in Requests :
    /\ pc[q] \in {"upload", "storeImages", "findImage", "primary",
                  "deleteFile", "deleteRow", "findNext", "promote"}
    /\ call[q].product = p}

(* All three start with the product; an upload counts its images there.    *)
findProductOfImage(r) ==
    LET c == call[r]  count == Cardinality(ImagesOf(c.product)) IN
    /\ pc[r] = "findProductOfImage"
    /\ IF ~ OwnProduct(r) \/ (c.op = "addImages" /\ count + c.files > MaxImages)
       THEN End(r, "refused") /\ UNCHANGED disturbed
       ELSE /\ IF c.op = "addImages" THEN Goto(r, "upload", count) ELSE Goto(r, "findImage", None)
            /\ disturbed' = IF AtWork(c.product) = {} THEN disturbed
                            ELSE disturbed \cup {c.product}
    /\ UNCHANGED <<images, files, kept>>

-----------------------------------------------------------------------------
(* updateImages                                                            *)

NewIds(r) == {r} \X (1 .. call[r].files)

(* image -> key, named for the first file stored under it: those of one    *)
(* name fall into milliseconds in any way, others have keys of their own.  *)
Keys(r) == {k \in [NewIds(r) -> NewIds(r)] :
    \A i \in NewIds(r) : /\ k[k[i]] = k[i] /\ k[i][2] <= i[2]
                         /\ ~ call[r].oneName => k[i] = i}

notAwaited(r) ==                              \* plausible bug: rows before files
    /\ pc[r] = "upload"
    /\ \E k \in Keys(r) : Goto(r, "storeImages", [count |-> seen[r], key |-> k])
    /\ UNCHANGED imageVars

upload(r) ==
    /\ pc[r] = "upload"
    /\ \E k \in Keys(r) : /\ files' = files \cup {k[i] : i \in NewIds(r)}
                          /\ Goto(r, "storeImages", [count |-> seen[r], key |-> k])
    /\ UNCHANGED <<images, kept, disturbed>>

(* One upload fails: the others, not waited for, end or not.               *)
uploadFails(r) ==
    /\ pc[r] = "upload"
    /\ \E done \in SUBSET NewIds(r) : files' = files \cup done
    /\ End(r, "failed")
    /\ UNCHANGED <<images, kept, disturbed>>

IsFirst(r, i) == seen[r].count = 0 /\ i[2] = 1

storeImages(r) ==
    /\ pc[r] = "storeImages" /\ products[call[r].product] # None
    /\ images' = [i \in ImageIds |->
            IF i \in NewIds(r)
            THEN [product |-> call[r].product, primary |-> IsFirst(r, i), file |-> seen[r].key[i]]
            ELSE images[i]]
    /\ UNCHANGED <<files, kept, disturbed>>
    /\ End(r, "ok")

-----------------------------------------------------------------------------
(* removeImage                                                             *)

findImage(r) ==
    LET i == call[r].image IN
    /\ pc[r] = "findImage"
    /\ IF i \notin ImagesOf(call[r].product) THEN End(r, "refused")
       ELSE Goto(r, IF call[r].op = "removeImage" THEN "deleteFile" ELSE "primary", images[i])
    /\ UNCHANGED imageVars

skipFile(r) ==                                \* plausible bug: the file is not deleted
    pc[r] = "deleteFile" /\ Goto(r, "deleteRow", seen[r]) /\ UNCHANGED imageVars

deleteFile(r) ==
    /\ pc[r] = "deleteFile"
    /\ \/ files' = files \ {seen[r].file} /\ UNCHANGED kept
       \/ kept' = kept \cup {seen[r].file} /\ UNCHANGED files
    /\ Goto(r, "deleteRow", seen[r])
    /\ UNCHANGED <<images, disturbed>>

deleteRow(r) ==
    LET i == call[r].image IN
    /\ pc[r] = "deleteRow" /\ images[i] # None
    /\ images' = [images EXCEPT ![i] = None]
    /\ IF seen[r].primary THEN Goto(r, "findNext", None) ELSE End(r, "ok")
    /\ UNCHANGED <<files, kept, disturbed>>

(* The oldest; those of one upload have the same age.                      *)
findNext(r) ==
    LET left == ImagesOf(call[r].product) IN
    /\ pc[r] = "findNext"
    /\ IF left = {} THEN End(r, "ok") ELSE \E i \in left : Goto(r, "promote", i)
    /\ UNCHANGED imageVars

promote(r) ==
    /\ pc[r] = "promote" /\ images[seen[r]] # None
    /\ images' = [images EXCEPT ![seen[r]].primary = TRUE]
    /\ UNCHANGED <<files, kept, disturbed>>
    /\ End(r, "ok")

(* setPrimaryImage: one transaction of two updates.                        *)
addPrimary(r) ==                              \* plausible bug: the others keep the flag
    /\ pc[r] = "primary" /\ images[call[r].image] # None
    /\ images' = [images EXCEPT ![call[r].image].primary = TRUE]
    /\ UNCHANGED <<files, kept, disturbed>>
    /\ End(r, "ok")

setPrimary(r) ==
    /\ pc[r] = "primary" /\ images[call[r].image] # None
    /\ images' = [i \in ImageIds |-> IF i \in ImagesOf(call[r].product)
                                     THEN [images[i] EXCEPT !.primary = (i = call[r].image)]
                                     ELSE images[i]]
    /\ UNCHANGED <<files, kept, disturbed>>
    /\ End(r, "ok")

(* Removing the primary image and promoting another is not one transaction.*)
imageRequestFails(r) ==
    /\ Abort(r)
    /\ disturbed' = IF pc[r] \in {"findNext", "promote"}
                    THEN disturbed \cup {call[r].product} ELSE disturbed
    /\ UNCHANGED <<images, files, kept>>

ImagesStart(r) == \E c \in Calls \cap ImageCall :
    /\ products[c.product] # None
    /\ c.op # "addImages" => images[c.image] # None
    /\ Begin(r, c, "findProductOfImage")
    /\ UNCHANGED imageVars

ImagesStep(r) ==
    \/ ImagesStart(r) \/ findProductOfImage(r)
    \/ upload(r) \/ uploadFails(r) \/ storeImages(r)
    \/ findImage(r) \/ deleteFile(r) \/ deleteRow(r) \/ findNext(r) \/ promote(r)
    \/ setPrimary(r)

-----------------------------------------------------------------------------
(* Type correctness. *)
ImagesTypeOK ==
    /\ images \in [ImageIds -> Image \cup {None}]
    /\ files \subseteq ImageIds /\ kept \subseteq ImageIds /\ disturbed \subseteq ProductIds

(* Image requests of a product, one after the other, leave it with five    *)
(* images at most, of which exactly one is primary.  (A removal that broke *)
(* off, or two requests at once, may leave more images, no primary one or  *)
(* two.)                                                                   *)
ImagesSoundUnlessDisturbed == \A p \in ProductIds \ disturbed :
    /\ Cardinality(ImagesOf(p)) <= MaxImages
    /\ AtWork(p) = {} /\ ImagesOf(p) # {} => Cardinality(PrimariesOf(p)) = 1

(* An image that is listed has its file, unless a removal of the image has *)
(* deleted the file and not yet, or by a failure never, the row, or unless *)
(* it shared its key with another.                                         *)
Removing(i) == {r \in Requests : /\ pc[r] \in {"deleteRow", "failed"}
                                 /\ call[r].op = "removeImage" /\ call[r].image = i}
RowsHaveFiles == \A i \in ImageIds :
    images[i] # None /\ images[i].file \notin files
        => \/ Removing(i) # {}
           \/ i[1] \in Requests /\ call[i[1]].oneName

(* A file that no row names is that of an upload that is under way or has  *)
(* failed, one whose deletion failed, or one of a product that went with   *)
(* its category, whose files nobody deletes.                               *)
FilesHaveRows == \A f \in files :
    (\A i \in ImageIds : images[i] # None => images[i].file # f)
        => \/ f \in kept
           \/ f[1] \in Requests /\ pc[f[1]] # "ok"
           \/ LET p == IF f[1] \in OldProducts THEN f[1] ELSE call[f[1]].product
              IN  products[p] = None
=============================================================================
