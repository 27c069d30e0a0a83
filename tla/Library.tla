------------------------------- MODULE Library -------------------------------
(***************************************************************************)
(* Pictures: objects in the S3 bucket, rows of Media, and the pictures of  *)
(* a product with the list in its form (media.service.ts upload, remove;   *)
(* apps/web product-admin-form.tsx upload, ImageEditor; admin.service.ts   *)
(* syncProductRelations).  The bucket and the database are written one     *)
(* after the other, and the process may stop between the two.              *)
(***************************************************************************)
EXTENDS Naturals, FiniteSets, Sequences, SequencesExt

CONSTANTS Pictures,   \* uploaded files
          NoPicture,
          MaxListed   \* bound on the pictures of a form

ASSUME LibraryAssumption == NoPicture \notin Pictures /\ MaxListed \in Nat

VARIABLES object,    \* stored in the bucket
          media,     \* rows of Media
          uploading, \* an upload between the bucket and its row
          removing,  \* a removal between the bucket and its row
          doomed,    \* pictures somebody has tried to remove
          pictured,  \* rows of ProductImage, in order
          inForm     \* the form's pictures

libraryVars == <<object, media, uploading, removing, doomed, pictured, inForm>>

Item(p, featured) == [media |-> p, featured |-> featured]

LibraryInit == /\ object = {} /\ media = {} /\ doomed = {}
               /\ uploading = NoPicture /\ removing = NoPicture
               /\ pictured = <<>> /\ inForm = <<>>

----------------------------------------------------------------------------
\* Mutant: an upload goes on though the bucket has refused the file.
PutObject_Unchecked(p) ==
    /\ uploading = NoPicture /\ p \notin object \cup media \cup doomed
    /\ object' \in {object, object \cup {p}}
    /\ uploading' = p
    /\ UNCHANGED <<media, removing, doomed, pictured, inForm>>

PutObject(p) ==
    /\ uploading = NoPicture /\ p \notin object \cup media \cup doomed
    /\ object' = object \cup {p}
    /\ uploading' = p
    /\ UNCHANGED <<media, removing, doomed, pictured, inForm>>

\* The row; the answer adds the picture to the form, featured if it is the first.
CreateMedia ==
    /\ uploading # NoPicture
    /\ media' = media \cup {uploading}
    /\ inForm' = IF Len(inForm) < MaxListed THEN Append(inForm, Item(uploading, inForm = <<>>)) ELSE inForm
    /\ uploading' = NoPicture
    /\ UNCHANGED <<object, removing, doomed, pictured>>

\* The object stays without a row.
UploadStops == /\ uploading # NoPicture /\ uploading' = NoPicture
               /\ UNCHANGED <<object, media, removing, doomed, pictured, inForm>>

DeleteObject(p) ==
    /\ removing = NoPicture /\ p \in media
    /\ object' = object \ {p} /\ doomed' = doomed \cup {p}
    /\ removing' = p
    /\ UNCHANGED <<media, uploading, pictured, inForm>>

\* A product that shows the picture restricts the deletion of the row, and the
\* process may stop before it: the row stays, its object is gone.
DeleteMedia ==
    /\ removing # NoPicture
    /\ \/ media' = media
       \/ /\ \A i \in DOMAIN pictured : pictured[i].media # removing
          /\ media' = media \ {removing}
    /\ removing' = NoPicture
    /\ UNCHANGED <<object, uploading, doomed, pictured, inForm>>

----------------------------------------------------------------------------
OpenPictures == inForm' = pictured /\ UNCHANGED <<object, media, uploading, removing, doomed, pictured>>

Feature(i) == /\ i \in DOMAIN inForm
              /\ inForm' = [j \in DOMAIN inForm |-> Item(inForm[j].media, j = i)]
              /\ UNCHANGED <<object, media, uploading, removing, doomed, pictured>>

\* The first picture left becomes featured, and so may be two.
Unlist(i) == LET rest == RemoveAt(inForm, i) IN
    /\ i \in DOMAIN inForm
    /\ inForm' = [j \in DOMAIN rest |-> Item(rest[j].media, rest[j].featured \/ j = 1)]
    /\ UNCHANGED <<object, media, uploading, removing, doomed, pictured>>

\* The first picture marked, or the first of all.
Featured(i) == IF \E j \in DOMAIN inForm : inForm[j].featured
               THEN inForm[i].featured /\ \A j \in 1..i-1 : ~inForm[j].featured
               ELSE i = 1

\* The images of the product are deleted and created anew; all must have a row.
SavePictures ==
    /\ \A i \in DOMAIN inForm : inForm[i].media \in media
    /\ pictured' = [i \in DOMAIN inForm |-> Item(inForm[i].media, Featured(i))]
    /\ UNCHANGED <<object, media, uploading, removing, doomed, inForm>>

LibraryNext == \/ \E p \in Pictures : PutObject(p) \/ DeleteObject(p)
               \/ CreateMedia \/ UploadStops \/ DeleteMedia
               \/ \E i \in 1..MaxListed : Feature(i) \/ Unlist(i)
               \/ OpenPictures \/ SavePictures

LibrarySpec == LibraryInit /\ [][LibraryNext]_libraryVars

----------------------------------------------------------------------------
\* A product with pictures has one featured picture, though its form may mark
\* two or none (ImageEditor, syncProductRelations).
OneFeatured == pictured # <<>> => Cardinality({i \in DOMAIN pictured : pictured[i].featured}) = 1

\* A picture of a product is in the bucket unless somebody has tried to remove
\* it, wherever an upload was interrupted (upload, remove).
PicturesAreThere == \A i \in DOMAIN pictured : pictured[i].media \in object \cup doomed

\* A product page can show its gallery, and the cards their one picture.
GalleryIsSound == OneFeatured /\ PicturesAreThere
=============================================================================
