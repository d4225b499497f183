-------------------------- MODULE MCTableExport ---------------------------
(* Pages of A4 height: two rows of 90 fill one, and a spacer of 246 comes   *)
(* to its end.                                                              *)
EXTENDS TableExport

Field(name, public, numeric, export, json) ==
  [name |-> name, public |-> public, numeric |-> numeric, export |-> export, json |-> json]

MCFieldLists ==
  { <<Field("Secret", TRUE, FALSE, "absent", "-")>>,
    <<Field("Name", TRUE, FALSE, "absent", "name"), Field("hidden", FALSE, FALSE, "absent", ""),
      Field("Age", TRUE, TRUE, "Years", "-")>>,
    <<Field("Id", TRUE, TRUE, "absent", ""), Field("Note", TRUE, FALSE, "-", "note"),
      Field("Name", TRUE, FALSE, "Name", "")>> }

Logo(kind, image, path, address) ==
  [kind |-> kind, image |-> image, path |-> path, address |-> address]
Brand(left, right, logo, repeat) ==
  [left |-> left, right |-> right, logo |-> logo, repeat |-> repeat, divider |-> repeat]

(* Two readers, a reader beside the path of a file, that file, and a buffer *)
(* that is used for two images.                                             *)
MCBrandHeaders ==
  { Brand(2, 1, Logo("reader", 1, 0, 0), FALSE), Brand(1, 0, Logo("reader", 2, 0, 0), TRUE),
    Brand(1, 0, Logo("reader", 3, 1, 0), FALSE), Brand(0, 4, Logo("path", 4, 1, 0), TRUE),
    Brand(1, 1, Logo("bytes", 5, 0, 1), TRUE), Brand(1, 0, Logo("bytes", 6, 0, 1), FALSE) }
=============================================================================
