--------------------------- MODULE MCAttachments ---------------------------
(***************************************************************************)
(* An instance of Attachments: an image and another file, two people who    *)
(* download.                                                                *)
(***************************************************************************)
EXTENDS Attachments

CONSTANTS image, text, u1, u2

TwoFiles == {image, text}
OneImage == {image}
TwoUsers == {u1, u2}
=============================================================================
