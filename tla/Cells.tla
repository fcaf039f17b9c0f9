-------------------------------- MODULE Cells --------------------------------
(***************************************************************************)
(* A cell of src/src/protocol: the header fields that cell-header.ts lays  *)
(* out and the code compares, and a body that stands for the payload.      *)
(* CellStore.put of a fresh store (every caller of this repository makes   *)
(* one per cell) gives a version 1 cell, whose version the caller then     *)
(* overwrites.  A SHA-256 is a one-element sequence holding what was       *)
(* hashed, the zeroed field the empty sequence; the link of the hashed     *)
(* cell is dropped, for nothing compares two cells that differ in it only. *)
(***************************************************************************)
EXTENDS Integers

Zero == <<>>
sha256(c) == <<[c EXCEPT !.prev = Zero]>>
Overwritten == <<"AA", "AA">>    \* 32 bytes of 0xAA

Linearities == {"LINEAR", "AFFINE", "RELEVANT", "DEBUG"}

\* put in a fresh store, read back: prev is the caller's prevStateHash, or zero.
NewCell(linearity, type, owner, prev, body) ==
    [magic |-> TRUE, linearity |-> linearity, version |-> 1, owner |-> owner, type |-> type,
     prev |-> prev, body |-> body]

\* The callers bump the version in the header of the cell they read back.
WithVersion(c, version) == [c EXCEPT !.version = version]

TamperModes == {"flip-linearity", "zero-owner", "break-prev-hash", "bump-version-double", "corrupt-magic"}

\* The cell bytes the red-team modes of payment-channel.ts hand to the kernel.
applyTamper(c, mode) ==
    CASE mode = "flip-linearity"      -> [c EXCEPT !.linearity = "AFFINE"]
      [] mode = "zero-owner"          -> [c EXCEPT !.owner = "zero"]
      [] mode = "break-prev-hash"     -> [c EXCEPT !.prev = Overwritten]
      [] mode = "bump-version-double" -> [c EXCEPT !.version = @ + 1]
      [] mode = "corrupt-magic"       -> [c EXCEPT !.magic = FALSE]
      [] OTHER                        -> c

\* TransitionValidator.validateCell: the header parses.
validateCell(c) == c.magic

\* Mutant: the hash of the cell before is not compared.
WithoutHashLink(v1, v2) ==
    /\ v1.magic /\ v2.magic
    /\ v2.linearity = v1.linearity /\ v2.type = v1.type /\ v2.owner = v1.owner
    /\ v2.version > v1.version
    /\ v2.prev # Zero

\* The checks validate makes before it runs the lock script of v1.
HeadersContinue(v1, v2) ==
    /\ v1.magic /\ v2.magic
    /\ v2.linearity = v1.linearity
    /\ v2.type = v1.type
    /\ v2.owner = v1.owner
    /\ v2.version > v1.version
    /\ v2.prev # Zero /\ v2.prev = sha256(v1)

\* TransitionValidator.validate.  The script is run on a kernel handle: the loader bundled with
\* this repository gives one without kernelReset, and the call throws ("stub"); the kernel the
\* comments describe runs it ("full").
validate(kernel, v1, v2) ==
    IF ~HeadersContinue(v1, v2) THEN "invalid" ELSE IF kernel = "full" THEN "valid" ELSE "throws"
===============================================================================
