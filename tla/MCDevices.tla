------------------------------ MODULE MCDevices ------------------------------
(***************************************************************************)
(* FormatV1 and its integrity checker on three devices, one of which is     *)
(* chosen initially.                                                        *)
(*                                                                          *)
(* On the tight one bitmap bytes have one bit, so that searches wrap from   *)
(* byte to byte and miss free bits, and a directory has room for one name:  *)
(* calls fail half way, and the counters go wrong and wrap.                 *)
(*                                                                          *)
(* On the others a directory has room for two names, files are not opened,  *)
(* and the callers do what the code does not refuse: on the roomy one they  *)
(* link and rename directories and symbolic links, and on the short one,    *)
(* which has a data block less, they also create names that exist.          *)
(***************************************************************************)
EXTENDS Integers, TLC

CONSTANTS NI, BlockBits, IMapBlocks, DMapBlocks, Direct, Indirect, MaxBlocks,
          Names, PaddedNames, MaxGrow, U32,   \* as in FormatV1
          OpenFiles                           \* Handles of the tight device

VARIABLES device, ibits, ilast, dbits, dlast, sb, saved, inode, content, open

vars == <<device, ibits, ilast, dbits, dlast, sb, saved, inode, content, open>>

Renames == {"link_symlink", "rename_directory", "rename_symlink"}

Tight == INSTANCE IntegrityChecker WITH
           ND <- 3, ByteBits <- 1, EntriesPerBlock <- 3, Handles <- OpenFiles, Risky <- {}
Roomy == INSTANCE IntegrityChecker WITH
           ND <- 3, ByteBits <- BlockBits, EntriesPerBlock <- 4, Handles <- {}, Risky <- Renames
Short == INSTANCE IntegrityChecker WITH
           ND <- 2, ByteBits <- BlockBits, EntriesPerBlock <- 4, Handles <- {},
           Risky <- Renames \cup {"reuse_name"}

Init == \/ device = "tight" /\ Tight!Init
        \/ device = "roomy" /\ Roomy!Init
        \/ device = "short" /\ Short!Init

Next == \/ device = "tight" /\ Tight!Next /\ UNCHANGED device
        \/ device = "roomy" /\ Roomy!Next /\ UNCHANGED device
        \/ device = "short" /\ Short!Next /\ UNCHANGED device

Spec == Init /\ [][Next]_vars

(* Names of the same length are interchangeable.                            *)
NameSymmetry == Permutations(Names \ PaddedNames)

-----------------------------------------------------------------------------
(* The variables have their types; the counters wrap, as the code's do.     *)
TypeOK == CASE device = "tight" -> Tight!TypeOK
            [] device = "roomy" -> Roomy!TypeOK
            [] device = "short" -> Short!TypeOK

(* No call hands out or releases a block in use, whatever failed before.    *)
BlockOwnership == CASE device = "tight" -> Tight!BlockOwnership
                    [] device = "roomy" -> Roomy!BlockOwnership
                    [] device = "short" -> Short!BlockOwnership

(* The link counter, which decides when delete() releases an inode, is the  *)
(* number of its names: after calls that failed half way, under double      *)
(* names and with entries of the wrong type as well.                        *)
LinksExact == CASE device = "tight" -> Tight!LinksExact
                [] device = "roomy" -> Roomy!LinksExact
                [] device = "short" -> Short!LinksExact

(* A state that check_integrity passes is sound, whatever such calls left.  *)
CheckerSound == CASE device = "tight" -> Tight!CheckerSound
                  [] device = "roomy" -> Roomy!CheckerSound
                  [] device = "short" -> Short!CheckerSound
=============================================================================
