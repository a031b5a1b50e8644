------------------------------ MODULE EnvFlash ------------------------------
(***************************************************************************)
(* The three environments SBL-S2 keeps in SPI NOR flash (sbl-s2/           *)
(* platform-def.h) and what env_import, env_io_clear and env_io_write do   *)
(* to them (libs/env/env.c, libs/env/env-io-spi.c).                        *)
(*                                                                         *)
(* A stored environment is a CRC followed by key=value strings.  Here a    *)
(* region is its contents plus membership in `valid', the set of regions   *)
(* whose CRC matches.  Erasing takes a region out of `valid'; its contents *)
(* can then not be read by any operation.                                  *)
(***************************************************************************)
EXTENDS Naturals

CONSTANTS UEnv,      \* values the U-Boot environment can have
          EmptyEnv,  \* a CRC-valid environment without variables
          SectorOf   \* erase sector of each region on the fitted flash part

Region == {"sbl", "uboot", "saved"}
Volume == {"a", "b"}
Unset == "unset"     \* env_get() returns NULL

(***************************************************************************)
(* The variables of the SBL environment.  tried_to_boot and keep_uboot_env *)
(* are tested for presence only; s2_ver is whether sbl-s2-ver equals       *)
(* BUILD_VERSION_STR.                                                      *)
(***************************************************************************)
SblEnv == [bootvol : Volume \cup {Unset}, safe_bootvol : Volume \cup {Unset},
           tried_to_boot : BOOLEAN, keep_uboot_env : BOOLEAN, s2_ver : BOOLEAN]

NoSblEnv == [bootvol |-> Unset, safe_bootvol |-> Unset, tried_to_boot |-> FALSE,
             keep_uboot_env |-> FALSE, s2_ver |-> FALSE]

UbootEnv == UEnv \cup {EmptyEnv}

ASSUME EnvAssumption == EmptyEnv \notin UEnv

\* env_io_spi_clear: the flash erases every sector the region touches, and
\* with it each other environment that lies in the same sector.
Erased(valid, r) == {x \in valid : SectorOf[x] # SectorOf[r]}

\* env_io_spi_write of a whole environment, CRC included, to an erased region.
Programmed(valid, r) == valid \cup {r}

\* env_import: a region whose CRC is wrong leaves the context as env_init made
\* it, that is without variables; the callers ignore the error.
Imported(valid, r, contents, empty) == IF r \in valid THEN contents ELSE empty
=============================================================================
