--------------------------- MODULE MCConfigModule ---------------------------
(***************************************************************************)
(* An instance of ConfigModule for TLC.                                    *)
(***************************************************************************)
EXTENDS ConfigModule, ConfigFiles
=============================================================================
