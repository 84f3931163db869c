---------------------------- MODULE MCJobControl ----------------------------
(* Pipelines of up to two stages over three process ids: room for a        *)
(* pipeline and a second job beside it.                                    *)
EXTENDS JobControl

=============================================================================
