---------------------------- MODULE MCPorterDuff ----------------------------
EXTENDS PorterDuff

(* Every operation the two generators emit.                               *)
MCOps == {"clear", "src", "dst", "src_over", "dst_over", "src_in", "dst_in",
          "src_out", "dst_out", "src_atop", "dst_atop", "xor", "normal", "over"}

=============================================================================
