--------------------------- MODULE MCGraphedDecode ---------------------------
(***************************************************************************)
(* Two requests with prompts of one and three tokens, pages of two tokens, *)
(* answers that may grow over a page's end; with drafts of two tokens and  *)
(* without.  DecodeReads is what the decode passes of the attention        *)
(* backends read.  The indexer of DeepSeek V3.2 and a backend that         *)
(* verifies drafts as a prefill also read what has the size of all the     *)
(* tokens, which a graph cannot follow; they are left out.                 *)
(***************************************************************************)
EXTENDS GraphedDecode

CONSTANTS r1, r2

Prompts == (r1 :> 1) @@ (r2 :> 3)
DecodeReads == {"nprefix", "dprefix", "dseq", "dpos", "page", "off"}
=============================================================================
