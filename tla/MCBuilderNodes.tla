--------------------------- MODULE MCBuilderNodes -----------------------------
(* One agent, which the page has loaded, and one tool, which the user may    *)
(* create on it: what the page knows of the two differs.                     *)
EXTENDS BuilderNodes
=============================================================================
