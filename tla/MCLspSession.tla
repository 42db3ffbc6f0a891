----------------------------- MODULE MCLspSession -----------------------------
EXTENDS LspSession

CONSTANTS a, b, c, clangd, abapls

\* a is served by clangd, b by another server, c by the editor itself
MCServerFor == [f \in {a, b, c, NoPath} |->
                   IF f = a THEN clangd ELSE IF f = b THEN abapls ELSE NoServer]
===============================================================================
