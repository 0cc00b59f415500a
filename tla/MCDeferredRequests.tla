------------------------- MODULE MCDeferredRequests -------------------------
(* Instances of DeferredRequests: two terminals, each with a name. *)
EXTENDS DeferredRequests

CONSTANTS t1, t2, a, b

MCTerminals == {t1, t2}
MCNames == {a, b}

\* The terminals are interchangeable to begin with: a names the first one.
MCBindings == {f \in [MCNames -> MCTerminals] : f[a] = t1}

=============================================================================
