---------------------- MODULE MCUpstreamConfiguration ----------------------
EXTENDS UpstreamConfiguration, TLC

At(origin, tee) == [origin |-> origin, tee |-> tee]

\* Two attested upstreams for one permit; one of them moved to another origin
\* and the other gone; the first no longer attested.
SmallConfigs ==
    {"a" :> At("here", TRUE) @@ "b" :> At("here", TRUE),
     "a" :> At("there", TRUE),
     "a" :> At("here", FALSE)}

=============================================================================
