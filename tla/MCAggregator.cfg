SPECIFICATION AFairSpec
CONSTANTS
    Upstreams = {u1, u2}
    MaxVersion = 1
INVARIANTS ViewsAgree CacheNeverGoesBack
PROPERTY HealthyRegionShown
