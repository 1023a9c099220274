------------------------ MODULE MCAssessmentPipeline ------------------------
EXTENDS AssessmentPipeline

\* "scope" stands for the three categories without prefixes. The high-risk keys come from
\* two sources and are more than one retrieval returns; the obligation may come after the form.
MCCategories == <<"scope", "prohibited_practices", "high_risk">>
MCKeys == {"art5", "art6", "annex3", "art9"}
MCKeysOf == [c \in {"scope", "prohibited_practices", "high_risk"} |->
                CASE c = "scope" -> {}
                  [] c = "prohibited_practices" -> {"art5"}
                  [] c = "high_risk" -> {"art6", "annex3"}]
MCSources == {{"art5", "art6"}, {"annex3", "art9"}}
MCWindow == [k \in MCKeys |-> IF k \in {"art6", "art9"} THEN {2} ELSE {1, 2}]
=============================================================================
