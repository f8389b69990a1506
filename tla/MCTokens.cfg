SPECIFICATION FairTokSpec
CONSTANT Texts <- MCTexts
INVARIANT TokTypeOK
PROPERTIES ImplementsParse EveryTurnAdvances ParseEnds
