CONSTANT MaxVersion = 3
SPECIFICATION Spec
INVARIANTS TypeOK OldCodeSilent OneVersion RegistrationWhole
PROPERTY NoticeArrives
